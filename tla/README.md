# Formal verification of heos-control

TLA+ models of heos-control's concurrent and durable parts, TLC runs that check
them on small instances, and TLAPS proofs of the properties that matter most for
instances of any size. Every definition is translated from the Go and SQL source;
`PROJECT.json` maps each one to its lines.

## The system

heos-control is a Go service that drives HEOS speakers for HTTP clients. A
client submits a command (a playback, a volume change, a stop, a cancellation)
with an idempotency key; the service admits it as an *operation*, carries it out
on the device and records what became of it.

| Part | Source (`src/internal/`) | State | Operations | Talks to |
| --- | --- | --- | --- | --- |
| Operation journal | `journal/` | PostgreSQL: control row (epoch, ready), operations, device reservations, idempotency records | Open, Recover, Admit, Transition, SelectAlbum, Prune, reads | coordinator, service, API history |
| HEOS transport | `heos/client.go` | one connection, two queues, revision tokens, fence, event channel | Read, Write, BeginPriority, Interrupt, Close, the owner loop | coordinator, observer, catalog |
| Observer | `heos/observ*.go`, `scalar_observation.go` | last snapshot, invalid / mediaPending / writePending marks, a gate | full refresh, media, playback and scalar reads, Notify, ConfirmScalars, Reconcile | transport, coordinator, API |
| Catalog | `heos/catalog.go` | bounded map of expiring references | Browse, Resolve | transport, coordinator |
| Coordinator | `control/coordinator.go`, `execution.go` | per device: two gates, admission in progress, current execution; goroutines | Submit, execute, finalizers, Close | journal, transport, observer |
| Execution | `control/events.go`, `*confirmation.go`, `observation.go`, `queue_*policy.go` | expected snapshot, pending expectations, ownership | attribution of events, readback, queue decisions | transport, observer |
| Playback | `control/playback*.go`, `automation.go`, `queue_*.go`, `buffered_*.go`, `progressive_skip.go` | clock envelope, parts, one child skip | ramp, fade, stop, append, prune, skip | execution, journal |
| Event broker | `api/events.go` | epoch, sequence number, ring of events, subscribers' channels | Publish, Subscribe, stream writer, Close | service, HTTP clients |
| HTTP API | `api/` | none of its own | validation, authorisation, error mapping | coordinator, broker, journal |
| Service | `app/` | lifetimes | start, journal maintenance, watchers, shutdown | all |

### What is hard about it

* A COMMIT can succeed although its client saw an error, and land after the
  client, or a retry, has asked what happened.
* A process can be superseded by another one during its own recovery.
* A stop may overtake an admission that is in the middle of its transaction, a
  takeover that waits for a worker, or a cancellation that is finishing its
  target.
* A device acknowledges a command before it carries it out, reports changes
  without saying who made them, and may stay silent; a command may have been
  executed although its reply was lost, so nothing is ever sent twice.
* Every buffer is bounded: event channels, request queues, the player map, the
  event history, the reference cache.

`PROJECT.json` lists these as hazards, each at the line where it bites and with
the properties that would notice it going wrong.

## The modules

| Module | Models | Checked by | Proved in |
| --- | --- | --- | --- |
| `Journal` | the journal's transactions, recovery and unknown COMMITs, with several processes | `MCJournal` | `JournalProofs` |
| `Ledger`, `JournalLedger` | what the journal promises, and the mapping under which `Journal` implements it | `MCJournal` | `JournalProofs` |
| `Transport` | the HEOS client's owner goroutine, its callers and its device | `MCTransport` | `TransportSteps`, `TransportProofs` |
| `Observer` | one player's snapshot: notifications, reads, marks, the Run loop | `MCObserver` | - |
| `QueuePolicy`, `Execution` | one worker and one player: attribution of events, guarded commands, confirmation, outcome | `MCExecution` | `ExecutionProofs` |
| `Playback` | what a worker does over time: envelope, loading, buffered queue, the child skip | `MCPlayback` | `PlaybackProofs` |
| `Catalog` | the reference table, and the resolution of a playback request into tracks | `MCCatalog` | `CatalogProofs` |
| `Coordinator` | one device's lane: Submit calls, workers, finalizers, Close | `MCCoordinator` | `CoordinatorProofs` |
| `EventHub` | the SSE broker and the clients that read it | `MCEventHub` | `EventHubProofs` |

The modules meet at their interfaces. `Coordinator` contains the journal as one
process with a current epoch sees it (rows, revisions, the reservation, calls
that fail or commit without saying so); `Journal` shows that this is what the
database gives it, and `Ledger` says it without the database. A device write in
`Coordinator` ends confirmed, failed or in doubt: `Execution` shows what each
outcome says about the player, and `Transport` what each answer says about the
bytes that were sent. `Observer` and `Execution` use the tokens whose rules
`Transport` proves. A command in `Playback` is one step with the results that
`Execution` gives it, and its parts arrive as `Catalog` prepares them.

### Journal

`control`, `ops`, `idem` and `resv` are the four tables; `proc`, `initialized`
and `previous` are each process's `Store`, named by the random epoch it drew.
Every mutation takes the control row `FOR UPDATE`, so a transaction is one
action: `Admit`, `Transition`, `SelectAlbum`, `RecoverBatch`, `Prune`. A
transaction that fails rolls back and is a stuttering step, with one exception
the code handles at length: `AdmitCommitLost` leaves the admission in `tx` with
the server, which still holds the lock and decides later (`ServerCommits`,
`ServerAborts`), while the call resolves it by looking the key up
(`AdmitResolve`) or gives up (`AdmitUnresolved`). `granted` counts how often
Admit told a caller to start an operation; `abandoned` the operations whose
caller was told "uncertain"; `past` the epochs the control row has left. What a
request replaces or belongs to was read before its transaction, so `Propose`
draws it from all operations: one that is finished, of another device, or handed
on meanwhile is for `ReplaceMatches` to refuse.

`Ledger` has three variables: the `life` of an operation (absent, open or
finished, and absent again once it is pruned), the `holder` of a device, and how
often an operation was `started`. An operation reserves a free device, takes it over or joins its holder;
is started at most once; ends; is forgotten. `JournalLedger` maps rows,
reservations and grants to them: crashes, epochs, retries and late COMMITs are
invisible or one of these steps.

### Transport

A step is a section under `Client.mu`, a channel operation or a socket call.
`owner` is the program counter of the goroutine that owns the connection (poll,
claim, activate, drain, check the guard, dial, recheck, stamp, write, await);
`phase`, `guard`, `fenceOf` and `answer` belong to a request; `session` and
`victim` to a caller of `BeginPriority` that runs `Interrupt`. `view`, `players`
and `writes` make the revision token. The device sends events and replies in any
order, the connection breaks at any time, and a context may end at any time.

### Observer

`device` is the player, `heard` what its notifications and replies have said so
far, `awaiting` the fields a command is still to change. The client delivers
notifications in order (`wire`), moves the token at once (`HandleEvent`) and puts
the event in a bounded `channel`, or a gap when it is full; the consumer
(`NotifyControl`, `NotifyProgress`) lags behind. `last` is the snapshot; `invalid`,
`mediaPending`, `writePending` and `age` decide whether it is *verified*. `reader`
holds the gate and reads part by part (`Ask`, `Identify`, `Publish`, `Fail`), while
tokens move; `wake`, `pending` and `recovering` are the Run loop's timers.
`Refresh`, `Reconcile`, `RefreshPlayback`, `RefreshScalars` and `ConfirmScalars`
are the calls that workers and API make. The replies of a full read are grouped
in three.

### Execution

`QueuePolicy` holds the comparisons of two views of a player: who owns a queue,
what a transition may look like, which media belong to it. `Execution` runs a
`program` of commands. `pc` is where the worker is in `mutate` and `writeOnce`:
observe or rely on events (`prewriteObservation`), read (`checkOwnership`), record
in the journal (`PreWrite`), announce the expectation (`expect`), send with a
guard, wait, confirm by notifications (`ScalarReady`, `Confirm`) or by a read
(`confirmReadback`), wait for the queue to go on (`awaitOwnedPlayback`). `expected`,
`etoken`, `events`, `requeue`, `keep`, `phase` and `scalar` are what an arriving
event is compared with (`Hear`); `inflight`, `uncertain`, `unconfirmed`, `revoked`
and `owned` are the execution's flags; `outcome` is what is recorded. The player
acknowledges before or after it carries a command out (`effect`), repeats
notifications, shows transitional values, changes tracks by itself, and another
controller may change anything.

### Playback

`now` is the clock and `plan` the admitted operation. `automate` computes a level
for the time `at` which it read, sends it, and by then it may be later: `pc`,
`stage`, `until` and `fadeFrom` follow the loop, `cmd` and `tries` the command in
progress. With the operation's `budget` its context ends (`Tick`). `loaded`,
`ordered` and `pruned` count what the worker has put in the queue, `resident` and
`pos` what the player has. A track change (`Moves`) puts a notification on the
`wire`; it arrives later (`Notified`) and is `pending` until a read makes the
position `known`. A command sent in between acts on a player that has moved on:
its removal may take the current track, its skip may lead nowhere, and neither is
then confirmed (`Confirmed`). `slot` is the one place
for a child skip between `submitBufferedSkip`, the worker and
`closeBufferedSkips`; the journal may refuse it (`AdmitFails`) or admit it after
its owner has ended.

### Catalog

`lib` is the library as it is and `seen` the version last announced; `rev` and `up`
are the revision token and the connection. `refs` is the reference table with its
weight in items, `req` a Browse call between its page reads, `plan` a playback
request through `resolvePlayback`, `BrowseAll`, the walk over nested containers and
the parts a buffered session prepares later. `wire` is the reply on its way, which
was composed before or after a change, with or without the length of the list,
and may hold fewer or more entries than were asked for. `pageProblem` and
`IncompleteSource` refuse what contradicts a stated length; without one a short
page is the last. A reply that contradicts itself, and a
source that `resolveSource` does not find, are `BrowseFails` and `ReadFails`. There
is one source per player and no limit on the items of one walk; the depth and page
limits are modelled.

### Coordinator

A Submit call admits at most one operation, so both have one name. `pc` is where
the call is: the gates, the lookups, the wait for a revoked worker, the lifecycle
mutex, the transaction. `worker` is the goroutine of the admitted operation,
`cause` its context's cause, `doubt` its `uncertain` and `unconfirmed` marks,
`finals` the journal-only finalizers, `row` and `holder` the journal.

### EventHub

`history` is the ring, `subs` and `channel` the subscriptions, `stream` and
`replay` what each response writer is doing, `last` the client's Last-Event-ID,
`log` what it has received, `known` up to where it has reread everything. A
client disconnects and reconnects at will, loses its id, and meets a restarted
service with an id of the previous process.

## The runs

| Run | Instance | Shows |
| --- | --- | --- |
| `journal` | 2 epochs, 2 keys, 2 operations, 2 devices, 1 call with a lost COMMIT, batches of one, a clock of two values that may be set back | reservations exist exactly for the unfinished operations that took them; an operation is started at most once; retries are replays; finished rows are kept for the retention; no accepted operation is forgotten; ready means recovered; an epoch never returns; all of it implements `Ledger` |
| `transport_guards` | 1 observing read and 2 writes guarded by one snapshot, 2 players in a map that holds one, a channel of one event, one connection that is made and lost | a guard is spent by one command and never outlives an event, a gap, an eviction or a new connection; "not sent" is said only of commands of which no byte was; the consumer loses nothing silently |
| `transport_fence` | an ordinary and a priority read, one session, one notification of any kind, two connections, Close | nothing older than Interrupt is written after it returned; every submitted request is answered |
| `observer` | every call of the observer, a volume, a mode and another command, changes that are notified, silent or global, a channel of two | a verified snapshot has every value heard and none from before a command; a playhead never belongs to earlier media; lost history is always being repaired |
| `execution` | 8 operations on 3 players; at any moment two of: a change by another controller, a track change, a repeated or transitional notification (one of them in the buffered operation) | commands leave on a current belief; a worker's own events do not cost it the device; a play never overrules a later stop; a confirmation is about the command; the recorded outcome is honest |
| `playback` | 2 envelopes, a loaded queue, a buffered session, a buffered envelope, 2 fades of a Stop; any number of track changes, notifications and skips within the budget | the envelope keeps its shape under delays; playback ends stopped, once and in silence; the queue stays within its bound and pruning keeps the retained tracks; skips get a true result; everything ends |
| `catalog` | 2 versions of a library with a nested and, later, a cyclic folder; one item, several references, a buffered request with a part prepared later; a table of weight 6 | the table stays within its capacity; references that still resolve are true; an accepted plan is one picture of the library |
| `coordinator_handoff` | a playback, its cancellation and a stop; failing admissions and records; the end of the service | one operation drives the device; none is left open with nobody to finish it; nothing runs after Close; no ordinary admission overtakes a stop |
| `coordinator_live` | a takeover and a stop, each of which may replace the other | every call returns, every operation ends |
| `event_hub` | 2 clients (one may not see everything), a history of 2, channels of 1, 3 events in each of 2 epochs | no event is skipped unknowingly; events are delivered |
| `coordinator_stranded` | a playback, a takeover, a cancellation | **violated**: see Findings |
| `coordinator_doubt` | a playback, its cancellation, a stop | **violated**: see Findings |

Some properties are conditional, as the code is:

* `OwnEventsHarmless` is about a player whose last notification of a command is
  the change that was asked for, and whose answers do not overtake
  notifications (`prompt`). Any other player can make a worker give up a device
  it still owns; the code prefers that to ignoring another controller. The
  other properties of `execution` hold for both.
* `VerifiedCurrent` compares with what was heard, not with the device: a silent
  change is found by the audit, and only then.
* `RefsHonest` and `PlanExact` hold when every change of the library has been
  announced, and `RefsHonest` leaves out the entries of a source's root, which is
  read without a reference and whose revision is not compared with the one before
  the read.
* The token of a single item is captured after the item was resolved
  (`playback_media.go:60`, `playback_plan.go:80`). So `PlanExact` says of a single
  item that its members are what is below it under the present revision, not
  that its reference was of that revision; of parts it says both.
* `RetainedKept` measures a removal against the position of the last observation.
  The code cannot know of a track change whose notification is still on its way,
  and the player may then lose its current track; the property says that this is
  the only case, and `removeObservation` that such a removal is not confirmed.
* `PlanExact` assumes of the player that a list whose length it does not state is
  short only at its end, and that it answers with nothing only past the end: the
  code has no other sign of the end and believes it (`pageBounds`).
* `SentKnowing` lets a command leave while the media last heard mix two entries of
  the queue (`transitionalQueueMedia`) and, if it is a scalar one, while the owned
  queue is at another entry.
* `ConfirmedIsDone` sets interference by another controller aside: a read that
  shows the wanted value confirms a command whoever set it.

### Bounds, and why they are enough

Every bound is a named constant. Limits of the code (`MaxOperations`,
`MaxBatch`, `MaxPlayers`, `QueueDepth`, `EventBuffer`, `Capacity`, `Buffer`,
`MaxSubscriptions`, a plan's `max` and `budget`) are set so low that
the instance reaches them and goes past them: a batch that is exactly full, the
player that evicts the others, the event that finds the channel full, the
reconnect at the last id the history still covers, the part that
fits only after pruning. Bounds of the model (`Horizon`,
`MaxRevision`, `MaxNotices`, `MaxGeneration`, `MaxWrites`, `MaxSeq`, `MaxEpoch`,
`MaxStirs`, `MaxForeign`, `MaxNatural`, `MaxNoise`, `MaxWire`, `MaxRev`, `MaxNow`,
`MaxRefs`) are large enough for a mistake to show: each property is violated in
its own run, under these bounds, when one definition is changed the way a
plausible mistake would (the `mutants` of `PROJECT.json`). The hazards of
`Observer` and `Execution` are races of two or three outside changes with one
read or command, which is what `MaxStirs` = 3 and the budgets of `execution` (one
of each, `disturbed` in all) allow.
`MaxDepth` and `MaxPages` of the catalogue are just above what its library needs:
the folder that holds itself is refused because it is met twice. The operations in
`MCExecution` are shorter than real ones; every kind of command occurs, alone or
in an order in which the code sends them.

The proofs remove the bounds for the journal, the transport, the broker, the
coordinator's lane, the playback loops, the worker's recorded outcome and the
reference table. The journal instance does not exercise a transition to
`running`; the proofs do.
Operation ids, keys, calls and epochs of the journal, its requests together with
the devices they name, and the two guarded writes
of the transport, are interchangeable and are declared symmetric; neither run has
a liveness property.

Deadlock is checked in `journal`, `execution`, `playback` and `catalog`; in
`execution` and `playback` an ended operation stutters. The other instances come
to rest: their calls, events and epochs are finite in number.

### Fairness

Safety runs assume none. `transport_fence`: the owner goroutine runs, a caller
between `submit`'s mutex and its channel send goes on, a caller notices that
`done` is closed, and `CommandTimeout` ends every exchange; nothing is assumed of
the device. `coordinator_live`: every step of a call, a worker or a finalizer is
bounded by a timeout or waits for a mutex only, and (strong fairness) a terminal
record that is retried each second is at last written. `playback`: the worker
runs, time passes, and journal calls return because their contexts have timeouts
and a stored result is retried; nothing is assumed of skips, cancellations or
track changes. `event_hub`: a stream with something to write writes it or ends,
since each write has a deadline.

## The proofs

**Journal** (`JournalProofs`), for any sets of epochs, keys, devices, operations
and calls, any batch size and retention: `TypeCorrect`, `ReservationsExact`,
`AtMostOnce`, `RetriesReplay`, `RetentionKept`, `RecoveredBeforeReady`,
`AdmissionsAccounted`, `EpochsFenced`, `TerminalStays`, `DispatchesCurrent`. The
assumptions are that NULL is not an id, a row or a number, that batches are not
empty, and that requests name configured devices.

None of the properties is inductive by itself. A late COMMIT inserts its row
without looking again, so the invariant `IndInv` says that what
Admit had checked still holds while the transaction is outstanding
(`Outstanding`: it keeps the lock); that of the calls resolving a COMMIT none
shares an id and each still describes what it proposed (`Claims`); that an id
not yet drawn was never granted (`Grants`); that rows and idempotency records
point at each other (`Linked`) and `finished_at` agrees with the state
(`Lifecycle`); and that an epoch which ever held the journal took it from one
that has lost it (`EpochOrder`), which is why a superseded process that retries
Recover finds neither of the two epochs it accepts. The first lemmas show what
each update does to the tables and lift this to the actions that update them;
calls and epochs come after, with one lemma per action.

**Refinement** (`JournalProofs`): `JournalIsLedger`, the journal implements
`Ledger`, for the same constants. Each action maps to one action of the ledger or
to a stutter; the lemmas say which. That a resolved COMMIT is a `Start` and not a
second one needs `Grants` and `Claims` from `IndInv`; that a recovery batch or a
pruning only ends or forgets what it may needs `Lifecycle`.

**Transport** (`TransportProofs`), for any reads, writes, sessions, players, map
size, queue depth, channel length and number of connections: `Invariance`,
`GuardSpentHolds`, `GuardsAreFresh`, `DeliveryIsHonest`, `FenceAlwaysHolds`,
`NothingSkippedSilently`. The assumptions are that `None` is not a number, a token,
an answer or a connection, that sessions are finite, that targets are players and
that reads and writes are disjoint. The lemmas `TokenSteps`, `PhaseSteps` and `FenceSteps` (`TransportSteps`)
classify once what any step may do to the tokens, to a request and to the fence;
the invariant follows conjunct by conjunct:

* A guard is never ahead of its player's token, and one that was outdated or
  used is strictly behind it (`Tokenized`, `Guarding`). That is why comparing it
  once more before the write is enough, and it depends on evictions and
  reconnects raising the revision of everything.
* A request is with its caller, in one queue, with the owner or answered, never
  in two places (`Placed`), so what a caller was told and what was written can
  be compared (`Told`).
* Work in hand that is not cancelled carries the current fence, what is queued
  behind a held fence is older than it, and a write in progress uses the
  connection that Interrupt closes (`Fenced`). None of the three suffices alone:
  Interrupt reads the active work and raises the fence under the mutex but
  closes the connection outside it.
* The entries of the event channel are numbered one after the other, from what
  the consumer last had to what was last published; only a gap skips, and
  progress keeps the number of its predecessor (`Streamed`).

**Event broker** (`EventHubProofs`), for any clients, permissions, history and
channel length: `HubTypeCorrect`, `ClientsSkipNothing`, `ClientsAscend`. That a
client skipped nothing follows from where the missing events are. `IInv` says that
the ring is a suffix of what was published (`Window`), that a Last-Event-ID is never
ahead of it (`LastOK`), and of every subscriber that each event it may see is known,
still to be replayed or in its
channel (`Covered`), that replay and channel ascend, the one before the other
(`Ordered`), and that neither goes back behind what the client has (`Ahead`).

**Execution** (`ExecutionProofs`), for any program, any player and any number of
disturbances: `Invariance`, `OutcomeAlwaysHonest`. The invariant `IndInv` says, for
each point of `writeOnce`, whether one command more has left than was confirmed,
and that the worker knows it once the command is acknowledged (`Counted`); and
that doubt arises only from a revocation while a command is in flight, after which
the worker never reaches the last checks (`Doubted`). That a success is recorded
without doubt needs the second part: the flag itself is not looked at again.

**Coordinator** (`CoordinatorProofs`), for any set of calls and any commands they
submit: `Invariance`, `WriterAlwaysOwnsDevice`, `NothingRunsAfterClose`,
`PriorityAlwaysFirst`. The assumptions are that `None` is neither a call nor a
row and that a cancellation names one of the operations. The invariant `Inv` says:

* whoever is past the gate holds it, an ordinary admission is the one a stop
  would disconnect, and one that is still connected has seen no stop (`GateInv`);
* workers start under the lifecycle mutex, which is not taken once Close has
  begun (`MutexInv`);
* a row exists for every operation somebody speaks of, and stays (`RowInv`); a
  worker that is finishing knows its final state (`Decided`);
* a working operation is the one on the lane and holds the device (`WriterInv`).
  This is kept because the worker has ended of the operation that a call waited
  for, that is left to a finalizer, or that an admitted cancellation targets
  (`RevokedInv`): a takeover moves the reservation without asking the worker, and
  only the wait before it makes that safe.

**Playback** (`PlaybackProofs`), for every admitted plan, that is any envelope, any
division of a queue into parts and any buffering policy that `validate` accepts,
any clock and any number of skips and track changes: `Invariance`,
`AlwaysEndsStopped`, `AlwaysQueueBounded`, `AlwaysSkipHonest`,
`AlwaysEnvelopeShape`, `AlwaysRetainedKept`. The assumptions are those of
`validateAutomation` and `validateBuffered`, and that parts are not empty. The
properties speak of moments between commands; the invariant `Inv` says what holds
in the middle of one:

* the player's queue is the expected one, or, while an append or a removal is
  being prepared, what `Restore` would give back (`QueueInv`); that a validated
  policy never meets `errBufferedCapacity` follows from the threshold a refill was
  decided on (`BufferInv`), although the position is older than the preparation;
* a removal that may still be sent was checked against the position that is known,
  and the player is still there unless a notification is pending, which stops the
  command, or on its way (`BufferInv`);
* the volume is the last confirmed level, except after a level was sent and
  before it is confirmed; the Stop is begun only when the round it ends was over,
  and then the last level was zero if there is a fade (`StopInv`);
* the last level has not passed the ramp at the time of the round, nor fallen
  below the fade's line (`EnvelopeInv`). `DivBound` and `DivMonotone` are the two
  facts about integer division this rests on;
* a child that waits was not sent, and one whose command is running is the
  worker's (`SkipInv`).

`LoopBegins` and `CommandEnding` classify once what a round of the loops may
begin and how a command may end; the step lemmas, one per conjunct, use them.

**Catalog** (`CatalogProofs`), for any library and any sequence of its versions,
any page size, lifetime and capacity: `Invariance`, `RefsAlwaysHonest`. The
assumptions are that the lists keep their names through all versions and that what
can be browsed has a list. The invariant `IndInv` follows an entry from the player
to the table: a reply on its way was composed from the list as it is, if the
revision is still the one the request began with (`Wired`), so is the page Browse
holds (`Asked`), and so is every reference of the present revision (`Table`). A
change of the library leaves `lib` ahead of `seen` until it is announced, and an
announcement outdates all three (`MovesOn`). The comparison of the revision before
the read with the one after it is needed for every list but the root, which is
asked for without a reference; `Asked` says so.

**Only model-checked**: liveness (`RequestAnswered`, `Settles`, `Delivered`,
`PlaybackEnds`, `SkipsFinish`), which needs fairness and `ENABLED`, out of the
prover's reach; `NoStrandedOperation`, which depends on the commands of the
instance (see Findings); what the worker believes of the player
(`OwnEventsHarmless`, `SentKnowing`, `StopNotOverruled`, `ConfirmedIsDone`), which
depends on the order of the programs' commands; `CacheBounded`, whose weight is a
sum over the table, and `PlanExact`, which compares a walk with a recursive
definition, both of which need induction over data; and everything about the
observer. That recovery ends is not a run: each
committed batch of `RecoverBatch` either finishes `MaxBatch` operations of an
earlier epoch, to which none is added, or is short and makes the process ready.

## Findings

1. **A takeover that is itself preempted strands the operation it revoked**
   (`coordinator_stranded`, `control/coordinator.go:403`). Submit cancels the
   current worker with `errSuperseded` and waits for it. If its own context ends
   during the wait (a stop or a cancellation preempts it, or its client
   disconnects) it returns before the deferred `finishOrphan` is registered, and
   the superseded worker leaves its row to exactly that call. The row stays
   running and the device reserved until a stop or a takeover replaces it or the
   service restarts. A failing re-read (line 415) has the same effect, because
   it overwrites `old`.
2. **A stop can erase the doubt about its predecessor** (`coordinator_doubt`,
   `control/coordinator.go:522`). `ReplaceUncertain` is taken from the execution
   found on the lane. After a cancellation was refused because its target's last
   command is unconfirmed, the target has left the lane and only a finalizer is
   about to record it as uncertain; a stop admitted first finishes it as
   released.

`DoubtRecorded` excludes two cases the code accepts: a releasing cancellation
records "cancelled" whatever its target left unconfirmed, and a worker that could
not record its outcome while the service stops leaves a row which a stop submitted
just before may replace.

## Not modelled

* *Generated code* (`api.gen.go`, `dbgen/`): its sources are
  `api/openapi.yaml` and `queries/operations.sql`. The statements of the latter
  that change rows are `Journal`'s actions.
* *The HEOS wire format, configuration, command line, metrics, logs*: functions
  of their input, or counters nothing reads back. The format is fuzzed by the
  repository's tests.
* *HTTP handlers, history queries, diagnostics, the doctor*: they keep no state;
  the calls they make are the actions of the modules.
* *Migrations*: executed by goose under its own lock.
* *The order of start and shutdown, `maintainJournal`'s loop and the watchers*
  (`app/`): the calls they make are modelled, with no assumption on when. What a
  watcher publishes about an operation that is replaced between two polls
  (`app/devices.go:136`) is a listed hazard without a property.
* *Several devices at once*: lanes share nothing but the journal, which has
  several devices in its proofs, and Close.
* *A child skip that meets the end of the service*
  (`progressive_skip.go:196`): `Playback` has one operation and no Close. The
  lock pattern is that of `finishOrphan`, which `NothingAfterClose` covers.
* *Numbers*: levels, positions and times are small integers, and the 10,000-item
  limit of one catalogue walk is left out. Nothing in the modelled code
  computes near the limits of its integer types.
* *Views for the API* (`control/reads.go` and the evidence attached to outcomes):
  they decide nothing.
