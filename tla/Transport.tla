------------------------------ MODULE Transport ------------------------------
(***************************************************************************)
(* The HEOS client (internal/heos/client.go, writes.go): one owner         *)
(* goroutine that takes requests from two bounded queues, one connection,  *)
(* revision tokens that guard writes, a fence that Interrupt raises        *)
(* against work already queued, and a bounded channel of events.           *)
(*                                                                         *)
(* A step is a section under Client.mu, a channel operation or a socket    *)
(* call, so callers, sessions that hold the priority path, the device and  *)
(* the consumer of events interleave with the owner wherever the code      *)
(* lets them.                                                              *)
(***************************************************************************)
EXTENDS Integers, Sequences, FiniteSets

CONSTANTS Players,        \* player ids callers observe
          MaxPlayers,     \* players the client keeps revisions for (64)
          Reads, Writes,  \* requests, each made once
          Observing,      \* reads a refresh makes after observePlayer
          Urgent,         \* requests whose context is Priority
          Target,         \* Requests -> the player addressed
          Sessions,       \* callers of BeginPriority, one call each
          QueueDepth, PriorityDepth, EventBuffer,
          MaxDrain,       \* frames process takes before a guarded write (32)
          None,
          NoticeKinds,    \* the unsolicited frames of the instance
          MaxNotices,     \* bound: how many of them the device sends
          MaxGeneration,  \* bound: connections established
          MayClose        \* whether the instance closes the client

Requests == Reads \cup Writes
ASSUME RequestAssumption == Urgent \subseteq Requests /\ Observing \subseteq Reads
                            /\ Target \in [Requests -> Players]
                            /\ Reads \cap Writes = {} /\ None \notin Requests
ASSUME LimitAssumption == /\ MaxPlayers \in Nat \ {0} /\ EventBuffer \in Nat \ {0}
                          /\ QueueDepth \in Nat \ {0} /\ PriorityDepth \in Nat \ {0}
                          /\ MaxDrain \in Nat \ {0}
                          /\ MaxNotices \in Nat /\ MaxGeneration \in Nat /\ MayClose \in BOOLEAN
ASSUME NoticeAssumption == NoticeKinds \subseteq {"player", "global", "catalog", "progress", "pending"}
Tokens == [gen : Nat, rev : Nat, cat : Nat, write : Nat, player : Nat]
ASSUME NoneAssumption == None \notin Int \cup Tokens \cup {"ok", "rejected", "uncertain", "notsent"}
ASSUME SessionAssumption == IsFiniteSet(Sessions)

VARIABLES view,      \* Client.view: connected, generation, revision, catalog
          players,   \* Client.players: revision, None when not observed
          writes,    \* Client.writes: write revision
          fence,     \* Client.fence
          link,      \* Client.connection and the owner's g
          cooling,   \* nextDial has been set
          closing,   \* Client.ctx is cancelled
          done,      \* Client.done is closed
          queue, priority,   \* Client.requests, Client.priority
          channel,   \* Client.events
          owner,     \* where run and process are, and for which request
          phase,     \* request -> how far its caller and the owner are
          guard,     \* request -> its snapshot's token, a write's Guard.Token
          fenceOf,   \* request -> request.fence
          answer,    \* request -> what submit returned
          session,   \* BeginPriority callers
          victim,    \* session -> the connection Interrupt will close, its fence
          notices,   \* frames the device has sent unasked
          sent,      \* <<request, what>> of which bytes were written
          outdated,  \* writes whose guard an event or a new connection outdated
          fenced,    \* the fence below which Interrupt has returned
          numbered,  \* control events and gaps published so far
          last       \* number of the last one the consumer received

client == <<view, players, writes, fence>>
mail == <<queue, priority>>
callers == <<phase, guard, fenceOf, answer>>
sessions == <<session, victim, fenced>>
life == <<closing, done>>
stream == <<channel, numbered, last>>
vars == <<view, players, writes, fence, link, cooling, closing, done, queue, priority,
          channel, owner, phase, guard, fenceOf, answer, session, victim,
          notices, sent, outdated, fenced, numbered, last>>
-----------------------------------------------------------------------------
Idle == [at |-> "idle", req |-> None, what |-> "command", err |-> "none",
         cancelled |-> FALSE, drained |-> 0, publish |-> "nothing"]

(* Frames: an event of a player, of the service or of its sources; device  *)
(* progress; a reply; a read error, EOF or a reply to something else.  A   *)
(* connection holds those that arrived, and whether a reply is due.        *)
Notices == {f \in (Players \cup {None}) \X NoticeKinds : f[1] # None <=> f[2] = "player"}
Replies == {<<None, "ok">>, <<None, "reject">>}
Broken == <<None, "broken">>
Frames == Notices \cup Replies \cup {Broken}
Links == [gen : Nat, open : BOOLEAN, subscribed : BOOLEAN, frames : Seq(Frames), due : BOOLEAN]
ASSUME LinkAssumption == None \notin Links
IsEvent(f) == f[2] \in {"player", "global", "catalog", "progress"}

Guarded(r) == r \in Writes
(* BeginPriority's count of callers that have not released it.             *)
PriorityMode == Cardinality({s \in Sessions : session[s] \in {"raised", "fencing", "held"}})
Blocked(r) == PriorityMode > 0 /\ r \notin Urgent
Processing == owner.at \notin {"idle", "select", "claimed", "gone"}

(* Variant: the write revision is left out of the token.                   *)
TokenUnwritten(p) == [gen |-> view.gen, rev |-> view.rev, cat |-> view.cat, write |-> 0,
                      player |-> IF players[p] = None THEN 0 ELSE players[p]]

(* PlayerView.                                                             *)
Token(p) == [gen |-> view.gen, rev |-> view.rev, cat |-> view.cat, write |-> writes[p],
             player |-> IF players[p] = None THEN 0 ELSE players[p]]

Init ==
  /\ view = [connected |-> FALSE, gen |-> 0, rev |-> 0, cat |-> 0]
  /\ players = [p \in Players |-> None] /\ writes = [p \in Players |-> 0]
  /\ fence = 0 /\ fenced = 0
  /\ link = None /\ cooling = FALSE /\ closing = FALSE /\ done = FALSE
  /\ queue = <<>> /\ priority = <<>> /\ channel = <<>>
  /\ owner = Idle
  /\ phase = [r \in Requests |-> "new"]
  /\ guard = [r \in Requests |-> None] /\ outdated = {}
  /\ fenceOf = [r \in Requests |-> 0]
  /\ answer = [r \in Requests |-> None]
  /\ session = [s \in Sessions |-> "new"] /\ victim = [s \in Sessions |-> None]
  /\ notices = 0 /\ sent = {} /\ numbered = 0 /\ last = 0
-----------------------------------------------------------------------------
(* Callers.                                                                *)

Observed == {p \in Players : players[p] # None}

(* Variant: clearing the full map leaves the shared revision alone.        *)
ObserveEvicting(r) ==
  LET p == Target[r]
      evict == players[p] = None /\ Cardinality(Observed) = MaxPlayers IN
  /\ phase[r] = "new" /\ (Guarded(r) \/ r \in Observing)
  /\ players' = [q \in Players |-> IF q = p /\ players[p] = None THEN 0
                                   ELSE IF evict THEN None ELSE players[q]]
  /\ writes' = [q \in Players |-> IF evict THEN 0 ELSE writes[q]]
  /\ UNCHANGED view
  /\ guard' = [guard EXCEPT ![r] = Token(p)']
  /\ phase' = [phase EXCEPT ![r] = "observed"]
  /\ UNCHANGED <<fence, link, cooling, life, mail, stream, owner, fenceOf, answer,
                 sessions, notices, sent, outdated>>

(* observePlayer: the snapshot it begins gives a write its guard.  A full  *)
(* map is cleared, which must outdate every token taken from it.           *)
ObservePlayer(r) ==
  LET p == Target[r]
      evict == players[p] = None /\ Cardinality(Observed) = MaxPlayers IN
  /\ phase[r] = "new" /\ (Guarded(r) \/ r \in Observing)
  /\ players' = [q \in Players |-> IF q = p /\ players[p] = None THEN 0
                                   ELSE IF evict THEN None ELSE players[q]]
  /\ writes' = [q \in Players |-> IF evict THEN 0 ELSE writes[q]]
  /\ view' = [view EXCEPT !.rev = IF evict THEN @ + 1 ELSE @]
  /\ guard' = [guard EXCEPT ![r] = Token(p)']
  /\ phase' = [phase EXCEPT ![r] = "observed"]
  /\ UNCHANGED <<fence, link, cooling, life, mail, stream, owner, fenceOf, answer,
                 sessions, notices, sent, outdated>>

Answered(r, a) == /\ answer' = [answer EXCEPT ![r] = a]
                  /\ phase' = [phase EXCEPT ![r] = "done"]

(* Write's checks and submit's section under the mutex.  Whether a guard's *)
(* ExpiresAt has passed is asked three times; a request found late ends.   *)
Submit(r, late) ==
  /\ phase[r] = IF Guarded(r) \/ r \in Observing THEN "observed" ELSE "new"
  /\ r \in Urgent => \E s \in Sessions : session[s] = "held"
  /\ late => Guarded(r)
  /\ IF \/ late \/ (Guarded(r) /\ players[Target[r]] = None)
        \/ Blocked(r)
     THEN Answered(r, "notsent") /\ UNCHANGED fenceOf
     ELSE /\ fenceOf' = [fenceOf EXCEPT ![r] = fence]
          /\ phase' = [phase EXCEPT ![r] = "submitting"]
          /\ UNCHANGED answer
  /\ UNCHANGED <<client, link, cooling, life, mail, stream, owner, guard,
                 sessions, notices, sent, outdated>>

(* submit's nonblocking send to the bounded queue.                         *)
Enqueue(r) ==
  LET urgent == r \in Urgent
      full == IF urgent THEN Len(priority) = PriorityDepth ELSE Len(queue) = QueueDepth IN
  /\ phase[r] = "submitting"
  /\ IF done \/ full
     THEN Answered(r, "notsent") /\ UNCHANGED mail
     ELSE /\ phase' = [phase EXCEPT ![r] = "queued"]
          /\ queue' = IF urgent THEN queue ELSE Append(queue, r)
          /\ priority' = IF urgent THEN Append(priority, r) ELSE priority
          /\ UNCHANGED answer
  /\ UNCHANGED <<client, link, cooling, life, stream, owner, guard, fenceOf,
                 sessions, notices, sent, outdated>>

(* Variant: submit waits for the owner or its context only.                *)
WithdrawRunning(r) ==
  /\ phase[r] = "queued" /\ ~done
  /\ answer' = [answer EXCEPT ![r] = "notsent"]
  /\ phase' = [phase EXCEPT ![r] = "withdrawn"]
  /\ UNCHANGED <<client, link, cooling, life, mail, stream, owner, guard, fenceOf,
                 sessions, notices, sent, outdated>>

(* The caller's context ends, or the client closed, before the owner took  *)
(* the request: its state goes from 0 to 2.                                *)
Withdraw(r) ==
  /\ phase[r] = "queued"
  /\ answer' = [answer EXCEPT ![r] = "notsent"]
  /\ phase' = [phase EXCEPT ![r] = IF done THEN "done" ELSE "withdrawn"]
  /\ UNCHANGED <<client, link, cooling, life, mail, stream, owner, guard, fenceOf,
                 sessions, notices, sent, outdated>>
-----------------------------------------------------------------------------
(* BeginPriority: raise the mode; Interrupt's section under the mutex, then *)
(* its close of the connection it found; the release.                      *)

RaisePriority(s) ==
  /\ session[s] = "new"
  /\ session' = [session EXCEPT ![s] = "raised"]
  /\ UNCHANGED <<client, link, cooling, life, mail, stream, owner, callers, victim, fenced,
                 notices, sent, outdated>>

Interrupt(s) ==
  /\ session[s] = "raised"
  /\ session' = [session EXCEPT ![s] = "fencing"]
  /\ fence' = fence + 1
  /\ owner' = [owner EXCEPT !.cancelled = @ \/ Processing]
  /\ victim' = [victim EXCEPT ![s] = [gen |-> IF link = None THEN None ELSE link.gen,
                                      fence |-> fence + 1]]
  /\ view' = [view EXCEPT !.connected = FALSE, !.rev = @ + 1, !.cat = @ + 1]
  /\ UNCHANGED <<players, writes, link, cooling, life, mail, stream, callers, fenced,
                 notices, sent, outdated>>

InterruptCloses(s) ==
  /\ session[s] = "fencing"
  /\ session' = [session EXCEPT ![s] = "held"]
  /\ link' = IF link # None /\ link.gen = victim[s].gen THEN [link EXCEPT !.open = FALSE] ELSE link
  /\ fenced' = IF fenced < victim[s].fence THEN victim[s].fence ELSE fenced
  /\ UNCHANGED <<client, cooling, life, mail, stream, owner, callers, victim,
                 notices, sent, outdated>>

ReleasePriority(s) ==
  /\ session[s] = "held"
  /\ session' = [session EXCEPT ![s] = "released"]
  /\ UNCHANGED <<client, link, cooling, life, mail, stream, owner, callers, victim, fenced,
                 notices, sent, outdated>>
-----------------------------------------------------------------------------
(* What the owner does with the connection and the event stream.           *)

(* The write guards a frame's event makes obsolete.                        *)
Outdates(f) == IF f[2] = "player" THEN {w \in Writes : Target[w] = f[1]} ELSE Writes
Guards == {w \in Writes : guard[w] # None}

(* event: the section under the mutex; publish follows.  Progress takes no *)
(* part in revisions and is dropped when the channel is full.              *)
HandleEvent(f) ==
  /\ players' = [p \in Players |-> IF f = <<p, "player">> /\ players[p] # None
                                   THEN players[p] + 1 ELSE players[p]]
  /\ view' = [view EXCEPT !.rev = IF f[2] \in {"global", "catalog"} THEN @ + 1 ELSE @,
                          !.cat = IF f[2] = "catalog" THEN @ + 1 ELSE @]
  /\ outdated' = IF f[2] = "progress" THEN outdated ELSE outdated \cup (Outdates(f) \cap Guards)
  /\ UNCHANGED <<writes, fence>>

Published(f) == IF f[2] = "progress" THEN "progress" ELSE "event"

(* drop: close the connection, forget it, and publish a gap.               *)
Drop == /\ link' = None
        /\ view' = [view EXCEPT !.connected = FALSE, !.rev = @ + 1, !.cat = @ + 1]
        /\ outdated' = outdated \cup Guards
        /\ UNCHANGED <<players, writes, fence>>

(* Variant: a full channel loses its backlog and nothing says so.          *)
PublishOver ==
  /\ owner.publish # "nothing"
  /\ owner' = [owner EXCEPT !.publish = "nothing"]
  /\ numbered' = numbered + 1
  /\ channel' = Append(IF Len(channel) < EventBuffer THEN channel ELSE <<>>,
                       [kind |-> owner.publish, number |-> numbered'])
  /\ UNCHANGED <<client, link, cooling, life, mail, last, callers, sessions, notices, sent, outdated>>

(* publish, and event's own send of a progress sample.  A full channel is  *)
(* drained and a gap takes the place of what it held.                      *)
Publish ==
  LET room == Len(channel) < EventBuffer
      control == owner.publish # "progress"
      lost == control /\ ~room IN
  /\ owner.publish # "nothing"
  /\ owner' = [owner EXCEPT !.publish = "nothing"]
  /\ numbered' = numbered + (IF lost THEN 2 ELSE IF control THEN 1 ELSE 0)
  /\ channel' = IF room THEN Append(channel, [kind |-> owner.publish, number |-> numbered'])
                ELSE IF control THEN <<[kind |-> "gap", number |-> numbered']>> ELSE channel
  /\ view' = IF lost THEN [view EXCEPT !.rev = @ + 1, !.cat = @ + 1] ELSE view
  /\ outdated' = IF lost THEN outdated \cup Guards ELSE outdated
  /\ UNCHANGED <<players, writes, fence, link, cooling, life, mail, last, callers, sessions,
                 notices, sent>>

(* The consumer of Events: the observer's loop.                            *)
Receive ==
  /\ channel # <<>>
  /\ channel' = Tail(channel)
  /\ last' = IF Head(channel).kind = "progress" THEN last ELSE Head(channel).number
  /\ UNCHANGED <<client, link, cooling, life, mail, numbered, owner, callers, sessions,
                 notices, sent, outdated>>
-----------------------------------------------------------------------------
(* run: the priority queue first, then whatever is ready.                  *)

At(a) == owner.at = a /\ owner.publish = "nothing"

Poll ==
  /\ At("idle") /\ ~closing /\ priority = <<>>
  /\ owner' = [owner EXCEPT !.at = "select"]
  /\ UNCHANGED <<client, link, cooling, life, mail, stream, callers, sessions, notices, sent, outdated>>

(* A request already withdrawn, fenced off or blocked is answered at once. *)
Claim(r) ==
  IF phase[r] = "withdrawn" THEN
    /\ phase' = [phase EXCEPT ![r] = "done"]
    /\ owner' = Idle /\ UNCHANGED answer
  ELSE IF fenceOf[r] # fence \/ Blocked(r) THEN
    /\ Answered(r, "notsent")
    /\ owner' = Idle
  ELSE
    /\ phase' = [phase EXCEPT ![r] = "owned"]
    /\ owner' = [Idle EXCEPT !.at = "claimed", !.req = r]
    /\ UNCHANGED answer

TakePriority ==
  /\ (At("idle") /\ ~closing) \/ At("select")
  /\ priority # <<>>
  /\ Claim(Head(priority))
  /\ priority' = Tail(priority)
  /\ UNCHANGED <<client, link, cooling, life, queue, stream, guard, fenceOf, sessions,
                 notices, sent, outdated>>

TakeRequest ==
  /\ At("select")
  /\ queue # <<>>
  /\ Claim(Head(queue))
  /\ queue' = Tail(queue)
  /\ UNCHANGED <<client, link, cooling, life, priority, stream, guard, fenceOf, sessions,
                 notices, sent, outdated>>

Consumed == [link EXCEPT !.frames = Tail(@)]

(* A frame while no command is outstanding: an event, or the connection is *)
(* of no further use.                                                      *)
IdleFrame ==
  /\ At("select")
  /\ link # None /\ link.frames # <<>>
  /\ LET f == Head(link.frames) IN
     IF IsEvent(f)
     THEN /\ HandleEvent(f) /\ link' = Consumed
          /\ owner' = [Idle EXCEPT !.publish = Published(f)]
          /\ UNCHANGED cooling
     ELSE /\ Drop /\ cooling' = TRUE
          /\ owner' = [Idle EXCEPT !.publish = "gap"]
  /\ UNCHANGED <<life, mail, stream, callers, sessions, notices, sent>>

(* run returns; whoever still waits finds done closed.                     *)
Exit ==
  /\ closing /\ ~done /\ (At("idle") \/ At("select"))
  /\ done' = TRUE
  /\ owner' = [Idle EXCEPT !.at = "gone", !.publish = IF link = None THEN "nothing" ELSE "gap"]
  /\ IF link = None THEN UNCHANGED <<client, link, outdated>> ELSE Drop
  /\ UNCHANGED <<cooling, closing, mail, stream, callers, sessions, notices, sent>>
-----------------------------------------------------------------------------
(* process, for the request owner.req.                                     *)

Goto(a) == owner' = [owner EXCEPT !.at = a]
Fail(e) == owner' = [owner EXCEPT !.at = "finish", !.err = e]

(* Variant: an Interrupt between the two sections goes unnoticed.          *)
ActivateUnchecked ==
  /\ At("claimed")
  /\ owner' = [owner EXCEPT !.cancelled = @ \/ closing,
                            !.at = IF Guarded(owner.req) /\ link # None THEN "drain" ELSE "check"]
  /\ UNCHANGED <<client, link, cooling, life, mail, stream, callers, sessions, notices, sent, outdated>>

(* Client.active is set, and the fence looked at again.                    *)
Activate ==
  /\ At("claimed")
  /\ owner' = [owner EXCEPT !.cancelled = @ \/ closing \/ fenceOf[owner.req] # fence,
                            !.at = IF Guarded(owner.req) /\ link # None THEN "drain" ELSE "check"]
  /\ UNCHANGED <<client, link, cooling, life, mail, stream, callers, sessions, notices, sent, outdated>>

(* Frames that have already arrived are handled before a guarded write; a  *)
(* frame may also still be in the reader.                                  *)
Drain ==
  /\ At("drain")
  /\ link.frames # <<>>
  /\ LET f == Head(link.frames)
         n == owner.drained + 1 IN
     IF IsEvent(f)
     THEN /\ HandleEvent(f) /\ link' = Consumed
          /\ owner' = [owner EXCEPT !.publish = Published(f), !.drained = n,
                                    !.at = IF n = MaxDrain THEN "check" ELSE "drain",
                                    !.err = IF n = MaxDrain THEN "stale" ELSE @]
     ELSE /\ Drop
          /\ owner' = [owner EXCEPT !.publish = "gap", !.at = "check", !.err = "stale"]
  /\ UNCHANGED <<cooling, life, mail, stream, callers, sessions, notices, sent>>

DrainEnds ==
  /\ At("drain")
  /\ Goto("check")
  /\ UNCHANGED <<client, link, cooling, life, mail, stream, callers, sessions, notices, sent, outdated>>

(* Variant: the guard compares what all players share.                     *)
GuardHoldsGlobally(w) ==
  /\ view.connected
  /\ guard[w].gen = view.gen /\ guard[w].rev = view.rev /\ guard[w].cat = view.cat

GuardHolds(w) == view.connected /\ Token(Target[w]) = guard[w]

(* The first look at the guard, and whether to dial: a cooldown that was   *)
(* started may be over.                                                    *)
CheckGuard(late) ==
  LET stale == Guarded(owner.req) /\ (late \/ ~GuardHolds(owner.req)) IN
  /\ At("check")
  /\ IF stale \/ owner.err # "none" THEN Fail("stale")
     ELSE IF link # None THEN Goto("recheck")
     ELSE IF cooling THEN Fail("offline") \/ Goto("dial") ELSE Goto("dial")
  /\ UNCHANGED <<client, link, cooling, life, mail, stream, callers, sessions, notices, sent, outdated>>

DialFails ==
  /\ At("dial")
  /\ Fail("failed")
  /\ UNCHANGED <<client, link, cooling, life, mail, stream, callers, sessions, notices, sent, outdated>>

(* A dial may still succeed for a context that ended meanwhile.            *)
Dial ==
  /\ At("dial") /\ view.gen < MaxGeneration
  /\ link' = [gen |-> view.gen + 1, open |-> TRUE, subscribed |-> FALSE, frames |-> <<>>, due |-> FALSE]
  /\ view' = [connected |-> TRUE, gen |-> view.gen + 1, rev |-> view.rev + 1, cat |-> view.cat + 1]
  /\ outdated' = outdated \cup Guards
  /\ owner' = [owner EXCEPT !.at = "send", !.what = "register"]
  /\ UNCHANGED <<players, writes, fence, cooling, life, mail, stream, callers, sessions, notices, sent>>

(* The second look at the guard.                                           *)
RecheckGuard(late) ==
  /\ At("recheck")
  /\ IF ~Guarded(owner.req) THEN owner' = [owner EXCEPT !.at = "send", !.what = "command"]
     ELSE IF GuardHolds(owner.req) /\ ~late THEN Goto("stamp") ELSE Fail("stale")
  /\ UNCHANGED <<client, link, cooling, life, mail, stream, callers, sessions, notices, sent, outdated>>

(* A command consumes its guard before it is sent.                         *)
Stamp ==
  /\ At("stamp")
  /\ writes' = [writes EXCEPT ![Target[owner.req]] = @ + 1]
  /\ owner' = [owner EXCEPT !.at = "send", !.what = "command"]
  /\ UNCHANGED <<view, players, fence, link, cooling, life, mail, stream, callers, sessions,
                 notices, sent, outdated>>
-----------------------------------------------------------------------------
(* exchange, for the registration of a new connection or for the command.  *)

Here == <<owner.req, owner.what>>
(* A failed registration wraps every cause as not sent.                    *)
Outcome(e) == IF owner.what = "register" THEN "failed" ELSE e

LookAtContext ==
  /\ At("send")
  /\ IF owner.cancelled THEN Fail("failed") ELSE Goto("write")
  /\ UNCHANGED <<client, link, cooling, life, mail, stream, callers, sessions, notices, sent, outdated>>

WriteAll ==
  /\ At("write") /\ link.open
  /\ sent' = sent \cup {Here}
  /\ link' = [link EXCEPT !.due = TRUE]
  /\ Goto("await")
  /\ UNCHANGED <<client, cooling, life, mail, stream, callers, sessions, notices, outdated>>

(* The write fails after some bytes, or before the first one.              *)
WriteFails(partly) ==
  /\ At("write") /\ (partly => link.open)
  /\ sent' = IF partly THEN sent \cup {Here} ELSE sent
  /\ Fail(Outcome(IF partly THEN "uncertain" ELSE "failed"))
  /\ UNCHANGED <<client, link, cooling, life, mail, stream, callers, sessions, notices, outdated>>

(* Variant: a command whose context ended is reported as never sent.       *)
AwaitForgets ==
  /\ At("await") /\ owner.cancelled
  /\ Fail("failed")
  /\ UNCHANGED <<client, link, cooling, life, mail, stream, callers, sessions, notices, sent, outdated>>

AwaitCancelled ==
  /\ At("await") /\ owner.cancelled
  /\ Fail(Outcome("uncertain"))
  /\ UNCHANGED <<client, link, cooling, life, mail, stream, callers, sessions, notices, sent, outdated>>

(* A frame while the command is outstanding.  A context that ended wins    *)
(* over a reply that arrived.                                              *)
AwaitFrame ==
  LET f == Head(link.frames) IN
  /\ At("await") /\ link.frames # <<>>
  /\ \/ /\ IsEvent(f) /\ HandleEvent(f) /\ link' = Consumed
        /\ owner' = [owner EXCEPT !.publish = Published(f)]
     \/ /\ f[2] = "pending" /\ link' = Consumed /\ UNCHANGED <<client, outdated, owner>>
     \/ /\ f[2] \in {"ok", "reject"}
        /\ link' = [Consumed EXCEPT !.subscribed = @ \/ (f[2] = "ok" /\ ~owner.cancelled)]
        /\ IF owner.cancelled THEN Fail(Outcome("uncertain"))
           ELSE IF f[2] = "reject" THEN Fail(Outcome("rejected"))
           ELSE IF owner.what = "register" THEN Goto("recheck")
           ELSE Fail("none")
        /\ UNCHANGED <<client, outdated>>
     \/ /\ f[2] = "broken" /\ link' = Consumed
        /\ Fail(Outcome("uncertain")) /\ UNCHANGED <<client, outdated>>
  /\ UNCHANGED <<cooling, life, mail, stream, callers, sessions, notices, sent>>

Delivery(e) == CASE e = "none" -> "ok" [] e = "rejected" -> "rejected"
                 [] e = "uncertain" -> "uncertain"
                 [] e \in {"stale", "offline", "failed"} -> "notsent"

(* process's end: a failed connection is dropped, and the caller answered. *)
Finish ==
  LET drop == owner.err \notin {"none", "stale", "rejected"} IN
  /\ At("finish")
  /\ IF drop /\ link # None THEN Drop ELSE UNCHANGED <<client, link, outdated>>
  /\ cooling' = (cooling \/ (drop /\ owner.err # "offline"))
  /\ Answered(owner.req, Delivery(owner.err))
  /\ owner' = [Idle EXCEPT !.publish = IF drop /\ link # None THEN "gap" ELSE "nothing"]
  /\ UNCHANGED <<life, mail, stream, guard, fenceOf, sessions, notices, sent>>
-----------------------------------------------------------------------------
(* Time, the device and Close.                                             *)

(* The caller's context or CommandTimeout ends.                            *)
ContextEnds ==
  /\ owner.req # None /\ ~owner.cancelled
  /\ owner' = [owner EXCEPT !.cancelled = TRUE]
  /\ UNCHANGED <<client, link, cooling, life, mail, stream, callers, sessions, notices, sent, outdated>>

DeviceSends(f) ==
  /\ link # None /\ link.open /\ notices < MaxNotices
  /\ link' = [link EXCEPT !.frames = Append(@, f)]
  /\ notices' = notices + 1
  /\ UNCHANGED <<client, cooling, life, mail, stream, owner, callers, sessions, sent, outdated>>

DeviceReplies(f) ==
  /\ link # None /\ link.due
  /\ link' = [link EXCEPT !.frames = Append(@, f), !.due = FALSE]
  /\ UNCHANGED <<client, cooling, life, mail, stream, owner, callers, sessions, notices, sent, outdated>>

(* The connection breaks, or the reader meets the socket Interrupt closed. *)
LinkBreaks ==
  /\ link # None /\ \A i \in DOMAIN link.frames : link.frames[i] # Broken
  /\ link' = [link EXCEPT !.frames = Append(@, Broken), !.open = FALSE, !.due = FALSE]
  /\ UNCHANGED <<client, cooling, life, mail, stream, owner, callers, sessions, notices, sent, outdated>>

Close ==
  /\ MayClose /\ ~closing /\ closing' = TRUE
  /\ owner' = [owner EXCEPT !.cancelled = @ \/ Processing]
  /\ UNCHANGED <<client, link, cooling, done, mail, stream, callers, sessions, notices, sent, outdated>>
-----------------------------------------------------------------------------
Owner == \/ Poll \/ TakePriority \/ TakeRequest \/ IdleFrame \/ Exit \/ Activate
         \/ Drain \/ DrainEnds \/ Dial \/ DialFails \/ Stamp
         \/ (\E late \in BOOLEAN : CheckGuard(late) \/ RecheckGuard(late))
         \/ LookAtContext \/ WriteAll \/ (\E b \in BOOLEAN : WriteFails(b))
         \/ AwaitCancelled \/ AwaitFrame \/ Finish \/ Publish

Callers == \/ \E r \in Requests : ObservePlayer(r) \/ (\E late \in BOOLEAN : Submit(r, late)) \/ Enqueue(r) \/ Withdraw(r)
           \/ \E s \in Sessions : \/ RaisePriority(s) \/ Interrupt(s)
                                  \/ InterruptCloses(s) \/ ReleasePriority(s)

World == \/ Receive \/ ContextEnds \/ LinkBreaks \/ Close
         \/ \E f \in Notices : DeviceSends(f)
         \/ \E f \in Replies : DeviceReplies(f)

Next == Owner \/ Callers \/ World

Spec == Init /\ [][Next]_vars

(* The owner goroutine runs, a caller in submit goes on to the queue, a    *)
(* caller finds done closed, CommandTimeout ends every exchange.           *)
FairSpec == /\ Spec /\ WF_vars(Owner)
            /\ \A r \in Requests : WF_vars(Enqueue(r)) /\ WF_vars(done /\ Withdraw(r))
            /\ WF_vars(owner.at = "await" /\ ContextEnds)
-----------------------------------------------------------------------------
(* Properties.                                                             *)

(* A caller told NotSent may repeat the command: no byte of it was written *)
(* (submit, exchange and process classify every failure).                  *)
DeliveryHonest ==
  \A r \in Requests : answer[r] = "notsent" => <<r, "command">> \notin sent

(* A guard authorizes one command: two writes checked against one snapshot *)
(* are never both sent, whatever was evicted or reconnected between them.  *)
GuardSpent ==
  \A v, w \in Writes :
    /\ v # w /\ Target[v] = Target[w]
    /\ {<<v, "command">>, <<w, "command">>} \subseteq sent
    => guard[v] # guard[w]

(* No guarded command goes out after an event, a gap or a reconnect that   *)
(* its snapshot has not seen, and no outdated token becomes current again: *)
(* tokens only advance, also when the full map of players is cleared.      *)
Later(b, a) == \/ b.rev > a.rev
               \/ /\ b.rev = a.rev /\ b.gen = a.gen /\ b.cat = a.cat
                  /\ b.player >= a.player /\ b.write >= a.write
GuardFresh ==
  [][/\ \A w \in Writes : <<w, "command">> \in sent' \ sent => w \notin outdated
     /\ \A p \in Players : Later(Token(p)', Token(p))]_vars

(* Once Interrupt has returned, nothing submitted before it is written,    *)
(* not even the registration of a connection that was being dialled; and   *)
(* while a caller holds the priority path only priority requests are.      *)
FenceHolds ==
  [][\A r \in Requests, what \in {"register", "command"} :
       <<r, what>> \in sent' \ sent =>
         /\ fenceOf[r] >= fenced
         /\ (\E s \in Sessions : session[s] = "held") => r \in Urgent]_vars

(* The consumer of Events receives every control event in order, or a gap  *)
(* in place of the ones it lost: publish never skips silently.             *)
NoSilentSkip ==
  [][last' # last => \/ last' = last + 1
                     \/ Head(channel).kind = "gap" /\ last' > last]_vars

(* submit always returns: the owner answers, or the client closes.         *)
RequestAnswered ==
  \A r \in Requests : phase[r] \in {"submitting", "queued", "owned"} ~> answer[r] # None
=============================================================================
