------------------------------- MODULE Journal -------------------------------
(***************************************************************************)
(* The durable operation journal (internal/journal): admission with        *)
(* idempotency records, one reservation per device, optimistic transitions *)
(* of operation rows, recovery of a previous epoch's work and pruning.     *)
(*                                                                         *)
(* A process that opens the journal is named by the random epoch it        *)
(* generated.  Every mutation runs under the control row's FOR UPDATE      *)
(* lock, so one transaction is one step, except for an admission whose     *)
(* COMMIT the server still has when the client has given up on it: tx is   *)
(* that transaction, it keeps the lock, and the server decides later.      *)
(* A call that returns an error rolls back and is a stuttering step.       *)
(***************************************************************************)
EXTENDS Integers, FiniteSets

CONSTANTS Epochs,         \* epochs processes draw, one per process start
          NoEpoch,        \* the control row's epoch before any process: ''
          Calls,          \* Admit calls that can wait for a lost COMMIT
          Keys,           \* (principal, method, endpoint, idempotency key)
          Hashes,         \* request fingerprints
          Devices,        \* device keys (one configured player each)
          OpIds,          \* operation ids; a random id is never drawn twice
          None,           \* SQL NULL, no row, no call
          Principal,      \* Keys -> the principal of the key
          Player,         \* Hashes -> the device the request addresses
          Kinds,          \* kinds requested; "other" is alarm, volume, mute,
                          \* transport or stop, which the journal treats alike
          Updates,        \* states workers ask Transition for
          MaxOperations, MaxBatch, Retention,
          Horizon,        \* bound: the wall clock reads 0..Horizon
          MaxRevision     \* bound: no further update that keeps a row open

ASSUME BatchAssumption == MaxBatch \in Nat \ {0}
ASSUME RetentionAssumption == Retention \in Nat
ASSUME BoundAssumption == Horizon \in Nat /\ MaxRevision \in Nat /\ MaxOperations \in Nat
ASSUME NoneAssumption == None \notin OpIds /\ None \notin Int /\ NoEpoch \notin Epochs
                         /\ None \notin Epochs \cup {NoEpoch}
ASSUME RequestAssumption == Player \in [Hashes -> Devices] /\ DOMAIN Principal = Keys

VARIABLES control,      \* the control row: epoch and ready
          ops,          \* operations table
          idem,         \* idempotency_records table
          resv,         \* device_reservations table: device -> operation
          tx,           \* an admission whose COMMIT is outstanding
          proc,         \* epoch -> "new", "up" or "dead"
          initialized,  \* Store.initialized
          previous,     \* Store.previousEpoch
          call,         \* Admit calls resolving a failed COMMIT
          now,          \* the wall clock
          issued,       \* ids drawn so far
          granted,      \* how often Created = true was returned for an id
          abandoned,    \* ids whose resolution itself failed or lost its caller
          past          \* epochs the control row has left behind

db == <<control, ops, idem, resv>>
stores == <<proc, initialized, previous>>
history == <<issued, granted, abandoned, past>>
vars == <<control, ops, idem, resv, tx, proc, initialized, previous, call, now,
          issued, granted, abandoned, past>>
-----------------------------------------------------------------------------
Times == 0 .. Horizon
Terminal == {"succeeded", "failed", "cancelled", "released", "interrupted", "uncertain"}
States == {"accepted", "running"} \cup Terminal

ASSUME UpdateAssumption == Updates \subseteq States \ {"accepted"}
ASSUME KindAssumption == Kinds \subseteq {"playback", "skip", "cancel", "other"}

(* hold is bookkeeping of the model: how the row relates to its device's   *)
(* reservation ("own" took it, "child" never does, "handed" gave it up).   *)
Operation == [kind : Kinds, device : Devices, key : Keys, epoch : Epochs,
              state : States, revision : Nat, finished : Int \cup {None},
              album : BOOLEAN, hold : {"own", "child", "handed"}]
Record == [hash : Hashes, op : OpIds, expires : Int]
Proposal == [epoch : Epochs, key : Keys, hash : Hashes, kind : Kinds, id : OpIds,
             owner : OpIds \cup {None}, replace : OpIds \cup {None},
             unsure : BOOLEAN, at : Int]

Claim == [epoch : Epochs, key : Keys, hash : Hashes, id : OpIds]
ASSUME RowAssumption == None \notin Operation \cup Record \cup Proposal \cup Claim

Stored == {i \in OpIds : ops[i] # None}
Unfinished(i) == ops[i] # None /\ ops[i].finished = None
(* Variant: a mutation that does not wait for the control row's lock.      *)
UnlockedActive(e) == /\ proc[e] = "up"
                     /\ initialized[e] /\ control.ready /\ control.epoch = e

(* Store.active: the guard of every mutation but recovery.                 *)
Active(e) == /\ proc[e] = "up" /\ tx = None
             /\ initialized[e] /\ control.ready /\ control.epoch = e
(* A statement with LIMIT n: all of S, or n of it.                         *)
Limited(B, S, n) == /\ B \subseteq S /\ Cardinality(B) =< n
                    /\ B = S \/ Cardinality(B) = n

Init ==
  /\ control = [epoch |-> NoEpoch, ready |-> FALSE]
  /\ ops = [i \in OpIds |-> None]
  /\ idem = [k \in Keys |-> None]
  /\ resv = [d \in Devices |-> None]
  /\ tx = None
  /\ proc = [e \in Epochs |-> "new"]
  /\ initialized = [e \in Epochs |-> FALSE]
  /\ previous = [e \in Epochs |-> None]
  /\ call = [c \in Calls |-> None]
  /\ now \in Times
  /\ issued = {} /\ abandoned = {} /\ past = {}
  /\ granted = [i \in OpIds |-> 0]
-----------------------------------------------------------------------------
(* Admission.                                                              *)

(* A child skip names the playback that holds the device.                  *)
OwnerMatches(p) ==
  /\ p.kind = "skip" /\ p.replace = None
  /\ p.owner = resv[Player[p.hash]] /\ Unfinished(p.owner)
  /\ ops[p.owner].epoch = p.epoch /\ ops[p.owner].kind = "playback"
  /\ Principal[ops[p.owner].key] = Principal[p.key]

(* Variant: any unfinished operation can be handed off.                    *)
ReplaceUnfinished(p) == Unfinished(p.replace) /\ ops[p.replace].epoch = p.epoch

(* A handoff names the operation that still holds the device; of the       *)
(* revisions a caller may pass only the present one succeeds.              *)
ReplaceMatches(p) ==
  /\ p.replace = resv[Player[p.hash]] /\ Unfinished(p.replace)
  /\ ops[p.replace].epoch = p.epoch

(* A child needs no reservation; any other admission needs the device's,   *)
(* free or handed off (the primary key refuses a second one: ErrBusy).     *)
Entitled(p) ==
  \/ p.owner # None /\ OwnerMatches(p)
  \/ p.owner = None /\ p.replace # None /\ ReplaceMatches(p)
  \/ p.owner = None /\ p.replace = None /\ resv[Player[p.hash]] = None

(* The order of the checks only selects the error; the admission window    *)
(* and the argument checks only refuse, so they leave no trace here.       *)
Admissible(p) ==
  /\ idem[p.key] = None
  /\ Active(p.epoch)
  /\ Cardinality(Stored) < MaxOperations
  /\ Entitled(p)

(* handoffUpdate followed by TransitionOperation.                          *)
HandedOff(o, p) ==
  [o EXCEPT !.state = IF p.kind = "cancel" THEN "running"
                      ELSE IF p.unsure THEN "uncertain" ELSE "released",
            !.finished = IF p.kind = "cancel" THEN None ELSE p.at,
            !.revision = @ + 1, !.hold = "handed"]

(* Variant: a finished operation's record keeps its first expiry.          *)
KeepExpiry(r, ids, at) == r

(* ExtendRetention keeps a finished operation's record a full retention.   *)
ExtendRetention(r, ids, at) ==
  IF r # None /\ r.op \in ids /\ r.expires < at + Retention
  THEN [r EXCEPT !.expires = at + Retention] ELSE r

InsertOperation(p) ==
  [kind |-> p.kind, device |-> Player[p.hash], key |-> p.key, epoch |-> p.epoch,
   state |-> "accepted", revision |-> 1, finished |-> None, album |-> FALSE,
   hold |-> IF p.owner = None THEN "own" ELSE "child"]

(* What the admission transaction leaves in the database.                  *)
Insert(p) ==
  /\ ops' = [i \in OpIds |-> IF i = p.id THEN InsertOperation(p)
                             ELSE IF i = p.replace THEN HandedOff(ops[i], p) ELSE ops[i]]
  /\ idem' = [k \in Keys |->
                IF k = p.key
                THEN [hash |-> p.hash, op |-> p.id, expires |-> p.at + Retention]
                ELSE ExtendRetention(idem[k], {p.replace}, p.at)]
  /\ resv' = [resv EXCEPT ![Player[p.hash]] = IF p.owner = None THEN p.id ELSE @]
  /\ UNCHANGED control

(* The caller read the operation to own or to replace at any earlier time: *)
(* it may have finished, been handed off, or be another device's.          *)
Propose(e, k, h) ==
  {p \in [epoch : {e}, key : {k}, hash : {h}, kind : Kinds, id : OpIds \ issued,
          owner : {None} \cup OpIds, replace : {None} \cup OpIds,
          unsure : BOOLEAN, at : {now}] :
     /\ p.replace = None => ~p.unsure
     /\ Admissible(p)}

(* COMMIT succeeds and the caller hears of it: Created is true.            *)
Admit(e, k, h) ==
  \E p \in Propose(e, k, h) :
    /\ Insert(p)
    /\ issued' = issued \cup {p.id}
    /\ granted' = [granted EXCEPT ![p.id] = @ + 1]
    /\ UNCHANGED <<tx, stores, call, now, abandoned, past>>

(* COMMIT fails for the caller while the server still has it.              *)
AdmitCommitLost(c, e, k, h) ==
  /\ call[c] = None
  /\ \E p \in Propose(e, k, h) :
       /\ tx' = p
       /\ call' = [call EXCEPT ![c] = [epoch |-> e, key |-> k, hash |-> h, id |-> p.id]]
       /\ issued' = issued \cup {p.id}
  /\ UNCHANGED <<db, stores, now, granted, abandoned, past>>

ServerCommits ==
  /\ tx # None
  /\ Insert(tx)
  /\ tx' = None
  /\ UNCHANGED <<stores, call, now, history>>

ServerAborts ==
  /\ tx # None
  /\ tx' = None
  /\ UNCHANGED <<db, stores, call, now, history>>

(* Variant: the lookup reads without FOR SHARE.                            *)
LookupSnapshot(c) == TRUE

(* lookupCommitted: FOR SHARE waits until no COMMIT is outstanding.        *)
LookupCommitted(c) == tx = None

(* Variant: whatever the key now names is taken for this call's own.       *)
RecoveredAny(c) ==
  LET r == idem[call[c].key] IN
  /\ control.epoch = call[c].epoch /\ control.ready
  /\ r # None /\ r.hash = call[c].hash
  /\ ops[r.op].epoch = call[c].epoch /\ ops[r.op].state = "accepted"

(* The call may dispatch what it finds only if that is its own operation   *)
(* and still its to start.                                                 *)
RecoveredCommit(c) ==
  LET r == idem[call[c].key] IN
  /\ control.epoch = call[c].epoch /\ control.ready
  /\ r # None /\ r.hash = call[c].hash /\ r.op = call[c].id
  /\ ops[r.op].epoch = call[c].epoch
  /\ ops[r.op].state = "accepted"

AdmitResolve(c) ==
  /\ call[c] # None
  /\ LookupCommitted(c)
  /\ granted' = IF RecoveredCommit(c)
                THEN [granted EXCEPT ![idem[call[c].key].op] = @ + 1] ELSE granted
  /\ call' = [call EXCEPT ![c] = None]
  /\ UNCHANGED <<db, tx, stores, now, issued, abandoned, past>>

(* The lookup fails or times out waiting for the lock: ErrCommitUncertain. *)
AdmitUnresolved(c) ==
  /\ call[c] # None
  /\ abandoned' = abandoned \cup {call[c].id}
  /\ call' = [call EXCEPT ![c] = None]
  /\ UNCHANGED <<db, tx, stores, now, issued, granted, past>>
-----------------------------------------------------------------------------
(* Mutations of an admitted operation.  A lost COMMIT acknowledgement here *)
(* is this step or none: nothing else learns which.                        *)

(* The UPDATE's WHERE clause; the caller's revision is the row's.          *)
Updatable(e, i) == Unfinished(i) /\ ops[i].epoch = e

(* Variant: the reservation of a finished operation stays.                 *)
FinishRecords(ids, at) ==
  /\ UNCHANGED resv
  /\ idem' = [k \in Keys |-> ExtendRetention(idem[k], ids, at)]

(* finish: release the reservation, extend the record's retention.         *)
Finish(ids, at) ==
  /\ resv' = [d \in Devices |-> IF resv[d] \in ids THEN None ELSE resv[d]]
  /\ idem' = [k \in Keys |-> ExtendRetention(idem[k], ids, at)]

(* TransitionOperation's SET clause; finished_at is set by a terminal one. *)
Moved(o, s, at) ==
  [o EXCEPT !.state = s, !.finished = IF s \in Terminal THEN at ELSE None, !.revision = @ + 1]

Transition(e, i, s) ==
  /\ Active(e) /\ Updatable(e, i)
  /\ s \in Terminal \/ ops[i].revision < MaxRevision
  /\ ops' = [ops EXCEPT ![i] = Moved(@, s, now)]
  /\ Finish(IF s \in Terminal THEN {i} ELSE {}, now)
  /\ UNCHANGED <<control, tx, stores, call, now, history>>

Chosen(o) == [o EXCEPT !.album = TRUE, !.revision = @ + 1]

SelectAlbum(e, i) ==
  /\ Active(e) /\ Updatable(e, i) /\ ~ops[i].album /\ ops[i].revision < MaxRevision
  /\ ops' = [ops EXCEPT ![i] = Chosen(@)]
  /\ UNCHANGED <<control, idem, resv, tx, stores, call, now, history>>

Prunable == {i \in Stored : /\ ops[i].finished # None
                            /\ ops[i].finished =< now - Retention
                            /\ \A k \in Keys : idem[k] # None /\ idem[k].op = i
                                                 => idem[k].expires =< now
                            /\ \A d \in Devices : resv[d] # i}

Prune(e, limit) ==
  /\ Active(e)
  /\ \E B \in SUBSET Prunable :
       /\ B # {} /\ Limited(B, Prunable, limit)
       /\ ops' = [i \in OpIds |-> IF i \in B THEN None ELSE ops[i]]
       /\ idem' = [k \in Keys |-> IF idem[k] # None /\ idem[k].op \in B THEN None ELSE idem[k]]
  /\ UNCHANGED <<control, resv, tx, stores, call, now, history>>
-----------------------------------------------------------------------------
(* Recovery: one batch per transaction, retried by maintainJournal.        *)

Interruptible(e) == {i \in OpIds : Unfinished(i) /\ ops[i].epoch # e}
PreviousEpoch(e) == IF previous[e] = None THEN control.epoch ELSE previous[e]

(* Variant: whatever epoch holds the journal is taken over.                *)
MayTakeOver(e) == proc[e] = "up" /\ ~initialized[e] /\ tx = None

MayRecover(e) == /\ proc[e] = "up" /\ ~initialized[e] /\ tx = None
                 /\ control.epoch \in {PreviousEpoch(e), e}

(* Variant: a full batch is taken for the last one.                        *)
InterruptLast(e, B) ==
  /\ ops' = [i \in OpIds |-> IF i \in B THEN Moved(ops[i], "uncertain", now) ELSE ops[i]]
  /\ Finish(B, now)
  /\ control' = [epoch |-> e, ready |-> Cardinality(B) =< MaxBatch]
  /\ past' = past \cup ({control.epoch} \ {e})

(* InterruptBatch, finish and SetJournalEpoch.                             *)
Interrupt(e, B) ==
  /\ ops' = [i \in OpIds |-> IF i \in B THEN Moved(ops[i], "uncertain", now) ELSE ops[i]]
  /\ Finish(B, now)
  /\ control' = [epoch |-> e, ready |-> Cardinality(B) < MaxBatch]
  /\ past' = past \cup ({control.epoch} \ {e})

(* The batch commits; after a short batch the store is initialized, unless *)
(* the acknowledgement was lost and Recover is called again.               *)
RecoverBatch(e, acknowledged) ==
  /\ MayRecover(e)
  /\ \E B \in SUBSET Interruptible(e) :
       /\ Limited(B, Interruptible(e), MaxBatch)
       /\ Interrupt(e, B)
       /\ initialized' = [initialized EXCEPT ![e] = acknowledged /\ Cardinality(B) < MaxBatch]
  /\ previous' = [previous EXCEPT ![e] = PreviousEpoch(e)]
  /\ UNCHANGED <<tx, proc, call, now, issued, granted, abandoned>>

(* The batch rolls back, but previousEpoch was captured.                   *)
RecoverAborts(e) ==
  /\ MayRecover(e) /\ previous[e] = None
  /\ previous' = [previous EXCEPT ![e] = PreviousEpoch(e)]
  /\ UNCHANGED <<db, tx, proc, initialized, call, now, history>>
-----------------------------------------------------------------------------
Open(e) ==
  /\ proc[e] = "new"
  /\ proc' = [proc EXCEPT ![e] = "up"]
  /\ UNCHANGED <<db, tx, initialized, previous, call, now, history>>

(* A crash loses the process's calls, not the COMMIT the server has.       *)
Crash(e) ==
  LET lost == {c \in Calls : call[c] # None /\ call[c].epoch = e} IN
  /\ proc[e] = "up"
  /\ proc' = [proc EXCEPT ![e] = "dead"]
  /\ call' = [c \in Calls |-> IF c \in lost THEN None ELSE call[c]]
  /\ abandoned' = abandoned \cup {call[c].id : c \in lost}
  /\ UNCHANGED <<db, tx, initialized, previous, now, issued, granted, past>>

(* The wall clock may also be set back.                                    *)
Tick ==
  /\ now' \in {now - 1, now + 1} \cap Times
  /\ UNCHANGED <<db, tx, stores, call, history>>

Next ==
  \/ \E e \in Epochs :
       \/ Open(e) \/ Crash(e)
       \/ \E a \in BOOLEAN : RecoverBatch(e, a)
       \/ RecoverAborts(e)
       \/ \E limit \in 1 .. MaxBatch : Prune(e, limit)
       \/ \E i \in OpIds : SelectAlbum(e, i) \/ \E s \in Updates : Transition(e, i, s)
       \/ \E k \in Keys, h \in Hashes :
            Admit(e, k, h) \/ \E c \in Calls : AdmitCommitLost(c, e, k, h)
  \/ ServerCommits \/ ServerAborts
  \/ \E c \in Calls : AdmitResolve(c) \/ AdmitUnresolved(c)
  \/ Tick

Spec == Init /\ [][Next]_vars
-----------------------------------------------------------------------------
(* Properties.                                                             *)

(* Every row, call and record has the shape its table declares.            *)
TypeOK ==
  /\ control \in [epoch : Epochs \cup {NoEpoch}, ready : BOOLEAN]
  /\ ops \in [OpIds -> Operation \cup {None}]
  /\ idem \in [Keys -> Record \cup {None}]
  /\ resv \in [Devices -> OpIds \cup {None}]
  /\ tx \in Proposal \cup {None}
  /\ proc \in [Epochs -> {"new", "up", "dead"}]
  /\ initialized \in [Epochs -> BOOLEAN]
  /\ previous \in [Epochs -> Epochs \cup {NoEpoch, None}]
  /\ call \in [Calls -> Claim \cup {None}]
  /\ now \in Times
  /\ issued \subseteq OpIds /\ abandoned \subseteq OpIds
  /\ granted \in [OpIds -> Nat]
  /\ past \subseteq Epochs \cup {NoEpoch}

(* A reservation exists exactly for an unfinished operation that took it   *)
(* for its device, through handoffs, child skips, recovery batches and     *)
(* COMMITs that land late: Update's "Terminal states are immutable and     *)
(* release the reservation atomically", and its converse.                  *)
ReservationExact ==
  \A d \in Devices, i \in OpIds :
    resv[d] = i <=> Unfinished(i) /\ ops[i].device = d /\ ops[i].hold = "own"

(* An operation is started at most once, whichever of Admit's COMMIT, its  *)
(* resolution and a client's retry of the same key wins: Admission.Created *)
(* "Only that call may dispatch it, once".                                 *)
DispatchedOnce == \A i \in OpIds : granted[i] =< 1

(* Every stored operation is found under the key that created it and no    *)
(* other, so a retry is a replay for as long as the operation is kept.     *)
Replayable ==
  \A i \in OpIds : ops[i] # None =>
    \A k \in Keys : (idem[k] # None /\ idem[k].op = i) <=> k = ops[i].key

(* A finished operation stays replayable for Retention after it finished,  *)
(* however old its record was by then (ExtendRetention).                   *)
RetentionCovers ==
  \A k \in Keys : idem[k] # None /\ ops[idem[k].op].finished # None
                    => idem[k].expires >= ops[idem[k].op].finished + Retention

(* An epoch becomes ready only when every unfinished operation is its own; *)
(* recoverBatch must not stop at a full last batch.                        *)
ReadyMeansRecovered ==
  control.ready => \A i \in OpIds : Unfinished(i) => ops[i].epoch = control.epoch

(* An accepted operation of the ready epoch has been started, is being     *)
(* resolved, or its caller was told the outcome is uncertain: a lookup     *)
(* that answers "not found" is never overtaken by its own COMMIT.          *)
NoOrphanedAdmission ==
  \A i \in OpIds :
    Unfinished(i) /\ ops[i].state = "accepted" /\ control.ready
      => \/ granted[i] = 1
         \/ i \in abandoned
         \/ \E c \in Calls : call[c] # None /\ call[c].id = i

(* A finished row never changes again; it can only be pruned.              *)
TerminalImmutable ==
  [][\A i \in OpIds : ops[i] # None /\ ops[i].finished # None
                         => ops'[i] \in {ops[i], None}]_vars

(* A call is told to start an operation only while that operation is       *)
(* accepted under the epoch that holds the journal: a late resolution does *)
(* not start what a handoff or a recovery has already taken away.          *)
DispatchIsCurrent ==
  [][\A i \in OpIds : granted'[i] # granted[i]
       => /\ Unfinished(i)' /\ ops'[i].state = "accepted"
          /\ ops'[i].epoch = control'.epoch /\ control'.ready]_vars

(* The journal never returns to an epoch it has left, so a superseded      *)
(* process that retries Recover stays fenced.                              *)
EpochNeverReturns == [][control'.epoch \notin past]_vars
=============================================================================
