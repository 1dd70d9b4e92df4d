----------------------------- MODULE Coordinator -----------------------------
(***************************************************************************)
(* One device's lane of the coordinator (internal/control): concurrent     *)
(* Submit calls, the gates that order them, the handoff from one operation *)
(* to the next, the worker of each admitted operation, the journal-only    *)
(* finalizers, and Close.                                                  *)
(*                                                                         *)
(* A Submit call admits at most one operation, so the operation is named   *)
(* by its call.  The steps of a call are the stretches between the places  *)
(* where it can wait or be overtaken: the gates, journal calls, the wait   *)
(* for a revoked worker, device reads and the lifecycle mutex.             *)
(*                                                                         *)
(* The journal is the one of module Journal seen from one process whose    *)
(* epoch stays current: rows, revisions, the device's reservation, and     *)
(* calls that can fail.  Device writes are reduced to how they end; module *)
(* Transport has their transmission.  A skip handed to a buffered          *)
(* playback's worker (submitBufferedSkip) is not part of this module.      *)
(***************************************************************************)
EXTENDS Naturals, FiniteSets

CONSTANTS Calls,        \* Submit calls, and the operations they admit
          None,
          Command,      \* Calls -> kind, takeover, expected owner, target, mode
          Key,          \* Calls -> idempotency key; a retry shares its key
          Impatient,    \* calls whose client may disconnect
          Failing,      \* journal calls that may fail
          MayStop,      \* whether the service may be told to stop
          MaxWrites     \* bound: device writes of one operation

Failures == {"lookup", "active", "get", "admit", "commit", "transition"}
Kinds == {"control", "stop", "cancel"}
Commands == [kind : Kinds, takeover : BOOLEAN, expected : Calls \cup {None},
             target : Calls \cup {None}, mode : {"release", "stop_owned", "none"}]

ASSUME CommandAssumption ==
  /\ Command \in [Calls -> Commands] /\ None \notin Calls
  /\ \A s \in Calls : Command[s].kind = "cancel" => Command[s].target \in Calls
ASSUME FailureAssumption == Failing \subseteq Failures /\ Impatient \subseteq Calls
ASSUME BoundAssumption == MaxWrites \in Nat \ {0} /\ MayStop \in BOOLEAN

VARIABLES
  \* the lane
  gate, priorityGate,   \* channels of capacity one: the holder, or None
  raised,               \* calls counted in lane.priority
  admitting,            \* the call whose context lane.admitting cancels
  run,                  \* lane.run: the operation events are shown to
  \* the coordinator
  lifecycle,            \* holder of the lifecycle mutex
  closing, closed,      \* Close has begun; wg.Wait has returned
  stopping,             \* the application's context has ended
  finals,               \* finishOrphan goroutines, by operation
  \* Submit calls
  pc, live,             \* where each call is; its context has not ended
  old, oldRevision,     \* the operation to replace, as last read
  previous,             \* the execution found on the lane
  \* executions
  worker, cause,        \* where each worker is; why its context ended
  doubt,                \* its uncertain and unconfirmed flags
  confirmed, fault,     \* confirmed writes; the class of its error
  revision, final,      \* r.op.Revision; the state it will record
  \* the journal
  row, holder,          \* operation rows; the device's reservation
  unknown               \* operations whose admission was never confirmed

lane == <<gate, priorityGate, raised, admitting, run>>
service == <<lifecycle, closing, closed, stopping>>
calls == <<pc, live, old, oldRevision, previous>>
executions == <<worker, cause, doubt, confirmed, fault, revision, final>>
journal == <<row, holder, unknown>>
vars == <<gate, priorityGate, raised, admitting, run, lifecycle, closing, closed,
          stopping, finals, pc, live, old, oldRevision, previous, worker, cause, doubt,
          confirmed, fault, revision, final, row, holder, unknown>>
-----------------------------------------------------------------------------
Terminal == {"succeeded", "failed", "cancelled", "released", "interrupted", "uncertain"}
Row == [state : {"accepted", "running"} \cup Terminal, cancelling : BOOLEAN, revision : Nat]
ASSUME NoneAssumption == None \notin Row

Open(i) == row[i] # None /\ row[i].state \notin Terminal
Priority(s) == Command[s].kind \in {"stop", "cancel"}
Takeover(s) == Command[s].takeover
Releases(s) == Command[s].kind = "cancel" /\ Command[s].mode = "release"
Fails(what) == what \in Failing

(* context.Cause of an execution: the first cause to reach it stays.       *)
Cause(i) == IF cause[i] = "none" /\ stopping THEN "stopping" ELSE cause[i]
Cancelled(i, why) == [cause EXCEPT ![i] = IF Cause(i) = "none" THEN why ELSE Cause(i)]

(* Store.Lookup of a call's idempotency key.                               *)
Found(s) == \E i \in Calls : row[i] # None /\ Key[i] = Key[s]

Init ==
  /\ gate = None /\ priorityGate = None /\ raised = {} /\ admitting = None /\ run = None
  /\ lifecycle = None /\ closing = FALSE /\ closed = FALSE /\ stopping = FALSE
  /\ finals = {} /\ unknown = {} /\ holder = None
  /\ pc = [s \in Calls |-> "new"]
  /\ live = [s \in Calls |-> TRUE]
  /\ old = [s \in Calls |-> None]
  /\ oldRevision = [s \in Calls |-> 0]
  /\ previous = [s \in Calls |-> None]
  /\ worker = [i \in Calls |-> "none"]
  /\ cause = [i \in Calls |-> "none"]
  /\ doubt = [i \in Calls |-> {}]
  /\ confirmed = [i \in Calls |-> 0]
  /\ fault = [i \in Calls |-> "none"]
  /\ revision = [i \in Calls |-> 0]
  /\ final = [i \in Calls |-> None]
  /\ row = [i \in Calls |-> None]
-----------------------------------------------------------------------------
(* Submit: the first Lookup, then the gates.                               *)

At(s, where) == pc' = [pc EXCEPT ![s] = where]

(* A cancellation is submitted for a target the API has read.              *)
Lookup(s) ==
  /\ pc[s] = "new"
  /\ (Command[s].kind = "cancel") => (row[Command[s].target] # None)
  /\ \/ ~Found(s) /\ At(s, "gates")
     \/ Found(s) /\ At(s, "returned")
     \/ Fails("lookup") /\ At(s, "returned")
  /\ UNCHANGED <<lane, service, finals, live, old, oldRevision, previous, executions, journal>>

(* Variant: raising priority leaves the admission under way alone.         *)
EnterBeside(s) ==
  /\ pc[s] = "gates" /\ Priority(s) /\ priorityGate = None
  /\ priorityGate' = s /\ raised' = raised \cup {s} /\ At(s, "waiting")
  /\ UNCHANGED <<gate, admitting, run, service, finals, live, old, oldRevision, previous,
                 executions, journal>>

(* A priority call is refused when another one is being admitted;          *)
(* otherwise it raises lane.priority and ends the admission in progress.   *)
EnterPriority(s) ==
  /\ pc[s] = "gates" /\ Priority(s)
  /\ \/ priorityGate # None /\ At(s, "returned") /\ UNCHANGED <<priorityGate, raised, live>>
     \/ /\ priorityGate = None /\ priorityGate' = s
        /\ raised' = raised \cup {s}
        /\ live' = [t \in Calls |-> live[t] /\ t # admitting]
        /\ At(s, "waiting")
  /\ UNCHANGED <<gate, admitting, run, service, finals, old, oldRevision, previous,
                 executions, journal>>

WaitGate(s) ==
  /\ pc[s] = "waiting"
  /\ \/ gate = None /\ gate' = s /\ At(s, "inside")
     \/ ~live[s] /\ At(s, "leave") /\ UNCHANGED gate
  /\ UNCHANGED <<priorityGate, raised, admitting, run, service, finals, live, old,
                 oldRevision, previous, executions, journal>>

(* An ordinary call never waits for the gate, and only an explicit         *)
(* takeover proceeds while a priority call or its worker is about.         *)
EnterOrdinary(s) ==
  /\ pc[s] = "gates" /\ ~Priority(s)
  /\ \/ /\ gate # None \/ (raised # {} /\ ~Takeover(s))
        /\ At(s, "returned") /\ UNCHANGED <<gate, admitting>>
     \/ /\ gate = None /\ (raised = {} \/ Takeover(s))
        /\ gate' = s /\ admitting' = s /\ At(s, "inside")
  /\ UNCHANGED <<priorityGate, raised, run, service, finals, live, old, oldRevision,
                 previous, executions, journal>>

(* Variant: a return path that keeps the gate.                             *)
LeaveHolding(s) ==
  /\ pc[s] = "leave" /\ At(s, "returned")
  /\ raised' = IF worker[s] = "none" THEN raised \ {s} ELSE raised
  /\ UNCHANGED <<gate, priorityGate, admitting, run, service, finals, live, old, oldRevision,
                 previous, executions, journal>>

(* The deferred unlocks.  A call that started a worker has handed it the   *)
(* release of lane.priority.  Its locals are gone with it.                 *)
Leave(s) ==
  /\ pc[s] = "leave" /\ At(s, "returned")
  /\ gate' = IF gate = s THEN None ELSE gate
  /\ priorityGate' = IF priorityGate = s THEN None ELSE priorityGate
  /\ admitting' = IF admitting = s THEN None ELSE admitting
  /\ raised' = IF worker[s] = "none" THEN raised \ {s} ELSE raised
  /\ old' = [old EXCEPT ![s] = None] /\ previous' = [previous EXCEPT ![s] = None]
  /\ oldRevision' = [oldRevision EXCEPT ![s] = 0] /\ live' = [live EXCEPT ![s] = FALSE]
  /\ UNCHANGED <<run, service, finals, executions, journal>>

(* The second Lookup, the service's context, and the checks of arguments,  *)
(* If-Match, safety and media, which can refuse an ordinary call.          *)
Validate(s) ==
  /\ pc[s] = "inside"
  /\ \/ ~Found(s) /\ ~stopping /\ At(s, "active")
     \/ /\ Found(s) \/ stopping \/ ~live[s] \/ Fails("lookup") \/ ~Priority(s)
        /\ At(s, "leave")
  /\ UNCHANGED <<lane, service, finals, live, old, oldRevision, previous, executions, journal>>

(* Which reservations a call may replace: the captured owner, any with     *)
(* takeover or priority, and for a cancellation exactly its target.        *)
MayReplace(s, i) ==
  /\ Command[s].expected # None => i = Command[s].expected
  /\ i # None => (Priority(s) \/ Takeover(s))
  /\ Command[s].kind = "cancel" => (i = Command[s].target /\ ~row[i].cancelling)

(* Store.Active.                                                           *)
ReadActive(s) ==
  /\ pc[s] = "active"
  /\ \/ /\ MayReplace(s, holder)
        /\ old' = [old EXCEPT ![s] = holder] /\ At(s, "revoke")
     \/ /\ ~MayReplace(s, holder) \/ Fails("active") \/ ~live[s]
        /\ At(s, "leave") /\ UNCHANGED old
  /\ UNCHANGED <<lane, service, finals, live, oldRevision, previous, executions, journal>>
-----------------------------------------------------------------------------
(* Submit: the handoff.                                                    *)

(* The execution on the lane is cancelled if it is the one to replace.     *)
Revoke(s) ==
  /\ pc[s] = "revoke"
  /\ previous' = [previous EXCEPT ![s] = run]
  /\ \/ /\ run # None /\ old[s] = run
        /\ cause' = Cancelled(run, "superseded") /\ At(s, "await")
     \/ /\ run = None \/ old[s] # run
        /\ At(s, "reread") /\ UNCHANGED cause
  /\ UNCHANGED <<lane, service, finals, live, old, oldRevision, worker, doubt, confirmed,
                 fault, revision, final, journal>>

(* Variant: the revoked worker is not waited for.                          *)
AwaitNothing(s) ==
  /\ pc[s] = "await" /\ At(s, "reread")
  /\ UNCHANGED <<lane, service, finals, live, old, oldRevision, previous, executions, journal>>

(* A call whose context ends here returns at once: the deferred            *)
(* finishOrphan is registered only after the wait.                         *)
AwaitDone(s) ==
  /\ pc[s] = "await"
  /\ \/ worker[previous[s]] = "done" /\ At(s, "reread")
     \/ ~live[s] /\ At(s, "leave")
  /\ UNCHANGED <<lane, service, finals, live, old, oldRevision, previous, executions, journal>>

(* previous.uncertain, previous.unconfirmed, or a cause of its own.        *)
Lost(i) == doubt[i] # {} \/ Cause(i) \notin {"none", "superseded"}

(* The row is read again: it may have been finished meanwhile.  A failed   *)
(* read assigns the zero Operation to old.  A cancellation then needs the  *)
(* execution it cancels, and stop_owned needs its ownership intact.        *)
Reread(s) ==
  /\ pc[s] = "reread"
  /\ \/ /\ old[s] # None /\ (Fails("get") \/ ~live[s])
        /\ old' = [old EXCEPT ![s] = None] /\ At(s, "orphan") /\ UNCHANGED oldRevision
     \/ /\ old' = [old EXCEPT ![s] = IF old[s] # None /\ Open(old[s]) THEN old[s] ELSE None]
        /\ oldRevision' = [oldRevision EXCEPT ![s] =
                             IF old'[s] # None THEN row[old'[s]].revision ELSE 0]
        /\ At(s, IF /\ Command[s].kind = "cancel"
                    /\ \/ previous[s] = None
                       \/ Command[s].mode = "stop_owned" /\ Lost(previous[s])
                 THEN "orphan" ELSE "prepare")
  /\ UNCHANGED <<lane, service, finals, live, previous, executions, journal>>

(* The device reads and checks of a new baseline, which can all fail; a    *)
(* releasing cancellation makes none.                                      *)
Prepare(s) ==
  /\ pc[s] = "prepare"
  /\ \/ At(s, "check")
     \/ ~Releases(s) /\ At(s, "orphan")
  /\ UNCHANGED <<lane, service, finals, live, old, oldRevision, previous, executions, journal>>

CheckClosing(s) ==
  /\ pc[s] = "check" /\ lifecycle = None
  /\ \/ ~closing /\ live[s] /\ lifecycle' = s /\ At(s, "admit")
     \/ (closing \/ ~live[s]) /\ At(s, "orphan") /\ UNCHANGED lifecycle
  /\ UNCHANGED <<lane, closing, closed, stopping, finals, live, old, oldRevision, previous,
                 executions, journal>>

(* Store.Admit's own conditions (module Journal: Admissible).              *)
Admissible(s) ==
  /\ ~Found(s)
  /\ holder = old[s]
  /\ old[s] # None => (Open(old[s]) /\ row[old[s]].revision = oldRevision[s])

(* proposal.ReplaceUncertain.                                              *)
ReplaceUncertain(s) == previous[s] # None /\ doubt[previous[s]] # {}

(* The replaced row: a cancellation's target stays open, any other is      *)
(* finished in the transaction that admits its successor.                  *)
Replaced(s, o) ==
  [o EXCEPT !.revision = @ + 1,
            !.cancelling = Command[s].kind = "cancel",
            !.state = CASE Command[s].kind = "cancel" -> @
                        [] ReplaceUncertain(s) -> "uncertain"
                        [] OTHER -> "released"]

Admitted(s) ==
  /\ row' = [i \in Calls |-> IF i = s
                             THEN [state |-> "accepted", cancelling |-> FALSE, revision |-> 1]
                             ELSE IF i = old[s] THEN Replaced(s, row[i]) ELSE row[i]]
  /\ holder' = s

(* Store.Admit under the lifecycle mutex.  Only a confirmed, newly created *)
(* admission installs its execution on the lane and starts the worker.     *)
Admit(s) ==
  /\ pc[s] = "admit" /\ lifecycle' = None
  /\ \/ /\ Admissible(s) /\ Admitted(s)
        /\ run' = s /\ revision' = [revision EXCEPT ![s] = 1]
        /\ worker' = [worker EXCEPT ![s] = "ready"]
        /\ At(s, "leave") /\ UNCHANGED unknown
     \/ /\ Admissible(s) /\ Fails("commit") /\ Admitted(s)
        /\ unknown' = unknown \cup {s}
        /\ At(s, "orphan") /\ UNCHANGED <<run, revision, worker>>
     \/ /\ ~Admissible(s) \/ Fails("admit") \/ ~live[s]
        /\ At(s, "orphan") /\ UNCHANGED <<row, holder, unknown, run, revision, worker>>
  /\ UNCHANGED <<gate, priorityGate, raised, admitting, closing, closed, stopping, finals, live,
                 old, oldRevision, previous, cause, doubt, confirmed, fault, final>>

(* Variant: a finalizer is started whether or not Close has begun.         *)
OrphanAnytime(i) == lifecycle = None /\ finals' = finals \cup {i}

(* finishOrphan: refused once Close has begun.                             *)
FinishOrphan(i) ==
  /\ lifecycle = None
  /\ finals' = IF closing THEN finals ELSE finals \cup {i}

(* Variant: a failed handoff just returns.                                 *)
HandoffDropped(s) ==
  /\ pc[s] = "orphan" /\ At(s, "leave")
  /\ UNCHANGED <<lane, service, finals, live, old, oldRevision, previous, executions, journal>>

(* The deferred finishOrphan of a handoff that did not complete.           *)
HandoffFailed(s) ==
  /\ pc[s] = "orphan" /\ At(s, "leave")
  /\ \/ old[s] # None /\ previous[s] # None /\ FinishOrphan(old[s])
     \/ (old[s] = None \/ previous[s] = None) /\ UNCHANGED finals
  /\ UNCHANGED <<lane, service, live, old, oldRevision, previous, executions, journal>>

(* The client of a call goes away.                                         *)
Disconnect(s) ==
  /\ s \in Impatient /\ live[s] /\ pc[s] \notin {"new", "returned"}
  /\ live' = [live EXCEPT ![s] = FALSE]
  /\ UNCHANGED <<lane, service, finals, pc, old, oldRevision, previous, executions, journal>>
-----------------------------------------------------------------------------
(* The worker of an operation.                                             *)

Working == {"ready", "sent", "readback"}
Goes(i, where) == worker' = [worker EXCEPT ![i] = where]
Fault(i, class) == fault' = [fault EXCEPT ![i] = class]
Doubts(i, flag) == doubt' = [doubt EXCEPT ![i] = @ \cup {flag}]

(* Coordinator.transition: the row at the worker's revision, or an error.  *)
Current(i) == Open(i) /\ row[i].revision = revision[i]
Transition(i, state) ==
  /\ Current(i)
  /\ row' = [row EXCEPT ![i].state = state, ![i].revision = @ + 1]
  /\ revision' = [revision EXCEPT ![i] = @ + 1]
  /\ holder' = IF state \in Terminal /\ holder = i THEN None ELSE holder

(* writeOnce up to the send: the context, the observation of the device,   *)
(* and the durable record of the attempt, without which nothing is sent.   *)
BeginWrite(i) ==
  /\ worker[i] = "ready" /\ ~Releases(i)
  /\ \/ /\ Cause(i) = "none" /\ confirmed[i] < MaxWrites
        /\ Transition(i, "running") /\ Goes(i, "sent") /\ UNCHANGED <<doubt, fault>>
     \/ /\ Cause(i) = "none" /\ (Fails("transition") \/ ~Current(i))
        /\ Doubts(i, "uncertain") /\ Fault(i, "error") /\ Goes(i, "ended")
        /\ UNCHANGED <<row, revision, holder>>
     \/ /\ Cause(i) # "none"
        /\ Fault(i, "error") /\ Goes(i, "ended")
        /\ UNCHANGED <<row, revision, holder, doubt>>
     \/ \E class \in {"error", "ownership"} :
          /\ Fault(i, class) /\ Goes(i, "ended")
          /\ UNCHANGED <<row, revision, holder, doubt>>
  /\ UNCHANGED <<lane, service, finals, calls, cause, confirmed, final, unknown>>

(* Writer.Write returns: acknowledged, or failed with known or unknown     *)
(* delivery.                                                               *)
WriteReturns(i) ==
  /\ worker[i] = "sent"
  /\ \/ Doubts(i, "unconfirmed") /\ Goes(i, "readback") /\ UNCHANGED fault
     \/ Doubts(i, "uncertain") /\ Fault(i, "error") /\ Goes(i, "ended")
     \/ Fault(i, "error") /\ Goes(i, "ended") /\ UNCHANGED doubt
  /\ UNCHANGED <<lane, service, finals, calls, cause, confirmed, revision, final, journal>>

(* confirmReadback and the checks after it.                                *)
Confirm(i) ==
  /\ worker[i] = "readback"
  /\ \/ /\ doubt' = [doubt EXCEPT ![i] = @ \ {"unconfirmed"}]
        /\ confirmed' = [confirmed EXCEPT ![i] = @ + 1]
        /\ \/ Cause(i) = "none" /\ Goes(i, "ready") /\ UNCHANGED fault
           \/ Cause(i) # "none" /\ Fault(i, "error") /\ Goes(i, "ended")
     \/ /\ Doubts(i, "uncertain") /\ UNCHANGED confirmed
        /\ Fault(i, "error") /\ Goes(i, "ended")
     \/ Fault(i, "ownership") /\ Goes(i, "ended") /\ UNCHANGED <<doubt, confirmed>>
  /\ UNCHANGED <<lane, service, finals, calls, cause, revision, final, journal>>

(* The command has no more writes to make.                                 *)
Complete(i) ==
  /\ worker[i] = "ready" /\ (confirmed[i] > 0 \/ Releases(i))
  /\ Goes(i, "ended")
  /\ UNCHANGED <<lane, service, finals, calls, cause, doubt, confirmed, fault, revision, final,
                 journal>>

(* The classification at the end of execute.                               *)
FinalState(i) ==
  CASE fault[i] = "none" -> "succeeded"
    [] fault[i] # "none" /\ doubt[i] # {} -> "uncertain"
    [] fault[i] # "none" /\ doubt[i] = {} /\ (fault[i] = "ownership" \/ Cause(i) = "intervention") -> "released"
    [] OTHER -> IF stopping THEN "interrupted" ELSE "failed"

(* Variant: a superseded cancellation forgets its target.                  *)
SupersededSilently(i) ==
  Cause(i) = "superseded" /\ Goes(i, "exit") /\ UNCHANGED finals

(* A superseded worker leaves its row to the call that superseded it, and  *)
(* a cancellation's target to a finalizer.                                 *)
Superseded(i) ==
  /\ Cause(i) = "superseded" /\ Goes(i, "exit")
  /\ \/ Command[i].kind = "cancel" /\ FinishOrphan(Command[i].target)
     \/ Command[i].kind # "cancel" /\ UNCHANGED finals

(* Device work is over; what is left is journal work.                      *)
Settle(i) ==
  /\ worker[i] = "ended"
  /\ \/ Superseded(i) /\ UNCHANGED final
     \/ /\ Cause(i) # "superseded" /\ UNCHANGED finals
        /\ final' = [final EXCEPT ![i] = FinalState(i)]
        /\ Goes(i, IF Command[i].kind = "cancel" THEN "target" ELSE "finish")
  /\ UNCHANGED <<lane, service, calls, cause, doubt, confirmed, fault, revision, journal>>

(* persistByID: retried until the row is finished, by this or by another   *)
(* writer, or the service stops.                                           *)
PersistByID(i, state) ==
  \/ /\ Open(i)
     /\ row' = [row EXCEPT ![i].state = state, ![i].revision = @ + 1]
     /\ holder' = IF holder = i THEN None ELSE holder
  \/ ~Open(i) /\ UNCHANGED <<row, holder>>
  \/ stopping /\ Fails("transition") /\ UNCHANGED <<row, holder>>

(* A cancellation finishes its target before itself.                       *)
FinishTarget(i) ==
  /\ worker[i] = "target"
  /\ PersistByID(Command[i].target, IF final[i] = "succeeded" THEN "cancelled" ELSE final[i])
  /\ Goes(i, "finish")
  /\ UNCHANGED <<lane, service, finals, calls, cause, doubt, confirmed, fault, revision, final,
                 unknown>>

(* The loop that records the outcome looks for supersession first ...      *)
CheckSuperseded(i) ==
  /\ worker[i] = "finish"
  /\ \/ Superseded(i)
     \/ Cause(i) # "superseded" /\ Goes(i, "commit") /\ UNCHANGED finals
  /\ UNCHANGED <<lane, service, calls, cause, doubt, confirmed, fault, revision, final, journal>>

(* ... and tries again after a failure, unless the service is stopping.    *)
Finish(i) ==
  /\ worker[i] = "commit"
  /\ \/ Transition(i, final[i]) /\ Goes(i, "exit")
     \/ /\ Fails("transition") \/ ~Current(i)
        /\ Goes(i, IF stopping THEN "exit" ELSE "finish")
        /\ UNCHANGED <<row, revision, holder>>
  /\ UNCHANGED <<lane, service, finals, calls, cause, doubt, confirmed, fault, final, unknown>>

(* The goroutine's end: it leaves the lane if it is still the lane's, and  *)
(* releases the priority it was handed.                                    *)
Exit(i) ==
  /\ worker[i] = "exit" /\ Goes(i, "done")
  /\ run' = IF run = i THEN None ELSE run
  /\ raised' = raised \ {i}
  /\ confirmed' = [confirmed EXCEPT ![i] = 0] /\ fault' = [fault EXCEPT ![i] = "none"]
  /\ revision' = [revision EXCEPT ![i] = 0] /\ final' = [final EXCEPT ![i] = None]
  /\ UNCHANGED <<gate, priorityGate, admitting, service, finals, calls, cause, doubt, journal>>

(* A finishOrphan goroutine.                                               *)
Finalize(i) ==
  /\ i \in finals /\ finals' = finals \ {i}
  /\ PersistByID(i, "uncertain")
  /\ UNCHANGED <<lane, service, calls, executions, unknown>>

(* execution.event: an event the operation does not expect ends its        *)
(* ownership, and leaves a command in flight uncertain.                    *)
Intervene(i) ==
  /\ run = i
  /\ cause' = Cancelled(i, "intervention")
  /\ doubt' = [doubt EXCEPT ![i] = IF worker[i] = "sent" THEN @ \cup {"uncertain"} ELSE @]
  /\ UNCHANGED <<lane, service, finals, calls, worker, confirmed, fault, revision, final, journal>>

(* The operation's time budget runs out.                                   *)
Expire(i) ==
  /\ worker[i] \in Working /\ cause[i] = "none"
  /\ cause' = Cancelled(i, "expired")
  /\ UNCHANGED <<lane, service, finals, calls, worker, doubt, confirmed, fault, revision, final,
                 journal>>
-----------------------------------------------------------------------------
(* The service stops: the application's context ends, then Close waits for *)
(* every goroutine it started.                                             *)
StopService ==
  /\ MayStop /\ ~stopping /\ stopping' = TRUE
  /\ UNCHANGED <<lane, lifecycle, closing, closed, finals, calls, executions, journal>>

Close ==
  /\ stopping /\ ~closing /\ lifecycle = None /\ closing' = TRUE
  /\ UNCHANGED <<lane, lifecycle, closed, stopping, finals, calls, executions, journal>>

Joined == /\ finals = {}
          /\ \A i \in Calls : worker[i] \in {"none", "done"}

WaitReturns ==
  /\ closing /\ ~closed /\ Joined /\ closed' = TRUE
  /\ UNCHANGED <<lane, lifecycle, closing, stopping, finals, calls, executions, journal>>

Submit(s) == \/ Lookup(s) \/ EnterPriority(s) \/ WaitGate(s) \/ EnterOrdinary(s) \/ Leave(s)
             \/ Validate(s) \/ ReadActive(s) \/ Revoke(s) \/ AwaitDone(s) \/ Reread(s)
             \/ Prepare(s) \/ CheckClosing(s) \/ Admit(s) \/ HandoffFailed(s)
Execute(i) == \/ BeginWrite(i) \/ WriteReturns(i) \/ Confirm(i) \/ Complete(i) \/ Settle(i)
              \/ FinishTarget(i) \/ CheckSuperseded(i) \/ Finish(i) \/ Exit(i)
Outside(i) == Disconnect(i) \/ Intervene(i) \/ Expire(i)

Next == \/ \E i \in Calls : Submit(i) \/ Execute(i) \/ Finalize(i) \/ Outside(i)
        \/ StopService \/ Close \/ WaitReturns

Spec == Init /\ [][Next]_vars

(* Every step of a call or a goroutine is bounded by a timeout or needs    *)
(* only a mutex, so it is taken; a journal outage ends, so a terminal      *)
(* record that is retried is at last written.                              *)
Recorded(i) == Finish(i) /\ worker'[i] = "exit"
FairSpec == /\ Spec
            /\ \A i \in Calls : /\ WF_vars(Submit(i)) /\ WF_vars(Execute(i))
                                /\ WF_vars(Finalize(i)) /\ SF_vars(Recorded(i))
            /\ WF_vars(Close) /\ WF_vars(WaitReturns)
-----------------------------------------------------------------------------
(* Properties.                                                             *)

(* A worker that may still write to the device holds the device's          *)
(* reservation with an open row at the revision it knows: a takeover, a    *)
(* stop or a cancellation is admitted only after the wait for the revoked  *)
(* worker, so two operations never drive one device (Submit, lines         *)
(* 399-406, and the revision check of Admit).                              *)
WriterOwnsDevice == \A i \in Calls : worker[i] \in Working => (holder = i /\ Current(i))

(* Somebody will finish the row of operation i: its worker, a finalizer,   *)
(* or the cancellation that took it over.                                  *)
Responsible(i) ==
  \/ worker[i] \notin {"none", "done"}
  \/ i \in finals
  \/ \E c \in Calls : /\ Command[c].kind = "cancel" /\ Command[c].target = i
                      /\ worker[c] \in Working \cup {"ended", "target"}

(* Until the service stops, an accepted operation is never left open with  *)
(* nobody to finish it once the calls in progress have returned, whatever  *)
(* admissions failed after its worker was revoked (Submit's deferred       *)
(* finishOrphan, execute's finishOrphan of a cancellation's target).  An   *)
(* admission whose commit stayed unknown has no worker by design.          *)
NoStrandedOperation ==
  (~stopping /\ \A s \in Calls : pc[s] \in {"new", "returned"}) =>
     \A i \in Calls : (Open(i) /\ i \notin unknown) => Responsible(i)

(* A row never records a definite result for an operation that left a      *)
(* device command unconfirmed, however it was finished: by its worker, by  *)
(* its successor's admission (ReplaceUncertain) or by a finalizer.  A      *)
(* releasing cancellation overrides it, with "cancelled"; and a stopping   *)
(* worker that could not record its outcome leaves a row which a stop      *)
(* submitted just before can still replace without knowing its doubt.      *)
DoubtRecorded == \A i \in Calls :
  (/\ row[i] # None /\ ~stopping
   /\ row[i].state \in Terminal \ {"uncertain", "cancelled"}) => doubt[i] = {}

(* No ordinary admission begins its transaction while a stop or a          *)
(* cancellation is being admitted or carried out: raising lane.priority    *)
(* either is seen at the gate or cancels the admission under way.          *)
PriorityFirst == [][\A s \in Calls :
  (pc[s] = "check" /\ pc'[s] = "admit" /\ ~Priority(s) /\ ~Takeover(s)) => raised = {}]_vars

(* Once Close has returned no worker and no finalizer is running and none  *)
(* starts: every start is made under the lifecycle mutex with closing      *)
(* false.                                                                  *)
NothingAfterClose == closed => Joined

(* Every Submit call returns (the gates, the lifecycle mutex and the wait  *)
(* for a revoked worker never wait for each other in a circle), and every  *)
(* accepted operation reaches a terminal state in the journal unless the   *)
(* service stops or its admission stayed unknown.                          *)
Settles ==
  <>[]\A s \in Calls : /\ pc[s] \in {"new", "returned"}
                       /\ Open(s) => stopping \/ s \in unknown
=============================================================================
