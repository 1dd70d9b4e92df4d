-------------------------- MODULE CoordinatorProofs --------------------------
(***************************************************************************)
(* One writer per device, for any number of Submit calls with any commands *)
(* and any pattern of failures.                                            *)
(*                                                                         *)
(* WriterOwnsDevice is not inductive: the admission that replaces an       *)
(* operation looks at its row, never at its worker.  The invariant adds    *)
(* why the worker has ended by then.  A working operation is the lane's    *)
(* (WriterInv), so a call that finds it as the holder also finds it on the *)
(* lane and waits for it (RevokedInv); whoever may finish the row of an    *)
(* operation, a finalizer or a cancellation, came to it that way; and      *)
(* nothing starts twice, because a row never goes away (RowInv).  The      *)
(* gate and the lifecycle mutex are what the calls' places in the code     *)
(* say of them (GateInv, MutexInv).                                    *)
(***************************************************************************)
EXTENDS Coordinator, TLAPS

(* Leaves are left to Zenon; those that need arithmetic name SMT.          *)
USE ZenonT(40)

Handoff == {"reread", "prepare", "check", "admit", "orphan"}
Inside == {"inside", "active", "revoke", "await"} \cup Handoff
Places == {"new", "gates", "waiting", "leave", "returned"} \cup Inside
Deciding == {"target", "finish", "commit"}
Workers == {"none", "ended", "exit", "done"} \cup Working \cup Deciding
Targets(c, i) == Command[c].kind = "cancel" /\ Command[c].target = i

(* What the lane, the calls and the journal range over.                    *)
Types ==
  /\ holder \in Calls \cup {None} /\ run \in Calls \cup {None}
  /\ finals \subseteq Calls
  /\ pc \in [Calls -> Places]
  /\ live \in [Calls -> BOOLEAN]
  /\ old \in [Calls -> Calls \cup {None}]
  /\ previous \in [Calls -> Calls \cup {None}]
  /\ worker \in [Calls -> Workers]
  /\ revision \in [Calls -> Nat]
  /\ final \in [Calls -> Terminal \cup {None}]
  /\ row \in [Calls -> Row \cup {None}]

(* A worker past its device work knows its outcome, and only a             *)
(* cancellation has a target to finish.                                    *)
Decided == \A i \in Calls :
  /\ worker[i] \in Deciding => final[i] \in Terminal
  /\ worker[i] = "target" => Command[i].kind = "cancel"

(* A call past the gate holds it, and an ordinary one is the one a stop    *)
(* would disconnect; one that is still connected has seen no stop.         *)
GateInv == \A s \in Calls :
  /\ pc[s] = "waiting" => Priority(s)
  /\ pc[s] \in Inside => /\ gate = s
                         /\ ~Priority(s) => admitting = s
                         /\ (~Priority(s) /\ ~Takeover(s) /\ live[s]) => raised = {}

(* Workers start under the lifecycle mutex, which is not taken once Close  *)
(* has begun.                                                              *)
MutexInv ==
  /\ \A s \in Calls : pc[s] = "admit" => lifecycle = s
  /\ lifecycle # None => ~closing
  /\ closed => closing

(* Whoever is spoken of has a row.                                         *)
RowInv ==
  /\ holder # None => row[holder] # None
  /\ \A i \in finals : row[i] # None
  /\ \A i \in Calls : worker[i] # "none" => row[i] # None
  /\ \A s \in Calls : old[s] # None => row[old[s]] # None
  /\ \A c, i \in Calls : (Targets(c, i) /\ (pc[c] # "new" \/ worker[c] # "none"))
       => row[i] # None

(* A working operation is the one on the lane, and owns the device.        *)
WriterInv == \A i \in Calls : worker[i] \in Working => (run = i /\ holder = i /\ Current(i))

(* The worker has ended of the operation a call has waited for, of one     *)
(* left to a finalizer, and of the target of an admitted cancellation.     *)
RevokedInv ==
  /\ \A s \in Calls : pc[s] = "await" => (old[s] # None /\ previous[s] = old[s])
  /\ \A s \in Calls : (pc[s] \in Handoff /\ old[s] # None) => worker[old[s]] \notin Working
  /\ \A i \in finals : worker[i] \notin Working
  /\ \A c, i \in Calls : (Targets(c, i) /\ worker[c] # "none") => worker[i] \notin Working

Inv == Types /\ Decided /\ GateInv /\ MutexInv /\ NothingAfterClose /\ RowInv /\ WriterInv /\ RevokedInv
-----------------------------------------------------------------------------
(* Types.                                                                  *)

(* The rows after an admission.                                            *)
LEMMA AdmittedRows ==
  ASSUME Types, NEW s \in Calls, Admissible(s), Admitted(s)
  PROVE  /\ holder' = s /\ row' \in [Calls -> Row \cup {None}]
         /\ row'[s] = [state |-> "accepted", cancelling |-> FALSE, revision |-> 1]
         /\ row'[s] \in Row
         /\ \A i \in Calls \ {s, old[s]} : row'[i] = row[i]
         /\ (old[s] # None /\ old[s] # s) => row'[old[s]] \in Row
<1> DEFINE first == [state |-> "accepted", cancelling |-> FALSE, revision |-> 1]
<1>1. first \in Row
  BY DEF Row
<1>2. ASSUME NEW i \in Calls, i = old[s] PROVE Replaced(s, row[i]) \in Row
  <2>1. row[i] \in Row /\ row[i].revision + 1 \in Nat
    BY <1>2, CommandAssumption, SMTT(30) DEF Admissible, Open, Row, Types
  <2>2. (Command[s].kind = "cancel") \in BOOLEAN
    OBVIOUS
  <2>3. \A o \in Row, c \in BOOLEAN, n \in Nat : \A st \in Terminal \cup {o.state} :
          [o EXCEPT !.revision = n, !.cancelling = c, !.state = st] \in Row
    BY DEF Row, Terminal
  <2> QED
    BY <2>1, <2>2, <2>3 DEF Replaced, Terminal
<1>3. \A i \in Calls :
        row'[i] = IF i = s THEN first ELSE IF i = old[s] THEN Replaced(s, row[i]) ELSE row[i]
  BY DEF Admitted
<1>4. row' \in [Calls -> Row \cup {None}]
  BY <1>1, <1>2 DEF Admitted, Types
<1> HIDE DEF first
<1>5. \A i \in Calls \ {s, old[s]} : row'[i] = row[i]
  BY <1>3
<1>6. ASSUME old[s] # None, old[s] # s PROVE row'[old[s]] \in Row
  <2>1. old[s] \in Calls
    BY <1>6 DEF Types
  <2> QED
    BY <1>2, <1>3, <1>6, <2>1
<1> QED
  BY <1>1, <1>3, <1>4, <1>5, <1>6 DEF Admitted, first

(* What a journal update leaves in a row.                                  *)
LEMMA RowTypes ==
  ASSUME Types, NEW i \in Calls, row[i] # None, NEW state \in {"running"} \cup Terminal,
         row' = [row EXCEPT ![i].state = state, ![i].revision = @ + 1]
  PROVE  /\ row' \in [Calls -> Row \cup {None}] /\ row'[i] \in Row
         /\ row'[i].state = state /\ row'[i].revision = row[i].revision + 1
         /\ \A j \in Calls : j # i => row'[j] = row[j]
<1>1. row[i] \in Row
  BY DEF Types
<1>2. \A r \in Row : r.revision + 1 \in Nat
  BY SMTT(30) DEF Row
<1>3. \A r \in Row : LET q == [r EXCEPT !.state = state]
                     IN  q \in Row /\ q.state = state /\ q.revision = r.revision
  BY DEF Row
<1>4. \A r \in Row, n \in Nat : LET q == [r EXCEPT !.revision = n]
                              IN  q \in Row /\ q.state = r.state /\ q.revision = n
  BY DEF Row
<1> DEFINE g == [row EXCEPT ![i].state = state]
<1>5. /\ g \in [Calls -> Row \cup {None}] /\ g[i] \in Row /\ g[i].state = state
      /\ g[i].revision = row[i].revision /\ \A j \in Calls : j # i => g[j] = row[j]
  BY <1>1, <1>3 DEF Types
<1>6. row' = [g EXCEPT ![i].revision = g[i].revision + 1]
  OBVIOUS
<1> HIDE DEF g
<1>7. row'[i] = [g[i] EXCEPT !.revision = g[i].revision + 1] /\ \A j \in Calls : j # i => row'[j] = g[j]
  BY <1>5, <1>6
<1>8. g[i].revision + 1 \in Nat
  BY <1>2, <1>5
<1>9. row'[i] \in Row /\ row'[i].state = g[i].state /\ row'[i].revision = g[i].revision + 1
  <2>1. /\ [g[i] EXCEPT !.revision = g[i].revision + 1] \in Row
        /\ [g[i] EXCEPT !.revision = g[i].revision + 1].state = g[i].state
        /\ [g[i] EXCEPT !.revision = g[i].revision + 1].revision = g[i].revision + 1
    BY <1>4, <1>5, <1>8
  <2> QED
    BY <1>7, <2>1
<1>10. row' \in [Calls -> Row \cup {None}]
  BY <1>5, <1>6, <1>7, <1>9
<1> QED
  BY <1>5, <1>7, <1>9, <1>10

(* The steps of a call before its handoff.                                 *)
LEMMA GateTypes ==
  ASSUME Types, NEW s \in Calls,
         \/ Lookup(s) \/ EnterPriority(s) \/ WaitGate(s) \/ EnterOrdinary(s) \/ Leave(s)
         \/ Validate(s) \/ ReadActive(s)
  PROVE  Types'
<1> USE DEF Types, At, lane, service, calls, executions, journal
<1>p. Places = {"new", "gates", "waiting", "leave", "returned", "inside", "active", "revoke",
               "await", "reread", "prepare", "check", "admit", "orphan"}
  BY DEF Places, Inside, Handoff
<1>1. CASE Lookup(s)
  BY <1>1, <1>p DEF Lookup
<1>2. CASE EnterPriority(s)
  <2>1. live' \in [Calls -> BOOLEAN]
    BY <1>2 DEF EnterPriority
  <2> QED
    BY <1>2, <1>p, <2>1 DEF EnterPriority
<1>3. CASE WaitGate(s)
  BY <1>3, <1>p DEF WaitGate
<1>4. CASE EnterOrdinary(s)
  BY <1>4, <1>p DEF EnterOrdinary
<1>5. CASE Leave(s)
  BY <1>5, <1>p DEF Leave
<1>6. CASE Validate(s)
  BY <1>6, <1>p DEF Validate
<1>7. CASE ReadActive(s)
  <2>1. /\ UNCHANGED <<lane, service, finals, live, oldRevision, previous, executions, journal>>
        /\ At(s, "revoke") \/ At(s, "leave")
        /\ old' = [old EXCEPT ![s] = holder] \/ old' = old
    BY <1>7 DEF ReadActive
  <2>2. pc' \in [Calls -> Places]
    BY <1>p, <2>1
  <2>3. old' \in [Calls -> Calls \cup {None}]
    BY <2>1
  <2> QED
    BY <2>1, <2>2, <2>3
<1> QED
  BY <1>1, <1>2, <1>3, <1>4, <1>5, <1>6, <1>7

(* The steps of a call's handoff.                                          *)
LEMMA HandoffTypes ==
  ASSUME Types, NEW s \in Calls,
         \/ Revoke(s) \/ AwaitDone(s) \/ Reread(s) \/ Prepare(s) \/ CheckClosing(s)
         \/ Admit(s) \/ HandoffFailed(s)
  PROVE  Types'
<1> USE DEF Types, At, lane, service, calls, executions, journal
<1>p. Places = {"new", "gates", "waiting", "leave", "returned", "inside", "active", "revoke",
               "await", "reread", "prepare", "check", "admit", "orphan"}
  BY DEF Places, Inside, Handoff
<1>1. CASE Revoke(s)
  BY <1>1, <1>p DEF Revoke
<1>2. CASE AwaitDone(s)
  BY <1>2, <1>p DEF AwaitDone
<1>3. CASE Reread(s)
  BY <1>3, <1>p DEF Reread
<1>4. CASE Prepare(s)
  BY <1>4, <1>p DEF Prepare
<1>5. CASE CheckClosing(s)
  BY <1>5, <1>p DEF CheckClosing
<1>6. CASE Admit(s)
  <2>1. (Admissible(s) /\ Admitted(s)) => (row' \in [Calls -> Row \cup {None}] /\ holder' = s)
    BY AdmittedRows
  <2> QED
    BY <1>6, <1>p, <2>1, SMTT(30) DEF Admit, Workers, Working
<1>7. CASE HandoffFailed(s)
  BY <1>7, <1>p DEF HandoffFailed, FinishOrphan
<1> QED
  BY <1>1, <1>2, <1>3, <1>4, <1>5, <1>6, <1>7

(* Coordinator.transition and persistByID.                                 *)
LEMMA TransitionTypes ==
  ASSUME Types, NEW i \in Calls, NEW state \in {"running"} \cup Terminal, Transition(i, state)
  PROVE  /\ row' \in [Calls -> Row \cup {None}] /\ holder' \in Calls \cup {None}
         /\ revision' \in [Calls -> Nat]
<1>1. row[i] # None
  BY DEF Transition, Current, Open
<1>2. row' \in [Calls -> Row \cup {None}]
  BY <1>1, RowTypes DEF Transition
<1>3. revision' \in [Calls -> Nat]
  BY SMTT(30) DEF Transition, Types
<1> QED
  BY <1>2, <1>3 DEF Transition, Types

(* A stored end (PersistByID) keeps the types of the tables.               *)
LEMMA PersistTypes ==
  ASSUME Types, NEW i \in Calls, NEW state \in Terminal, PersistByID(i, state)
  PROVE  row' \in [Calls -> Row \cup {None}] /\ holder' \in Calls \cup {None}
<1>1. CASE Open(i) /\ row' = [row EXCEPT ![i].state = state, ![i].revision = @ + 1]
  BY <1>1, RowTypes DEF Open, PersistByID, Types
<1>2. CASE UNCHANGED <<row, holder>>
  BY <1>2 DEF Types
<1> QED
  BY <1>1, <1>2 DEF PersistByID

(* A superseded worker leaves at most its target to a finalizer.           *)
LEMMA SupersededFinals ==
  ASSUME Types, NEW i \in Calls, Superseded(i) \/ UNCHANGED finals
  PROVE  finals' \subseteq Calls
<1>1. finals \subseteq Calls
  BY DEF Types
<1>2. CASE UNCHANGED finals
  BY <1>1, <1>2
<1>3. CASE Command[i].kind = "cancel" /\ FinishOrphan(Command[i].target)
  <2>1. Command[i].target \in Calls
    BY <1>3, CommandAssumption
  <2>2. finals' = finals \/ finals' = finals \cup {Command[i].target}
    BY <1>3 DEF FinishOrphan
  <2> QED
    BY <1>1, <2>1, <2>2
<1> QED
  BY <1>2, <1>3 DEF Superseded

(* The steps of a worker.                                                  *)
LEMMA WorkerTypes ==
  ASSUME Types, Decided, NEW i \in Calls, Execute(i)
  PROVE  Types'
<1> USE DEF Goes, Fault, Doubts, lane, service, calls, executions, journal
<1>w. Workers = {"none", "ended", "exit", "done", "ready", "sent", "readback", "target",
                "finish", "commit"}
  BY DEF Workers, Working, Deciding
<1>1. CASE BeginWrite(i)
  <2>1. CASE Transition(i, "running") /\ Goes(i, "sent")
    BY <1>1, <1>w, <2>1, TransitionTypes DEF BeginWrite, Types
  <2>2. CASE Goes(i, "ended") /\ UNCHANGED <<row, revision, holder>>
    BY <1>1, <1>w, <2>2 DEF BeginWrite, Types
  <2> QED
    BY <1>1, <2>1, <2>2 DEF BeginWrite
<1>2. CASE WriteReturns(i)
  BY <1>2, <1>w DEF WriteReturns, Types
<1>3. CASE Confirm(i)
  BY <1>3, <1>w DEF Confirm, Types
<1>4. CASE Complete(i)
  BY <1>4, <1>w DEF Complete, Types
<1>5. CASE Settle(i)
  <2>1. FinalState(i) \in Terminal
    BY DEF FinalState, Terminal
  <2>2. finals' \subseteq Calls
    <3>1. Superseded(i) \/ UNCHANGED finals
      BY <1>5 DEF Settle
    <3> QED
      BY <3>1, SupersededFinals
  <2>3. /\ Goes(i, "exit") \/ Goes(i, "target") \/ Goes(i, "finish")
        /\ final' = final \/ final' = [final EXCEPT ![i] = FinalState(i)]
        /\ UNCHANGED <<lane, service, calls, cause, doubt, confirmed, fault, revision, journal>>
    BY <1>5 DEF Settle, Superseded
  <2>4. worker' \in [Calls -> Workers]
    BY <1>w, <2>3 DEF Types
  <2>5. final' \in [Calls -> Terminal \cup {None}]
    BY <2>1, <2>3 DEF Types
  <2> QED
    BY <2>2, <2>3, <2>4, <2>5 DEF Types
<1>6. CASE FinishTarget(i)
  <2>1. Command[i].target \in Calls
    BY <1>6, CommandAssumption DEF FinishTarget, Decided
  <2>2. final[i] \in Terminal
    BY <1>6 DEF FinishTarget, Decided, Deciding
  <2>3. PICK state \in Terminal : PersistByID(Command[i].target, state)
    BY <1>6, <2>2 DEF FinishTarget, Terminal
  <2>4. row' \in [Calls -> Row \cup {None}] /\ holder' \in Calls \cup {None}
    BY <2>1, <2>3, PersistTypes
  <2> QED
    BY <1>6, <1>w, <2>4 DEF FinishTarget, Types
<1>7. CASE CheckSuperseded(i)
  <2>1. finals' \subseteq Calls
    <3>1. Superseded(i) \/ UNCHANGED finals
      BY <1>7 DEF CheckSuperseded
    <3> QED
      BY <3>1, SupersededFinals
  <2> QED
    BY <1>7, <1>w, <2>1 DEF CheckSuperseded, Superseded, Types
<1>8. CASE Finish(i)
  <2>1. CASE Transition(i, final[i]) /\ Goes(i, "exit")
    <3>1. final[i] \in Terminal
      BY <1>8 DEF Finish, Decided, Deciding
    <3>2. /\ row' \in [Calls -> Row \cup {None}] /\ holder' \in Calls \cup {None}
          /\ revision' \in [Calls -> Nat]
      BY <2>1, <3>1, TransitionTypes
    <3> QED
      BY <1>8, <1>w, <2>1, <3>2 DEF Finish, Types
  <2>2. CASE UNCHANGED <<row, revision, holder>>
    BY <1>8, <1>w, <2>2 DEF Finish, Types
  <2> QED
    BY <1>8, <2>1, <2>2 DEF Finish
<1>9. CASE Exit(i)
  BY <1>9, <1>w DEF Exit, Types
<1> QED
  BY <1>1, <1>2, <1>3, <1>4, <1>5, <1>6, <1>7, <1>8, <1>9 DEF Execute

(* Every step keeps the result of a finishing worker decided.              *)
LEMMA StepDecided ==
  ASSUME Types, Decided, [Next]_vars
  PROVE  Decided'
<1> USE DEF Decided, Goes, lane, service, calls, executions, journal
<1>t. worker \in [Calls -> Workers] /\ final \in [Calls -> Terminal \cup {None}]
  BY DEF Types
<1>1. ASSUME NEW i \in Calls, Settle(i) PROVE Decided'
  <2>1. FinalState(i) \in Terminal
    BY DEF FinalState, Terminal
  <2> QED
    BY <1>1, <1>t, <2>1 DEF Settle, Superseded, Deciding
<1>2. ASSUME NEW i \in Calls, FinishTarget(i) \/ CheckSuperseded(i) \/ Finish(i) PROVE Decided'
  BY <1>2, <1>t DEF FinishTarget, CheckSuperseded, Superseded, Finish, Deciding
<1>3. ASSUME NEW i \in Calls, NEW where \in Workers \ Deciding, Goes(i, where),
             \A j \in Calls : j # i => final'[j] = final[j]
      PROVE  Decided'
  BY <1>3, <1>t DEF Deciding
<1>4. ASSUME NEW i \in Calls, Execute(i) PROVE Decided'
  <2>1. {"ready", "sent", "readback", "ended", "done"} \subseteq Workers \ Deciding
    BY DEF Workers, Working, Deciding
  <2>2. CASE BeginWrite(i) \/ WriteReturns(i) \/ Confirm(i) \/ Complete(i) \/ Exit(i)
    BY <1>3, <1>t, <2>1, <2>2 DEF BeginWrite, WriteReturns, Confirm, Complete, Exit
  <2> QED
    BY <1>1, <1>2, <1>4, <2>2 DEF Execute
<1>5. ASSUME NEW i \in Calls, Admit(i) PROVE Decided'
  BY <1>5, <1>t DEF Admit, Deciding
<1>6. ASSUME UNCHANGED <<worker, final>> PROVE Decided'
  BY <1>6
<1>7. ASSUME NEW i \in Calls, Submit(i) PROVE Decided'
  BY <1>5, <1>6, <1>7 DEF Submit, Lookup, EnterPriority, WaitGate, EnterOrdinary, Leave, Validate,
     ReadActive, Revoke, AwaitDone, Reread, Prepare, CheckClosing, HandoffFailed
<1> QED
  BY <1>4, <1>6, <1>7 DEF Next, Finalize, Outside, Disconnect, Intervene, Expire, StopService,
     Close, WaitReturns, vars

(* Every step keeps the types.                                             *)
LEMMA StepTypes ==
  ASSUME Types, Decided, [Next]_vars
  PROVE  Types'
<1> USE DEF lane, service, calls, executions, journal
<1>1. ASSUME NEW i \in Calls, Submit(i) PROVE Types'
  BY <1>1, GateTypes, HandoffTypes DEF Submit
<1>2. ASSUME NEW i \in Calls, Execute(i) PROVE Types'
  BY <1>2, WorkerTypes
<1>3. ASSUME NEW i \in Calls, Finalize(i) PROVE Types'
  <2>1. row' \in [Calls -> Row \cup {None}] /\ holder' \in Calls \cup {None}
    BY <1>3, PersistTypes DEF Finalize, Terminal
  <2> QED
    BY <1>3, <2>1 DEF Finalize, Types
<1>4. ASSUME NEW i \in Calls, Outside(i) PROVE Types'
  BY <1>4 DEF Outside, Disconnect, Intervene, Expire, Types
<1>5. CASE StopService \/ Close \/ WaitReturns
  BY <1>5 DEF StopService, Close, WaitReturns, Types
<1>6. CASE UNCHANGED vars
  BY <1>6 DEF vars, Types
<1> QED
  BY <1>1, <1>2, <1>3, <1>4, <1>5, <1>6 DEF Next
-----------------------------------------------------------------------------
(* The gates.                                                              *)

(* Every step keeps the gate with the call that is past it.                *)
LEMMA StepGate ==
  ASSUME Types, GateInv, [Next]_vars
  PROVE  GateInv'
<1> USE DEF At, lane, service, calls, executions, journal
<1>t. pc \in [Calls -> Places] /\ live \in [Calls -> BOOLEAN] /\ None \notin Calls
  BY CommandAssumption DEF Types
(* A step of s that stays inside, or moves to a place outside.             *)
<1>1. ASSUME NEW s \in Calls, NEW where \in Places \ {"waiting"}, At(s, where),
             where \in Inside => pc[s] \in Inside,
             UNCHANGED <<gate, admitting, raised, live>>
      PROVE  GateInv'
  BY <1>1, <1>t DEF GateInv, Inside, Priority, Takeover
<1>2. ASSUME NEW s \in Calls, EnterPriority(s) PROVE GateInv'
  <2>1. pc'[s] \notin Inside /\ Priority(s) /\ UNCHANGED <<gate, admitting>>
    BY <1>2, <1>t DEF EnterPriority, Inside, Handoff
  <2>2. \A t \in Calls : t # s => pc'[t] = pc[t]
    BY <1>2, <1>t DEF EnterPriority
  <2>3. \A t \in Calls : live'[t] => (live[t] /\ (t # admitting \/ raised' = raised))
    BY <1>2 DEF EnterPriority
  <2> QED
    BY <2>1, <2>2, <2>3 DEF GateInv, Priority, Takeover
<1>3. ASSUME NEW s \in Calls, WaitGate(s) PROVE GateInv'
  <2>1. Priority(s)
    BY <1>3 DEF WaitGate, GateInv
  <2> QED
    BY <1>3, <1>t, <2>1 DEF WaitGate, GateInv, Priority, Takeover, Inside, Handoff
<1>4. ASSUME NEW s \in Calls, EnterOrdinary(s) PROVE GateInv'
  BY <1>4, <1>t DEF EnterOrdinary, GateInv, Priority, Takeover, Inside, Handoff
<1>5. ASSUME NEW s \in Calls, Leave(s) PROVE GateInv'
  BY <1>5, <1>t DEF Leave, GateInv, Priority, Takeover, Inside, Handoff
<1>6. ASSUME NEW s \in Calls, Submit(s) PROVE GateInv'
  <2>1. CASE Lookup(s) \/ Validate(s) \/ ReadActive(s)
    BY <1>1, <2>1 DEF Lookup, Validate, ReadActive, Places, Inside, Handoff
  <2>2. CASE Revoke(s) \/ AwaitDone(s) \/ Prepare(s) \/ HandoffFailed(s)
    BY <1>1, <2>2 DEF Revoke, AwaitDone, Prepare, HandoffFailed, Places, Inside, Handoff
  <2>3. CASE Reread(s) \/ CheckClosing(s) \/ Admit(s)
    BY <1>1, <2>3 DEF Reread, CheckClosing, Admit, Places, Inside, Handoff
  <2> QED
    BY <1>2, <1>3, <1>4, <1>5, <1>6, <2>1, <2>2, <2>3 DEF Submit
(* Workers and their surroundings: a worker that ends lowers priority, a   *)
(* client that goes away disconnects its call.                             *)
<1>7. ASSUME UNCHANGED <<pc, gate, admitting>>, raised' \subseteq raised,
             \A s \in Calls : live'[s] => live[s]
      PROVE  GateInv'
  BY <1>7 DEF GateInv, Priority, Takeover
<1>8. ASSUME NEW i \in Calls, Execute(i) PROVE GateInv'
  BY <1>7, <1>8 DEF Execute, BeginWrite, WriteReturns, Confirm, Complete, Settle, FinishTarget,
     CheckSuperseded, Finish, Exit
<1>9. ASSUME NEW i \in Calls, Finalize(i) \/ Outside(i) PROVE GateInv'
  BY <1>7, <1>9, <1>t DEF Finalize, Outside, Disconnect, Intervene, Expire
<1>10. CASE StopService \/ Close \/ WaitReturns \/ UNCHANGED vars
  BY <1>7, <1>10 DEF StopService, Close, WaitReturns, vars
<1> QED
  BY <1>6, <1>8, <1>9, <1>10 DEF Next
-----------------------------------------------------------------------------
(* The lifecycle mutex.                                                    *)

(* A worker starts in Admit and nowhere else, with a row of its own.       *)
LEMMA WorkerStarts ==
  ASSUME Types, [Next]_vars, NEW i \in Calls, worker[i] \in {"none", "done"},
         worker'[i] # worker[i]
  PROVE  /\ Admit(i) /\ Admissible(i) /\ Admitted(i)
         /\ worker'[i] = "ready" /\ run' = i /\ revision' = [revision EXCEPT ![i] = 1]
<1> USE DEF Goes, lane, service, calls, executions, journal
<1>t. worker \in [Calls -> Workers]
  BY DEF Types
<1>1. ASSUME NEW j \in Calls, Execute(j) PROVE worker'[i] = worker[i]
  <2>1. worker[j] \notin {"none", "done"}
    BY <1>1 DEF Execute, BeginWrite, WriteReturns, Confirm, Complete, Settle, FinishTarget,
       CheckSuperseded, Finish, Exit
  <2>2. \E where : Goes(j, where)
    BY <1>1 DEF Execute, BeginWrite, WriteReturns, Confirm, Complete, Settle, FinishTarget,
       CheckSuperseded, Superseded, Finish, Exit
  <2> QED
    BY <1>t, <2>1, <2>2
<1>2. ASSUME NEW j \in Calls, Finalize(j) \/ Outside(j) PROVE worker'[i] = worker[i]
  BY <1>2 DEF Finalize, Outside, Disconnect, Intervene, Expire
<1>3. CASE StopService \/ Close \/ WaitReturns \/ UNCHANGED vars
  BY <1>3 DEF StopService, Close, WaitReturns, vars
<1>4. ASSUME NEW j \in Calls, Submit(j), ~Admit(j) PROVE worker'[i] = worker[i]
  BY <1>4 DEF Submit, Lookup, EnterPriority, WaitGate, EnterOrdinary, Leave, Validate,
     ReadActive, Revoke, AwaitDone, Reread, Prepare, CheckClosing, HandoffFailed
<1>5. ASSUME NEW j \in Calls, Admit(j)
      PROVE  /\ Admit(i) /\ Admissible(i) /\ Admitted(i)
             /\ worker'[i] = "ready" /\ run' = i /\ revision' = [revision EXCEPT ![i] = 1]
  BY <1>5, <1>t DEF Admit
<1> QED
  BY <1>1, <1>2, <1>3, <1>4, <1>5 DEF Next

(* Every step keeps workers starting under the mutex, before Close.        *)
LEMMA StepMutex ==
  ASSUME Types, MutexInv, [Next]_vars
  PROVE  MutexInv'
<1> USE DEF At, lane, service, calls, executions, journal
<1>t. pc \in [Calls -> Places] /\ None \notin Calls
  BY CommandAssumption DEF Types
<1>1. ASSUME NEW s \in Calls, CheckClosing(s) PROVE MutexInv'
  BY <1>1, <1>t DEF CheckClosing, MutexInv
<1>2. ASSUME NEW s \in Calls, Admit(s) PROVE MutexInv'
  BY <1>2, <1>t DEF Admit, MutexInv
<1>3. ASSUME NEW s \in Calls, NEW where, At(s, where), where # "admit",
             UNCHANGED <<lifecycle, closing, closed>>
      PROVE  MutexInv'
  BY <1>3, <1>t DEF MutexInv
<1>4. ASSUME NEW s \in Calls, Submit(s) PROVE MutexInv'
  <2>1. CASE Lookup(s) \/ EnterPriority(s) \/ WaitGate(s) \/ EnterOrdinary(s) \/ Leave(s)
    BY <1>3, <2>1 DEF Lookup, EnterPriority, WaitGate, EnterOrdinary, Leave
  <2>2. CASE Validate(s) \/ ReadActive(s) \/ Revoke(s) \/ AwaitDone(s)
    BY <1>3, <2>2 DEF Validate, ReadActive, Revoke, AwaitDone
  <2>3. CASE Reread(s) \/ Prepare(s) \/ HandoffFailed(s)
    BY <1>3, <2>3 DEF Reread, Prepare, HandoffFailed
  <2> QED
    BY <1>1, <1>2, <1>4, <2>1, <2>2, <2>3 DEF Submit
<1>5. ASSUME UNCHANGED <<pc, lifecycle, closing>>, closed' => closing
      PROVE  MutexInv'
  BY <1>5 DEF MutexInv
<1>6. ASSUME NEW i \in Calls, Execute(i) \/ Finalize(i) \/ Outside(i) PROVE MutexInv'
  <2>1. UNCHANGED <<pc, lifecycle, closing, closed>>
    BY <1>6 DEF Execute, BeginWrite, WriteReturns, Confirm, Complete, Settle, FinishTarget,
       CheckSuperseded, Finish, Exit, Finalize, Outside, Disconnect, Intervene, Expire
  <2> QED
    BY <1>5, <2>1 DEF MutexInv
<1>7. CASE StopService \/ WaitReturns \/ UNCHANGED vars
  <2>1. UNCHANGED <<pc, lifecycle, closing>> /\ (closed' = closed \/ closing)
    BY <1>7 DEF StopService, WaitReturns, vars
  <2>2. (closed' = closed) => (closed' => closing)
    BY DEF MutexInv
  <2> QED
    BY <1>5, <2>1, <2>2
<1>8. CASE Close
  BY <1>8 DEF Close, MutexInv
<1> QED
  BY <1>4, <1>6, <1>7, <1>8 DEF Next

(* With the mutex free for good no worker and no finalizer starts.         *)
LEMMA StepClosed ==
  ASSUME Types, MutexInv, NothingAfterClose, [Next]_vars
  PROVE  NothingAfterClose'
<1> USE DEF At, lane, service, calls, executions, journal
<1>1. CASE closed
  <2>1. closing /\ Joined /\ lifecycle = None /\ \A s \in Calls : pc[s] # "admit"
    BY <1>1, CommandAssumption DEF MutexInv, NothingAfterClose
  <2>2. \A i \in Calls : worker'[i] = worker[i]
    BY <2>1, WorkerStarts DEF Joined, Admit
  <2>3. finals = {}
    BY <2>1 DEF Joined
  <2>4. ASSUME NEW s \in Calls, Submit(s) PROVE finals' = finals
    BY <2>1, <2>4 DEF Submit, Lookup, EnterPriority, WaitGate, EnterOrdinary, Leave, Validate,
       ReadActive, Revoke, AwaitDone, Reread, Prepare, CheckClosing, Admit, HandoffFailed,
       FinishOrphan
  <2>5. ASSUME NEW i \in Calls, Execute(i) PROVE finals' = finals
    BY <2>1, <2>5 DEF Execute, BeginWrite, WriteReturns, Confirm, Complete, Settle,
       FinishTarget, CheckSuperseded, Superseded, Finish, Exit, FinishOrphan
  <2>6. ASSUME NEW i \in Calls, Finalize(i) \/ Outside(i) PROVE finals' = finals
    BY <2>3, <2>6 DEF Finalize, Outside, Disconnect, Intervene, Expire
  <2>7. finals' = {}
    BY <2>3, <2>4, <2>5, <2>6 DEF Next, StopService, Close, WaitReturns, vars
  <2> QED
    BY <2>1, <2>2, <2>7 DEF NothingAfterClose, Joined
<1>2. CASE ~closed
  <2>1. ASSUME NEW i \in Calls, Submit(i) \/ Execute(i) \/ Finalize(i) \/ Outside(i)
        PROVE  closed' = closed
    BY <2>1 DEF Submit, Lookup, EnterPriority, WaitGate, EnterOrdinary, Leave, Validate,
       ReadActive, Revoke, AwaitDone, Reread, Prepare, CheckClosing, Admit, HandoffFailed,
       Execute, BeginWrite, WriteReturns, Confirm, Complete, Settle, FinishTarget,
       CheckSuperseded, Finish, Exit, Finalize, Outside, Disconnect, Intervene, Expire
  <2>2. CASE WaitReturns
    BY <2>2 DEF WaitReturns, NothingAfterClose, Joined
  <2> QED
    BY <1>2, <2>1, <2>2 DEF Next, StopService, Close, vars, NothingAfterClose
<1> QED
  BY <1>1, <1>2
-----------------------------------------------------------------------------
(* Rows.                                                                   *)

(* Coordinator.transition and persistByID change one row, which was there. *)
LEMMA TransitionRows ==
  ASSUME Types, NEW i \in Calls, NEW state \in {"running"} \cup Terminal, Transition(i, state)
  PROVE  /\ row'[i] \in Row /\ row'[i].state = state /\ row'[i].revision = row[i].revision + 1
         /\ \A j \in Calls : j # i => row'[j] = row[j]
         /\ holder' \in {None, holder}
<1>1. row[i] # None
  BY DEF Transition, Current, Open
<1>2. row' = [row EXCEPT ![i].state = state, ![i].revision = @ + 1]
  BY DEF Transition
<1>3. holder' \in {None, holder}
  BY DEF Transition
<1> QED
  BY <1>1, <1>2, <1>3, RowTypes

(* A stored end changes its own row and, at most, frees the device.        *)
LEMMA PersistRows ==
  ASSUME Types, NEW i \in Calls, NEW state \in Terminal, PersistByID(i, state)
  PROVE  /\ \A j \in Calls : j # i => row'[j] = row[j]
         /\ row[i] # None => row'[i] # None
         /\ holder' \in {None, holder}
         /\ holder # i => holder' = holder
<1>1. CASE Open(i) /\ row' = [row EXCEPT ![i].state = state, ![i].revision = @ + 1]
  <2>1. row[i] # None
    BY <1>1 DEF Open
  <2>2. row'[i] \in Row /\ \A j \in Calls : j # i => row'[j] = row[j]
    <3>1. state \in {"running"} \cup Terminal
      OBVIOUS
    <3> QED
      BY <1>1, <2>1, <3>1, RowTypes
  <2> QED
    BY <2>2, NoneAssumption DEF PersistByID
<1>2. CASE UNCHANGED <<row, holder>>
  BY <1>2
<1> QED
  BY <1>1, <1>2 DEF PersistByID

(* How the journal's tables, the finalizers and the calls' locals change.  *)
LEMMA JournalStep ==
  ASSUME Types, Decided, [Next]_vars
  PROVE  \/ UNCHANGED <<row, holder>>
         \/ \E s \in Calls : Admit(s) /\ Admissible(s) /\ Admitted(s)
         \/ \E i \in Calls : BeginWrite(i) /\ Transition(i, "running")
         \/ \E i \in Calls : worker[i] = "commit" /\ final[i] \in Terminal /\ Finish(i)
                            /\ Transition(i, final[i])
         \/ \E c, i \in Calls : \E state \in Terminal :
              FinishTarget(c) /\ Targets(c, i) /\ PersistByID(i, state)
         \/ \E i \in finals : Finalize(i) /\ PersistByID(i, "uncertain")
<1> USE DEF lane, service, calls, executions, journal
<1>1. ASSUME NEW s \in Calls, Submit(s)
      PROVE  UNCHANGED <<row, holder>> \/ (Admit(s) /\ Admissible(s) /\ Admitted(s))
  BY <1>1 DEF Submit, Lookup, EnterPriority, WaitGate, EnterOrdinary, Leave, Validate, ReadActive,
     Revoke, AwaitDone, Reread, Prepare, CheckClosing, Admit, HandoffFailed
<1>2. ASSUME NEW i \in Calls, FinishTarget(i)
      PROVE  \E t \in Calls : \E state \in Terminal : Targets(i, t) /\ PersistByID(t, state)
  <2>1. Command[i].kind = "cancel" /\ final[i] \in Terminal
    BY <1>2 DEF FinishTarget, Decided, Deciding
  <2>2. Command[i].target \in Calls
    BY <2>1, CommandAssumption
  <2>3. (IF final[i] = "succeeded" THEN "cancelled" ELSE final[i]) \in Terminal
    BY <2>1 DEF Terminal
  <2> QED
    BY <1>2, <2>1, <2>2, <2>3 DEF FinishTarget, Targets
<1>3. ASSUME NEW i \in Calls, Finish(i)
      PROVE  UNCHANGED <<row, holder>>
             \/ (worker[i] = "commit" /\ final[i] \in Terminal /\ Transition(i, final[i]))
  BY <1>3 DEF Finish, Decided, Deciding
<1>4. ASSUME NEW i \in Calls, BeginWrite(i)
      PROVE  UNCHANGED <<row, holder>> \/ Transition(i, "running")
  BY <1>4 DEF BeginWrite
<1>5. ASSUME NEW i \in Calls, WriteReturns(i) \/ Confirm(i) \/ Complete(i) \/ Settle(i)
                              \/ CheckSuperseded(i) \/ Exit(i) \/ Outside(i)
      PROVE  UNCHANGED <<row, holder>>
  BY <1>5 DEF WriteReturns, Confirm, Complete, Settle, CheckSuperseded, Exit, Outside, Disconnect,
     Intervene, Expire
<1>6. ASSUME NEW i \in Calls, Finalize(i)
      PROVE  i \in finals /\ PersistByID(i, "uncertain")
  BY <1>6 DEF Finalize
<1>7. CASE StopService \/ Close \/ WaitReturns \/ UNCHANGED vars
  BY <1>7 DEF StopService, Close, WaitReturns, vars
<1> QED
  BY <1>1, <1>2, <1>3, <1>4, <1>5, <1>6, <1>7 DEF Next, Execute

(* An operation becomes final only as an orphan of a takeover or by a      *)
(* worker that has ended for it.                                           *)
LEMMA FinalsStep ==
  ASSUME Types, [Next]_vars, NEW i \in finals', i \notin finals
  PROVE  \/ \E s \in Calls : pc[s] = "orphan" /\ old[s] # None /\ i = old[s]
         \/ \E c \in Calls : worker[c] \in {"ended", "finish"} /\ Targets(c, i)
<1> USE DEF lane, service, calls, executions, journal
<1>1. ASSUME NEW s \in Calls, Submit(s) PROVE pc[s] = "orphan" /\ old[s] # None /\ i = old[s]
  BY <1>1 DEF Submit, Lookup, EnterPriority, WaitGate, EnterOrdinary, Leave, Validate, ReadActive,
     Revoke, AwaitDone, Reread, Prepare, CheckClosing, Admit, HandoffFailed, FinishOrphan
<1>2. ASSUME NEW c \in Calls, Execute(c)
      PROVE  worker[c] \in {"ended", "finish"} /\ Targets(c, i)
  BY <1>2 DEF Execute, BeginWrite, WriteReturns, Confirm, Complete, Settle, FinishTarget,
     CheckSuperseded, Superseded, Finish, Exit, FinishOrphan, Targets
<1> QED
  BY <1>1, <1>2 DEF Next, Finalize, Outside, Disconnect, Intervene, Expire, StopService, Close,
     WaitReturns, vars

(* Only its own step moves a call.                                         *)
LEMMA CallStep ==
  ASSUME Types, [Next]_vars, NEW s \in Calls
  PROVE  (pc'[s] = pc[s] /\ old'[s] = old[s] /\ previous'[s] = previous[s]) \/ Submit(s)
<1> USE DEF At, lane, service, calls, executions, journal
<1>t. /\ pc \in [Calls -> Places] /\ old \in [Calls -> Calls \cup {None}]
      /\ previous \in [Calls -> Calls \cup {None}]
  BY DEF Types
<1>1. ASSUME NEW t \in Calls, t # s, Submit(t)
      PROVE  pc'[s] = pc[s] /\ old'[s] = old[s] /\ previous'[s] = previous[s]
  BY <1>1, <1>t DEF Submit, Lookup, EnterPriority, WaitGate, EnterOrdinary, Leave, Validate,
     ReadActive, Revoke, AwaitDone, Reread, Prepare, CheckClosing, Admit, HandoffFailed
<1>2. ASSUME NEW i \in Calls, Execute(i) \/ Finalize(i) \/ Outside(i)
      PROVE  UNCHANGED <<pc, old, previous>>
  BY <1>2 DEF Execute, BeginWrite, WriteReturns, Confirm, Complete, Settle, FinishTarget,
     CheckSuperseded, Finish, Exit, Finalize, Outside, Disconnect, Intervene, Expire
<1> QED
  BY <1>1, <1>2 DEF Next, StopService, Close, WaitReturns, vars

(* A stored operation stays stored.                                        *)
LEMMA RowsStay ==
  ASSUME Types, Decided, [Next]_vars, NEW i \in Calls, row[i] # None
  PROVE  row'[i] # None
<1>1. ASSUME NEW s \in Calls, Admissible(s), Admitted(s) PROVE row'[i] # None
  <2>1. i # None
    BY CommandAssumption
  <2>2. CASE i \notin {s, old[s]}
    BY <1>1, <2>2, AdmittedRows
  <2>3. CASE i = s \/ i = old[s]
    BY <1>1, <2>1, <2>3, AdmittedRows, NoneAssumption
  <2> QED
    BY <2>2, <2>3
<1>2. ASSUME NEW j \in Calls, NEW state \in {"running"} \cup Terminal, Transition(j, state)
      PROVE  row'[i] # None
  BY <1>2, TransitionRows, NoneAssumption
<1>3. ASSUME NEW j \in Calls, NEW state \in Terminal, PersistByID(j, state) PROVE row'[i] # None
  BY <1>3, PersistRows
<1>4. finals \subseteq Calls /\ "uncertain" \in Terminal
  BY DEF Types, Terminal
<1> QED
  BY <1>1, <1>2, <1>3, <1>4, JournalStep

(* Every step keeps a row for whoever is spoken of.                        *)
LEMMA StepRow ==
  ASSUME Types, Decided, RowInv, [Next]_vars
  PROVE  RowInv'
<1>t. Types'
  BY StepTypes
<1>1. ASSUME holder' # None PROVE row'[holder'] # None
  <2>1. CASE \E s \in Calls : Admissible(s) /\ Admitted(s)
    BY <2>1, AdmittedRows, NoneAssumption
  <2>2. CASE holder' \in {None, holder}
    BY <1>1, <1>t, <2>2, RowsStay DEF RowInv, Types
  <2>3. "uncertain" \in Terminal /\ finals \subseteq Calls
    BY DEF Types, Terminal
  <2> QED
    BY <2>1, <2>2, <2>3, JournalStep, TransitionRows, PersistRows
<1>2. ASSUME NEW i \in finals' PROVE row'[i] # None
  <2>1. i \in Calls
    BY <1>t DEF Types
  <2>2. row[i] # None
    BY <2>1, FinalsStep DEF RowInv
  <2> QED
    BY <2>1, <2>2, RowsStay
<1>3. ASSUME NEW i \in Calls, worker'[i] # "none" PROVE row'[i] # None
  <2>1. CASE worker[i] = "none"
    BY <1>3, <2>1, WorkerStarts, AdmittedRows, NoneAssumption
  <2>2. CASE worker[i] # "none"
    BY <2>2, RowsStay DEF RowInv
  <2> QED
    BY <2>1, <2>2
<1>4. ASSUME NEW s \in Calls, old'[s] # None PROVE row'[old'[s]] # None
  <2>1. old'[s] \in {None, old[s], holder}
    <3>1. ASSUME Submit(s) PROVE old'[s] \in {None, old[s], holder}
      <4>1. old \in [Calls -> Calls \cup {None}]
        BY DEF Types
      <4> QED
        BY <3>1, <4>1 DEF Submit, Lookup, EnterPriority, WaitGate, EnterOrdinary, Leave, Validate,
           ReadActive, Revoke, AwaitDone, Reread, Prepare, CheckClosing, Admit, HandoffFailed,
           calls
    <3> QED
      BY <3>1, CallStep
  <2>2. old'[s] \in Calls
    BY <1>4, <1>t DEF Types
  <2> QED
    BY <1>4, <2>1, <2>2, RowsStay DEF RowInv
<1>5. ASSUME NEW c \in Calls, NEW i \in Calls, Targets(c, i), pc'[c] # "new" \/ worker'[c] # "none"
      PROVE  row'[i] # None
  <2>1. CASE pc[c] # "new" \/ worker[c] # "none"
    BY <1>5, <2>1, RowsStay DEF RowInv
  <2>2. CASE pc[c] = "new" /\ worker[c] = "none"
    <3>1. worker'[c] = "none"
      BY <2>2, WorkerStarts DEF Admit
    <3>2. Lookup(c)
      BY <1>5, <2>2, <3>1, CallStep DEF Submit, EnterPriority, WaitGate, EnterOrdinary, Leave,
         Validate, ReadActive, Revoke, AwaitDone, Reread, Prepare, CheckClosing, Admit,
         HandoffFailed
    <3>3. row[i] # None
      BY <1>5, <3>2 DEF Lookup, Targets
    <3> QED
      BY <3>3, RowsStay
  <2> QED
    BY <2>1, <2>2
<1> QED
  BY <1>1, <1>2, <1>3, <1>4, <1>5 DEF RowInv, Targets
-----------------------------------------------------------------------------
(* One writer.                                                             *)

(* Only an admission makes a worker that was not working work.             *)
LEMMA WorkingBefore ==
  ASSUME Types, RowInv, [Next]_vars, NEW i \in Calls, worker'[i] \in Working,
         worker[i] \notin {"none", "done"}
  PROVE  worker[i] \in Working
<1> USE DEF Goes, lane, service, calls, executions, journal
<1>t. worker \in [Calls -> Workers]
  BY DEF Types
<1>1. ASSUME NEW j \in Calls, Execute(j), j # i PROVE worker'[i] = worker[i]
  <2>1. \E where : Goes(j, where)
    BY <1>1 DEF Execute, BeginWrite, WriteReturns, Confirm, Complete, Settle, FinishTarget,
       CheckSuperseded, Superseded, Finish, Exit
  <2> QED
    BY <1>1, <1>t, <2>1
<1>2. CASE BeginWrite(i) \/ WriteReturns(i) \/ Confirm(i) \/ Complete(i)
  BY <1>2 DEF BeginWrite, WriteReturns, Confirm, Complete, Working
<1>3. CASE Settle(i) \/ FinishTarget(i) \/ CheckSuperseded(i) \/ Finish(i) \/ Exit(i)
  BY <1>3, <1>t DEF Settle, FinishTarget, CheckSuperseded, Superseded, Finish, Exit, Working
<1>4. ASSUME NEW j \in Calls, Admit(j) PROVE worker'[i] = worker[i] \/ j = i
  BY <1>4, <1>t DEF Admit
<1>5. CASE Admit(i)
  <2>1. ~Admissible(i)
    BY DEF Admissible, Found, RowInv
  <2> QED
    BY <1>5, <2>1 DEF Admit
<1>6. ASSUME NEW j \in Calls, Finalize(j) \/ Outside(j) PROVE worker'[i] = worker[i]
  BY <1>6 DEF Finalize, Outside, Disconnect, Intervene, Expire
<1>7. CASE StopService \/ Close \/ WaitReturns \/ UNCHANGED vars
  BY <1>7 DEF StopService, Close, WaitReturns, vars
<1>8. ASSUME NEW j \in Calls, Submit(j), ~Admit(j) PROVE worker'[i] = worker[i]
  BY <1>8 DEF Submit, Lookup, EnterPriority, WaitGate, EnterOrdinary, Leave, Validate,
     ReadActive, Revoke, AwaitDone, Reread, Prepare, CheckClosing, HandoffFailed
<1> QED
  BY <1>1, <1>2, <1>3, <1>4, <1>5, <1>6, <1>7, <1>8 DEF Next, Execute

(* A stored operation whose worker does not work never gets a working one. *)
LEMMA StaysQuiet ==
  ASSUME Types, RowInv, [Next]_vars, NEW i \in Calls, row[i] # None, worker[i] \notin Working
  PROVE  worker'[i] \notin Working
<1>1. ~Admissible(i)
  BY DEF Admissible, Found
<1>2. CASE worker[i] \in {"none", "done"}
  BY <1>1, <1>2, WorkerStarts
<1>3. CASE worker[i] \notin {"none", "done"}
  BY <1>3, WorkingBefore
<1> QED
  BY <1>2, <1>3

(* The lane's operation and its revision change with its own steps, and    *)
(* with an admission.                                                      *)
LEMMA RunStep ==
  ASSUME Types, [Next]_vars, NEW i \in Calls, worker[i] \in Working, run = i
  PROVE  \/ \E s \in Calls : Admit(s) /\ Admissible(s) /\ Admitted(s)
         \/ /\ run' = i
            /\ (BeginWrite(i) /\ Transition(i, "running")) \/ revision'[i] = revision[i]
<1> USE DEF Goes, lane, service, calls, executions, journal
<1>t. revision \in [Calls -> Nat]
  BY DEF Types
<1>1. ASSUME NEW s \in Calls, Submit(s)
      PROVE  (Admit(s) /\ Admissible(s) /\ Admitted(s)) \/ UNCHANGED <<run, revision>>
  BY <1>1 DEF Submit, Lookup, EnterPriority, WaitGate, EnterOrdinary, Leave, Validate, ReadActive,
     Revoke, AwaitDone, Reread, Prepare, CheckClosing, Admit, HandoffFailed
<1>2. ASSUME NEW j \in Calls, BeginWrite(j) \/ Finish(j) \/ Exit(j), j # i
      PROVE  run' = i /\ revision'[i] = revision[i]
  BY <1>2, <1>t DEF BeginWrite, Finish, Exit, Transition
<1>3. CASE BeginWrite(i) \/ Finish(i) \/ Exit(i)
  BY <1>3 DEF BeginWrite, Finish, Exit, Working
<1>4. ASSUME NEW j \in Calls, WriteReturns(j) \/ Confirm(j) \/ Complete(j) \/ Settle(j)
               \/ FinishTarget(j) \/ CheckSuperseded(j) \/ Finalize(j) \/ Outside(j)
      PROVE  UNCHANGED <<run, revision>>
  BY <1>4 DEF WriteReturns, Confirm, Complete, Settle, FinishTarget, CheckSuperseded, Finalize,
     Outside, Disconnect, Intervene, Expire
<1>5. CASE StopService \/ Close \/ WaitReturns \/ UNCHANGED vars
  BY <1>5 DEF StopService, Close, WaitReturns, vars
<1> QED
  BY <1>1, <1>2, <1>3, <1>4, <1>5 DEF Next, Execute

(* Every step keeps the device with the operation whose worker writes.     *)
LEMMA StepWriter ==
  ASSUME Types, Decided, RowInv, WriterInv, RevokedInv, [Next]_vars
  PROVE  WriterInv'
<1> SUFFICES ASSUME NEW i \in Calls, worker'[i] \in Working
             PROVE  run' = i /\ holder' = i /\ Current(i)'
  BY DEF WriterInv
<1>1. CASE worker[i] \in {"none", "done"}
  <2>1. /\ Admissible(i) /\ Admitted(i) /\ run' = i /\ revision' = [revision EXCEPT ![i] = 1]
    BY <1>1, WorkerStarts DEF Working
  <2>2. /\ holder' = i
        /\ row'[i] = [state |-> "accepted", cancelling |-> FALSE, revision |-> 1]
        /\ row'[i] # None
    BY <2>1, AdmittedRows, NoneAssumption
  <2>3. revision'[i] = 1
    BY <2>1 DEF Types
  <2>4. row'[i].state = "accepted" /\ row'[i].revision = 1
    BY <2>2, SMTT(30)
  <2> QED
    BY <2>1, <2>2, <2>3, <2>4 DEF Current, Open, Terminal
<1>2. CASE worker[i] \notin {"none", "done"}
  <2>1. worker[i] \in Working /\ run = i /\ holder = i /\ Current(i)
    BY <1>2, WorkingBefore DEF WriterInv
  <2>2. ~\E s \in Calls : Admit(s) /\ Admissible(s) /\ Admitted(s)
    BY <2>1, CommandAssumption DEF Admit, Admissible, RevokedInv, Handoff
  <2>3. run' = i /\ ((BeginWrite(i) /\ Transition(i, "running")) \/ revision'[i] = revision[i])
    BY <2>1, <2>2, RunStep
  <2>4. ASSUME holder' = holder, row'[i] = row[i], revision'[i] = revision[i]
        PROVE  holder' = i /\ Current(i)'
    BY <2>1, <2>4 DEF Current, Open
  <2>5. CASE BeginWrite(i) /\ Transition(i, "running")
    <3>1. row'[i] \in Row /\ row'[i].state = "running" /\ row'[i].revision = row[i].revision + 1
      BY <2>5, TransitionRows
    <3>2. holder' = holder
      BY <2>5 DEF Transition, Terminal
    <3>3. revision'[i] = revision[i] + 1
      BY <2>5 DEF Transition, Types
    <3> QED
      BY <2>1, <2>3, <3>1, <3>2, <3>3, NoneAssumption DEF Current, Open, Terminal
  <2>6. CASE ~(BeginWrite(i) /\ Transition(i, "running"))
    <3>1. ASSUME NEW j \in Calls, j # i, NEW state \in {"running"} \cup Terminal, Transition(j, state)
          PROVE  holder' = holder /\ row'[i] = row[i]
      BY <2>1, <3>1, TransitionRows DEF Transition
    <3>2. ASSUME NEW j \in Calls, NEW state \in Terminal, PersistByID(j, state),
                 worker[j] \notin Working
          PROVE  holder' = holder /\ row'[i] = row[i]
      BY <2>1, <3>2, PersistRows
    <3>3. ASSUME NEW j \in Calls, BeginWrite(j), Transition(j, "running") PROVE FALSE
      <4>1. worker[j] \in Working
        BY <3>3 DEF BeginWrite, Working
      <4> QED
        BY <2>1, <2>6, <3>3, <4>1 DEF WriterInv
    <3>4. ASSUME NEW c \in Calls, NEW j \in Calls, FinishTarget(c), Targets(c, j)
          PROVE  worker[j] \notin Working
      BY <3>4 DEF FinishTarget, RevokedInv
    <3>5. finals \subseteq Calls /\ "uncertain" \in Terminal
      BY DEF Types, Terminal
    <3>6. worker[i] # "commit" /\ \A j \in finals : worker[j] \notin Working
      BY <2>1 DEF Working, RevokedInv
    <3>7. holder' = holder /\ row'[i] = row[i]
      BY <2>2, <3>1, <3>2, <3>3, <3>4, <3>5, <3>6, JournalStep
    <3> QED
      BY <2>3, <2>4, <2>6, <3>7
  <2> QED
    BY <2>3, <2>5, <2>6
<1> QED
  BY <1>1, <1>2

(* Every step keeps the workers ended that someone relies on having ended. *)
LEMMA StepRevoked ==
  ASSUME Types, Decided, RowInv, WriterInv, RevokedInv, [Next]_vars
  PROVE  RevokedInv'
<1>t. Types' /\ old \in [Calls -> Calls \cup {None}] /\ previous \in [Calls -> Calls \cup {None}]
      /\ pc \in [Calls -> Places]
  BY StepTypes DEF Types
<1>1. ASSUME NEW s \in Calls, pc'[s] = "await" PROVE old'[s] # None /\ previous'[s] = old'[s]
  <2>1. CASE Submit(s)
    <3>1. Revoke(s)
      BY <1>1, <1>t, <2>1 DEF Submit, At, Lookup, EnterPriority, WaitGate, EnterOrdinary, Leave,
         Validate, ReadActive, AwaitDone, Reread, Prepare, CheckClosing, Admit, HandoffFailed
    <3> QED
      BY <1>1, <1>t, <3>1 DEF Revoke, At
  <2> QED
    BY <1>1, <2>1, CallStep DEF RevokedInv
<1>2. ASSUME NEW s \in Calls, pc'[s] \in Handoff, old'[s] # None
      PROVE  worker'[old'[s]] \notin Working
  <2>1. old'[s] = old[s] /\ worker[old[s]] \notin Working
    <3>1. CASE Submit(s) /\ pc[s] \in Handoff
      <4>1. Reread(s) \/ Prepare(s) \/ CheckClosing(s) \/ Admit(s) \/ HandoffFailed(s)
        BY <3>1 DEF Submit, Lookup, EnterPriority, WaitGate, EnterOrdinary, Leave, Validate,
           ReadActive, Revoke, AwaitDone, Handoff
      <4>2. old'[s] \in {None, old[s]}
        BY <1>t, <4>1 DEF Reread, Prepare, CheckClosing, Admit, HandoffFailed
      <4> QED
        BY <1>2, <3>1, <4>2 DEF RevokedInv
    <3>2. CASE Submit(s) /\ pc[s] \notin Handoff
      <4>1. Revoke(s) \/ AwaitDone(s)
        BY <1>2, <1>t, <3>2 DEF Submit, At, Lookup, EnterPriority, WaitGate, EnterOrdinary, Leave,
           Validate, ReadActive, Reread, Prepare, CheckClosing, Admit, HandoffFailed, Handoff
      <4>2. CASE Revoke(s)
        <5>1. old'[s] = old[s] /\ old[s] # run
          BY <1>2, <1>t, <4>2 DEF Revoke, At, Handoff
        <5> QED
          BY <1>2, <1>t, <5>1 DEF WriterInv
      <4>3. CASE AwaitDone(s)
        BY <1>2, <1>t, <4>3 DEF AwaitDone, At, Handoff, RevokedInv, Working
      <4> QED
        BY <4>1, <4>2, <4>3
    <3> QED
      BY <1>2, <3>1, <3>2, CallStep DEF RevokedInv
  <2>2. old[s] \in Calls /\ row[old[s]] # None
    BY <1>2, <1>t, <2>1 DEF RowInv
  <2> QED
    BY <2>1, <2>2, StaysQuiet
<1>3. ASSUME NEW i \in finals' PROVE worker'[i] \notin Working
  <2>1. i \in Calls
    BY <1>t DEF Types
  <2>2. worker[i] \notin Working /\ row[i] # None
    BY <2>1, FinalsStep DEF RowInv, RevokedInv, Handoff
  <2> QED
    BY <2>1, <2>2, StaysQuiet
<1>4. ASSUME NEW c \in Calls, NEW i \in Calls, Targets(c, i), worker'[c] # "none"
      PROVE  worker'[i] \notin Working
  <2>1. CASE worker[c] # "none"
    BY <1>4, <2>1, StaysQuiet DEF RowInv, RevokedInv
  <2>2. CASE worker[c] = "none"
    <3>1. pc[c] = "admit" /\ holder = old[c]
      BY <1>4, <2>2, WorkerStarts DEF Admit, Admissible
    <3>2. worker[i] \notin Working
      BY <3>1, CommandAssumption DEF WriterInv, RevokedInv, Handoff
    <3> QED
      BY <1>4, <3>1, <3>2, StaysQuiet DEF RowInv
  <2> QED
    BY <2>1, <2>2
<1> QED
  BY <1>1, <1>2, <1>3, <1>4 DEF RevokedInv, Targets
-----------------------------------------------------------------------------
(* The theorems.                                                           *)

(* The invariant holds when the service has started.                       *)
LEMMA InitInv == Init => Inv
<1> SUFFICES ASSUME Init PROVE Inv
  OBVIOUS
<1>1. Types
  BY DEF Init, Types, Places, Inside, Handoff, Workers, Working, Deciding
<1>2. \A i \in Calls : pc[i] = "new" /\ worker[i] = "none" /\ old[i] = None
  BY DEF Init
<1>3. Decided /\ GateInv /\ WriterInv
  BY <1>2 DEF Decided, Deciding, GateInv, Inside, Handoff, WriterInv, Working
<1>4. MutexInv /\ NothingAfterClose
  BY <1>2 DEF Init, MutexInv, NothingAfterClose
<1>5. RowInv /\ RevokedInv
  BY <1>2 DEF Init, RowInv, RevokedInv, Handoff
<1> QED
  BY <1>1, <1>3, <1>4, <1>5 DEF Inv

(* The inductive invariant.                                                *)
THEOREM Invariance == Spec => []Inv
<1>1. Inv /\ [Next]_vars => Inv'
  BY StepTypes, StepDecided, StepGate, StepMutex, StepClosed, StepRow, StepWriter, StepRevoked
     DEF Inv
<1> QED
  BY InitInv, <1>1, PTL DEF Spec

(* Two operations never drive one device: a worker that may still write    *)
(* holds the reservation, with an open row at the revision it knows        *)
(* (Submit's wait for the revoked worker, and Admit's revision check).     *)
THEOREM WriterAlwaysOwnsDevice == Spec => []WriterOwnsDevice
<1>1. Inv => WriterOwnsDevice
  BY DEF Inv, WriterInv, WriterOwnsDevice
<1> QED
  BY Invariance, <1>1, PTL

(* Once Close has returned nothing runs and nothing starts.                *)
THEOREM NothingRunsAfterClose == Spec => []NothingAfterClose
<1>1. Inv => NothingAfterClose
  BY DEF Inv
<1> QED
  BY Invariance, <1>1, PTL

(* No ordinary admission begins its transaction while a stop or a          *)
(* cancellation is being admitted or carried out (lane.priority).          *)
THEOREM PriorityAlwaysFirst == Spec => PriorityFirst
<1> DEFINE A == \A s \in Calls :
      (pc[s] = "check" /\ pc'[s] = "admit" /\ ~Priority(s) /\ ~Takeover(s)) => raised = {}
<1>1. Inv /\ [Next]_vars => [A]_vars
  <2> SUFFICES ASSUME Inv, [Next]_vars, NEW s \in Calls, pc[s] = "check", pc'[s] = "admit",
                      ~Priority(s), ~Takeover(s)
               PROVE  raised = {}
    OBVIOUS
  <2>1. Submit(s)
    BY CallStep DEF Inv
  <2>2. CheckClosing(s)
    BY <2>1 DEF Submit, Lookup, EnterPriority, WaitGate, EnterOrdinary, Leave, Validate, ReadActive,
       Revoke, AwaitDone, Reread, Prepare, Admit, HandoffFailed
  <2>3. live[s]
    BY <2>2 DEF CheckClosing, At, Inv, Types
  <2> QED
    BY <2>3 DEF Inv, GateInv, Inside, Handoff
<1> QED
  BY Invariance, <1>1, PTL DEF Spec, PriorityFirst
=============================================================================
