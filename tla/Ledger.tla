-------------------------------- MODULE Ledger --------------------------------
(***************************************************************************)
(* What the journal promises to the rest of the service, without tables,   *)
(* epochs, transactions or clocks: operations are opened, end for good and *)
(* are forgotten later; a device is held by at most one operation, which   *)
(* is open; an operation is started at most once, while it is open.        *)
(***************************************************************************)
EXTENDS Integers

CONSTANTS OpIds, Devices, None

VARIABLES life,     \* operation -> "absent", "open" or "finished"
          holder,   \* device -> the operation that holds it
          started   \* operation -> how often somebody was told to start it
vars == <<life, holder, started>>

Init ==
  /\ life = [i \in OpIds |-> "absent"]
  /\ holder = [d \in Devices |-> None]
  /\ started = [i \in OpIds |-> 0]

(* Whoever opens an operation may be told at once to start it.             *)
MayStart(i) ==
  \/ UNCHANGED started
  \/ started[i] = 0 /\ started' = [started EXCEPT ![i] = 1]

(* An operation takes a free device; takes it from its holder, which ends  *)
(* or is left to be cancelled; or joins the holder as its child.           *)
Reserve(i, d) ==
  /\ life[i] = "absent" /\ holder[d] = None
  /\ life' = [life EXCEPT ![i] = "open"]
  /\ holder' = [holder EXCEPT ![d] = i]
  /\ MayStart(i)
HandOver(i, d) ==
  /\ life[i] = "absent" /\ holder[d] # None
  /\ \E last \in {"open", "finished"} :
       life' = [j \in OpIds |-> IF j = i THEN "open"
                               ELSE IF j = holder[d] THEN last ELSE life[j]]
  /\ holder' = [holder EXCEPT ![d] = i]
  /\ MayStart(i)
Join(i, d) ==
  /\ life[i] = "absent" /\ holder[d] # None
  /\ life' = [life EXCEPT ![i] = "open"]
  /\ UNCHANGED holder
  /\ MayStart(i)

(* The start is granted later, when a lost acknowledgement was resolved.   *)
Start(i) ==
  /\ life[i] = "open" /\ started[i] = 0
  /\ started' = [started EXCEPT ![i] = 1]
  /\ UNCHANGED <<life, holder>>

(* Operations end, together with what they hold; later they are forgotten. *)
End(S) ==
  /\ \A i \in S : life[i] = "open"
  /\ life' = [i \in OpIds |-> IF i \in S THEN "finished" ELSE life[i]]
  /\ holder' = [d \in Devices |-> IF holder[d] \in S THEN None ELSE holder[d]]
  /\ UNCHANGED started
Forget(S) ==
  /\ \A i \in S : life[i] = "finished"
  /\ life' = [i \in OpIds |-> IF i \in S THEN "absent" ELSE life[i]]
  /\ UNCHANGED <<holder, started>>

Next ==
  \/ \E i \in OpIds : Start(i) \/ \E d \in Devices : Reserve(i, d) \/ HandOver(i, d) \/ Join(i, d)
  \/ \E S \in SUBSET OpIds : End(S) \/ Forget(S)
Spec == Init /\ [][Next]_vars
=============================================================================
