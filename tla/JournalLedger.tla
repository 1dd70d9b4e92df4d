---------------------------- MODULE JournalLedger ----------------------------
(***************************************************************************)
(* The journal implements the ledger: a row is open until finished_at is   *)
(* set, the reservation table says who holds a device, and Created = true  *)
(* is the start.                                                           *)
(***************************************************************************)
EXTENDS Journal

Life(i) == IF ops[i] = None THEN "absent"
           ELSE IF ops[i].finished = None THEN "open" ELSE "finished"
life == [i \in OpIds |-> Life(i)]

L == INSTANCE Ledger WITH holder <- resv, started <- granted

(* Every transaction of the journal, and every outcome of a COMMIT whose   *)
(* acknowledgement was lost, is one step of the ledger or invisible in it. *)
LedgerImplemented == L!Spec
=============================================================================
