----------------------------- MODULE MCTransport -----------------------------
(* Small instances of Transport for TLC.                                   *)
EXTENDS Transport, TLC

CONSTANTS p1, p2, r1

(* Writes go to one player; the first read may be for another one.         *)
MCTarget == [r \in Requests |-> IF r = r1 /\ p2 \in Players THEN p2 ELSE p1]

(* The writes differ in nothing but their names.                           *)
Symmetry == Permutations(Writes)
=============================================================================
