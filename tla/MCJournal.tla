------------------------------ MODULE MCJournal ------------------------------
(***************************************************************************)
(* The instance of Journal for TLC.                                        *)
(***************************************************************************)
EXTENDS JournalLedger, TLC

MCPrincipal == [k \in Keys |-> "alice"]
MCPlayer == CHOOSE f \in [Hashes -> Devices] : \A d \in Devices : \E h \in Hashes : f[h] = d

(* Requests are exchanged together with the devices they name.             *)
Requests == {f \in Permutations(Hashes \cup Devices) :
               \A h \in Hashes : f[h] \in Hashes /\ f[Player[h]] = Player[f[h]]}
Symmetry == Permutations(OpIds) \cup Permutations(Keys) \cup Permutations(Calls)
              \cup Permutations(Epochs) \cup Requests
=============================================================================
