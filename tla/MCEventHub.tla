----------------------------- MODULE MCEventHub -----------------------------
EXTENDS EventHub
(* One client that may see everything and one that may not.                *)
CONSTANTS operator, reader

MCAllow == [c \in Clients |-> IF c = operator THEN Kinds ELSE {"player_changed"}]
=============================================================================
