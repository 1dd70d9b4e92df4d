----------------------------- MODULE MCObserver -----------------------------
(* One player whose users change the volume, the media (which may move on  *)
(* before it is announced), the queue and the players of the house; every  *)
(* kind of command and every call of the coordinator.                      *)
EXTENDS Observer

MCChanges == {"volume", "media", "queue", "global", "silent"}
MCCommands == {"volume", "mode", "other"}
MCFronts == FrontCalls
=============================================================================
