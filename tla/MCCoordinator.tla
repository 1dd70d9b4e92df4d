---------------------------- MODULE MCCoordinator ----------------------------
EXTENDS Coordinator
(* Calls of the runs: an ordinary playback, the cancellation of it, a      *)
(* stop, and a takeover.                                                   *)
CONSTANTS play, take, cancel, stop

Ordinary == [kind |-> "control", takeover |-> FALSE, expected |-> None, target |-> None,
             mode |-> "none"]
MCCommand == [s \in Calls |->
  CASE s = take -> [Ordinary EXCEPT !.takeover = TRUE]
    [] s = stop -> [Ordinary EXCEPT !.kind = "stop"]
    [] s = cancel -> [Ordinary EXCEPT !.kind = "cancel", !.target = play, !.mode = "stop_owned"]
    [] OTHER -> Ordinary]
MCKey == [s \in Calls |-> s]
=============================================================================
