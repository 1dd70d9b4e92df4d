\* A playback whose write stays unconfirmed, its cancellation and a stop.
CONSTANTS
  play = play
  take = take
  cancel = cancel
  stop = stop
  None = None
  Calls = {play, cancel, stop}
  Command <- MCCommand
  Key <- MCKey
  Impatient = {}
  Failing = {}
  MayStop = FALSE
  MaxWrites = 1
SPECIFICATION Spec
\* Calls are finite in number, so every behaviour comes to rest.
CHECK_DEADLOCK FALSE
INVARIANTS DoubtRecorded

