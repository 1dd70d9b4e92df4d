\* A playback, a takeover and a cancellation that preempts the takeover.
CONSTANTS
  play = play
  take = take
  cancel = cancel
  stop = stop
  None = None
  Calls = {play, take, cancel}
  Command <- MCCommand
  Key <- MCKey
  Impatient = {}
  Failing = {}
  MayStop = FALSE
  MaxWrites = 1
SPECIFICATION Spec
\* Calls are finite in number, so every behaviour comes to rest.
CHECK_DEADLOCK FALSE
INVARIANTS NoStrandedOperation

