\* A playback, the cancellation of it and a stop that overtakes both.
CONSTANTS
  play = play
  take = take
  cancel = cancel
  stop = stop
  None = None
  Calls = {play, cancel, stop}
  Command <- MCCommand
  Key <- MCKey
  Impatient = {play}
  Failing = {"admit", "transition"}
  MayStop = TRUE
  MaxWrites = 1
SPECIFICATION Spec
\* Calls are finite in number, so every behaviour comes to rest.
CHECK_DEADLOCK FALSE
INVARIANTS WriterOwnsDevice NoStrandedOperation NothingAfterClose
PROPERTIES PriorityFirst
