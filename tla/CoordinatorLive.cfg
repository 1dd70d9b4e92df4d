\* A takeover and a stop, each of which may replace the other.
CONSTANTS
  play = play
  take = take
  cancel = cancel
  stop = stop
  None = None
  Calls = {take, stop}
  Command <- MCCommand
  Key <- MCKey
  Impatient = {}
  Failing = {"transition", "commit"}
  MayStop = FALSE
  MaxWrites = 1
SPECIFICATION FairSpec
\* Calls are finite in number, so every behaviour comes to rest.
CHECK_DEADLOCK FALSE

PROPERTIES Settles
