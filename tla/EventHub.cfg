\* A history of two events, channels of one, three events an epoch, two epochs.
CONSTANTS
  operator = operator
  reader = reader
  None = None
  Clients = {operator, reader}
  Kinds = {"player_changed", "operation_changed"}
  Allow <- MCAllow
  Capacity = 2
  Buffer = 1
  MaxSubscriptions = 1
  MaxSeq = 3
  MaxEpoch = 1
SPECIFICATION FairSpec
\* The bounds on events and restarts leave a last state.
CHECK_DEADLOCK FALSE
INVARIANTS NothingSkipped
PROPERTIES Delivered
