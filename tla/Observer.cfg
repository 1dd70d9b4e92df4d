SPECIFICATION Spec
CONSTANTS
  None = None
  Changes <- MCChanges
  Commands <- MCCommands
  Fronts <- MCFronts
  Buffer = 2
  MaxStirs = 3
INVARIANTS
  VerifiedCurrent
  WriteSettled
  PlayheadNotOlder
  Attended
CHECK_DEADLOCK FALSE
