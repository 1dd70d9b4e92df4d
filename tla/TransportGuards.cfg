SPECIFICATION Spec
CONSTANTS
  p1 = p1 p2 = p2 r1 = r1
  Players = {p1, p2} MaxPlayers = 1
  Reads = {r1} Writes = {w1, w2} Urgent = {}
  Observing = {r1} Target <- MCTarget Sessions = {}
  QueueDepth = 1 PriorityDepth = 1
  None = None
  EventBuffer = 1 MaxDrain = 2 NoticeKinds = {"player"} MaxNotices = 2 MaxGeneration = 1 MayClose = FALSE
SYMMETRY Symmetry
CHECK_DEADLOCK FALSE
INVARIANTS GuardSpent DeliveryHonest
PROPERTIES GuardFresh NoSilentSkip
