SPECIFICATION FairSpec
CONSTANTS
  p1 = p1 p2 = p2 r1 = r1
  Players = {p1} MaxPlayers = 1
  Reads = {r1, u1} Writes = {} Urgent = {u1}
  Observing = {} Target <- MCTarget Sessions = {s1}
  QueueDepth = 1 PriorityDepth = 1
  None = None
  EventBuffer = 1 MaxDrain = 1 NoticeKinds = {"player", "global", "catalog", "progress", "pending"} MaxNotices = 1 MaxGeneration = 2 MayClose = TRUE
CHECK_DEADLOCK FALSE
PROPERTIES FenceHolds RequestAnswered
