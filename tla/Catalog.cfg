SPECIFICATION Spec
CONSTANTS
  Library <- MCLibrary
  Requests <- MCRequests
  Sources = {"root"}
  Limits = {1, 2}
  AllPage = 1
  Capacity = 6
  TTL = 1
  MaxDepth = 2
  MaxPages = 4
  MaxRev = 2
  MaxNow = 1
  MaxRefs = 4
INVARIANTS CacheBounded RefsHonest
PROPERTIES PlanExact
