SPECIFICATION Spec
CONSTANTS
  Epochs = {e1, e2}
  NoEpoch = NoEpoch
  Calls = {c1}
  Keys = {k1, k2}
  Hashes = {h1, h2}
  Devices = {d1, d2}
  OpIds = {i1, i2}
  None = None
  Principal <- MCPrincipal
  Player <- MCPlayer
  Kinds = {"playback", "skip", "cancel"}
  Updates = {"succeeded"}
  MaxOperations = 2
  MaxBatch = 1
  Retention = 1
  Horizon = 1
  MaxRevision = 2
SYMMETRY Symmetry
INVARIANTS ReservationExact DispatchedOnce Replayable RetentionCovers NoOrphanedAdmission ReadyMeansRecovered
PROPERTIES LedgerImplemented EpochNeverReturns
