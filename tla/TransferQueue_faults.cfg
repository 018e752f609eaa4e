SPECIFICATION FairSpec
CONSTANTS
  Jobs = {1}
  Exports = {}
  Restores = {}
  Workers = {w1, w2}
  MaxAttempts = 2
  LeaseTicks = 2
  MaxWait = 1
  Backoff <- DoublingBackoff
  ActiveLimit = 2
  MaxCrashes = 1
  TransientErrors = TRUE
  Punctual = FALSE
  Serializable = FALSE
  NoJob = NoJob
  NoWorker = NoWorker
  Owner <- OneOwner
  Connection <- OneConnection
CHECK_DEADLOCK FALSE
INVARIANTS
  MutualExclusion
PROPERTIES
  LeasesImplemented
  RetriedOrSettled
