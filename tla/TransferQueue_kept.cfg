SPECIFICATION Spec
CONSTANTS
  Jobs = {1, 2}
  Exports = {1}
  Restores = {2}
  Workers = {w1, w2}
  MaxAttempts = 2
  LeaseTicks = 2
  MaxWait = 1
  Backoff <- DoublingBackoff
  ActiveLimit = 2
  MaxCrashes = 1
  TransientErrors = FALSE
  Punctual = TRUE
  Serializable = TRUE
  NoJob = NoJob
  NoWorker = NoWorker
  Owner <- OneOwner
  Connection <- OneConnection
CHECK_DEADLOCK FALSE
INVARIANTS
  SoleRunner
PROPERTY
  SucceededIsFinal
