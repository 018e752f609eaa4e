SPECIFICATION FairSpec
CONSTANTS
  Jobs = {1, 2}
  Exports = {1}
  Restores = {2}
  Workers = {w1}
  MaxAttempts = 2
  LeaseTicks = 2
  MaxWait = 1
  Backoff <- DoublingBackoff
  ActiveLimit = 2
  MaxCrashes = 0
  TransientErrors = FALSE
  Punctual = TRUE
  Serializable = FALSE
  NoJob = NoJob
  NoWorker = NoWorker
  Owner <- OneOwner
  Connection <- OneConnection
CHECK_DEADLOCK FALSE
PROPERTY
  Settles
