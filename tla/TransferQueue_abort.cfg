SPECIFICATION Spec
CONSTANTS
  Jobs = {1}
  Exports = {1}
  Restores = {}
  Workers = {w1, w2}
  MaxAttempts = 2
  LeaseTicks = 2
  MaxWait = 1
  Backoff <- DoublingBackoff
  ActiveLimit = 2
  MaxCrashes = 0
  TransientErrors = TRUE
  Punctual = TRUE
  Serializable = FALSE
  NoJob = NoJob
  NoWorker = NoWorker
  Owner <- OneOwner
  Connection <- OneConnection
CHECK_DEADLOCK FALSE
PROPERTY
  LostIsRecoverable
