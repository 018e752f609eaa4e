SPECIFICATION OperationsSpec
CONSTANTS
  o1 = o1
  o2 = o2
  o3 = o3
  p1 = p1
  p2 = p2
  c1 = c1
  c2 = c2
  Ops = {o1, o2, o3}
  Process <- TwoProcesses
  Connection <- TwoConnections
  Sessions = {o3}
  GlobalLimit = 2
  ConnectionLimit = 1
  LeaseTicks = 4
  BeatTicks = 1
  QueueTicks = 1
  PollTicks = 1
  MaxLag = 1
  Punctual = TRUE
  TransientErrors = FALSE
  MaxCrashes = 1
  Changes = {r1, r2}
  Cells = {"x", "y"}
  Contents = {0, 1, 2}
  Plans <- MCPlans
  Untouched = Untouched
  MaxMishaps = 2
  Servers <- MCServers
  Tasks <- MCTasks
  Pieces = 4
  BatchSize = 3
  Entry = {2, 3}
  MaxTries = 2
  MaxTroubles = 2
  MaxEdits = 1
  Sources <- MCSources
  Scopes <- MCScopes
  Versions <- MCVersions
  Transfers <- MCTransfers
  Previewers = {a1, a2}
  Lifetime = 1
  MaxTime = 2
  MaxShifts = 1
  NoPlan = NoPlan
  TableRows <- MCRows
  IndexLists <- MCIndexes
  Grain <- MCGrain
  PageLimit = 2
  MaxOffset = 2
  Grants = {{"data-write"}, {"structure-read"}}
  MaxChurn = 2
SYMMETRY Symmetry
INVARIANTS
  OperationsTypeOK
  RunningWithinLimits
  EffectReported
  NothingLeaked
  SuccessIsDone
  FailureIsUndone
  Guarded
  SucceededComplete
  StoppedReported
  StatementsGrounded
  LoadsUndisturbed
  ExecutedAsConfirmed
  RefusedOnlyIfChanged
  WalkComplete
CHECK_DEADLOCK FALSE
