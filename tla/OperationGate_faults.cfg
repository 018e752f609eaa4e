SPECIFICATION FairSpec
CONSTANTS
  o1 = o1
  o2 = o2
  o3 = o3
  p1 = p1
  p2 = p2
  c1 = c1
  c2 = c2
  Ops = {o1, o2}
  Process <- TwoProcesses
  Connection <- TwoConnections
  Sessions = {o2}
  GlobalLimit = 2
  ConnectionLimit = 1
  LeaseTicks = 2
  BeatTicks = 1
  QueueTicks = 3
  PollTicks = 2
  MaxLag = 1
  Punctual = FALSE
  TransientErrors = TRUE
  MaxCrashes = 1
CHECK_DEADLOCK FALSE
PROPERTIES
  Answered
