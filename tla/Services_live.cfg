SPECIFICATION ServicesFairSpec
CONSTANTS
  Services = {"files", "accounts", "tunnels", "circuit"}
  a = a
  b = b
  Jobs = {j1}
  Requests = {r1}
  Cleaners = {c1}
  Contents = {a, b}
  Size <- MCSize
  File <- MCFile
  ChunkSize = 2
  MaxChunks = 2
  MaxRuns = 2
  ShortTicks = 1
  FailedTicks = 2
  JobTicks = 3
  None = None
  Users = {admin, user}
  Admin = admin
  Sessions = {s1}
  Clients = {x1, x2}
  IdleTicks = 1
  AbsoluteTicks = 2
  CacheTicks = 1
  MaxChanges = 3
  MaxLate = 1
  NoUser = NoUser
  NoSession = NoSession
  Accounts = {i1}
  Operators = {o1}
  Verifiers = {v1}
  RecoveryTicks = 1
  MaxRequests = 3
  MaxTrouble = 1
  Callers = {k1, k2}
  Transports = {t1, t2, t3}
  MaxChannels = 1
  NoTransport = NoTransport
  Handshakes = {h1, h2, h3}
  HostKeys = {key1, key2}
  NoKey = NoKey
  Queries = {q1}
  Names = {n1}
  MaxFaults = 0
  NoQuery = NoQuery
  Processes = {p1}
  ActiveLimit = 1
  RoleTicks = 2
  RoleBeat = 1
  RoleLag = 0
  MaxOutages = 0
  MaxEnds = 0
  Profiles = {f1}
  IntervalTicks = 1
  ListTicks = 0
  MaxRecording = 1
  MaxThrows = 0
  CircuitCalls = {d1, d2}
  FailureThreshold = 2
  OperationTicks = 1
  CooldownTicks = 2
  RecoveryThreshold = 2
PROPERTIES
  FinishedCleaned
  DriftNoticed
  TunnelAnswered
  CircuitRecovers
CHECK_DEADLOCK FALSE
