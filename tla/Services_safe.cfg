SPECIFICATION ServicesSpec
CONSTANTS
  Services = {"files", "sessions", "accounts", "tunnels", "hosts", "queries", "roles", "keepalive", "circuit"}
  a = a
  b = b
  Jobs = {j1}
  Requests = {r1, r2}
  Cleaners = {c1}
  Contents = {a, b}
  Size <- MCSize
  File <- MCFile
  ChunkSize = 2
  MaxChunks = 2
  MaxRuns = 2
  ShortTicks = 1
  FailedTicks = 2
  JobTicks = 3
  None = None
  Users = {admin, user}
  Admin = admin
  Sessions = {s1}
  Clients = {x1, x2}
  IdleTicks = 1
  AbsoluteTicks = 2
  CacheTicks = 1
  MaxChanges = 3
  MaxLate = 1
  NoUser = NoUser
  NoSession = NoSession
  Accounts = {i1}
  Operators = {o1}
  Verifiers = {v1}
  RecoveryTicks = 1
  MaxRequests = 3
  MaxTrouble = 1
  Callers = {k1, k2, k3}
  Transports = {t1, t2, t3, t4}
  MaxChannels = 1
  NoTransport = NoTransport
  Handshakes = {h1, h2, h3}
  HostKeys = {key1, key2}
  NoKey = NoKey
  Queries = {q1, q2}
  Names = {n1}
  MaxFaults = 2
  NoQuery = NoQuery
  Processes = {p1, p2}
  ActiveLimit = 1
  RoleTicks = 4
  RoleBeat = 2
  RoleLag = 1
  MaxOutages = 1
  MaxEnds = 2
  Profiles = {f1, f2}
  IntervalTicks = 3
  ListTicks = 1
  MaxRecording = 2
  MaxThrows = 2
  CircuitCalls = {d1, d2, d3}
  FailureThreshold = 2
  OperationTicks = 1
  CooldownTicks = 2
  RecoveryThreshold = 2
SYMMETRY Symmetry
INVARIANTS
  ServicesTypeOK
  OutputKept
  WholeDownloads
  SessionsCurrent
  RowDescribesTarget
  SlotsMatchChannels
  NothingOpenAfterClose
  OneKeyTrusted
  RecordedAsTold
  LatestReachable
  ActiveWithinLimit
  PromotedInTime
PROPERTIES
  SessionsEnd
  LastAdminKept
  ProbesApart
CHECK_DEADLOCK FALSE
