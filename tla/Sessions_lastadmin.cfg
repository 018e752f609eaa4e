SPECIFICATION SessionsSpec
CONSTANTS
  Users = {admin, user}
  Admin = admin
  Sessions = {s1}
  Clients = {r1, r2}
  IdleTicks = 1
  AbsoluteTicks = 2
  CacheTicks = 1
  MaxChanges = 3
  MaxLate = 0
  NoUser = NoUser
  NoSession = NoSession
SYMMETRY Symmetry
CHECK_DEADLOCK FALSE
INVARIANT
  AdminRemains
