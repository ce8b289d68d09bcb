SPECIFICATION Spec
CONSTANTS
  u1 = u1
  u2 = u2
  u3 = u3
  Users = {u1, u2, u3}
  Leavers = {u1}
  Slow = {}
  NoUser = NoUser
  MaxClients = 2
  Observed = {}
  MaxRecv = 0
  Buffers <- OneLine
CHECK_DEADLOCK FALSE
INVARIANTS
  LeftNamesLeaver
