SPECIFICATION Spec
CONSTANTS
  u1 = u1
  u2 = u2
  u3 = u3
  Users = {u1, u2}
  Leavers = {u1}
  Slow = {}
  NoUser = NoUser
  MaxClients = 2
  Observed = {}
  MaxRecv = 1
  Buffers <- CommandBuffers
CHECK_DEADLOCK FALSE
INVARIANTS
  TypeOK
  OnlineCount
  SlotOwned
