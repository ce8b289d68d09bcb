SPECIFICATION FairSeatedSpec
CONSTANTS
  u1 = u1
  u2 = u2
  u3 = u3
  Users = {u1, u2}
  Leavers = {}
  Slow = {u1}
  NoUser = NoUser
  MaxClients = 2
  Observed = {"chat"}
  MaxRecv = 2
  Buffers <- LineBuffers
CHECK_DEADLOCK FALSE
INVARIANTS
  LinesInOrder
  NoLostWakeup
  QueueExclusive
PROPERTIES
  LineDelivered
