SPECIFICATION DeviceSpec
CONSTANTS
  u1 = u1
  u2 = u2
  u3 = u3
  r1 = r1
  Users = {u1, u2, u3}
  Reqs = {r1}
  N = 2
  Start <- MCStart
  LayerOf <- MCLayerOf
  Addrs <- MCAddrs
  Nobody = Nobody
  NoRequest = NoRequest
  MaxQueDepth = 2
  OK = OK
  Failed = Failed
  MaxCalls <- MCMaxCalls
INVARIANTS
  TypeOK
  OwnStatus
  OffsetRestored
  EventsCovered
PROPERTIES
  BlockSpec
  EverythingReturns
CHECK_DEADLOCK FALSE
