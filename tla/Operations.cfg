SPECIFICATION Spec
CONSTANTS
  c1 = c1 c2 = c2 c3 = c3 h1 = h1 h2 = h2
  Ids = {c1, c2, c3}
  Replicas = 2
  HostNames <- FirstName
  Ops = {"stop", "remove", "removeForce"}
  Handlers = {h1, h2}
  Viewers = {"v"}
  MaxRequests = 2
  MaxTime = 1
  DefaultLimit = 1
  MaxLimit = 2
  Host = Host
  NoContainer = NoContainer
  NoId = NoId
  NoRequest = NoRequest
  NoStream = NoStream
  NoAct = NoAct
  AnyTarget = AnyTarget
SYMMETRY Symmetry
INVARIANTS TypeOK HandsOff AuditTrail RightReplica
CHECK_DEADLOCK FALSE
