CONSTANTS
  Requests = {r1, r2, r3}
  Capacities = {0, 2}
  Bindings = 2
  HttpBinding = 2
  MaxInstalls = 2
  Keys = {k1, k2}
  PartitionCapacity = 1
  NoRequest = NoRequest
  NoKey = NoKey
SPECIFICATION Spec
INVARIANTS
  AcceptedIsKept
  OneTaskPerRoute
PROPERTIES
  RequestsAnswered
  AcceptedIsHandled
CHECK_DEADLOCK FALSE
