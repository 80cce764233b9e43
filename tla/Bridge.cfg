CONSTANTS
  n1 = n1
  n2 = n2
  p1 = p1
  p2 = p2
  Nodes = {n1, n2}
  Publishers = {p1, p2}
  Home <- HomeOf
  Server = Server
  Backends <- BothBackends
  BridgeBuffer = 1
  SubscriptionBuffer = 1
  MaxMessages = 2
  NoFrame = NoFrame
SPECIFICATION Spec
INVARIANTS
  InOrderOnce
  SameOrder
PROPERTIES
  FramesDrain
CHECK_DEADLOCK FALSE
