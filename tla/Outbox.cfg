CONSTANTS
  e1 = e1
  e2 = e2
  c1 = c1
  c2 = c2
  Records = {e1, e2}
  Consumers = {c1, c2}
  Deployments <- Both
  Tokens = {1, 2, 3}
  NoToken = NoToken
  Partitioned = FALSE
  FailureDecisions <- Decisions
  MaxBatch = 2
  MaxStops = 1
  MaxEarly = 1
SPECIFICATION Spec
INVARIANTS
  DoneOnlyAfterVerdict
  RenewalEndsFirst
  SettlementFindsDelivery
PROPERTIES
  EveryRecordDone
CHECK_DEADLOCK FALSE
