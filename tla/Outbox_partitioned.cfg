CONSTANTS
  Records = {e1, e2}
  Consumers = {c1, c2}
  Tokens = {1, 2}
  NoToken = NoToken
  Deployments <- OnlyAlone
  e1 = e1
  e2 = e2
  c1 = c1
  c2 = c2
  Partitioned = TRUE
  FailureDecisions <- Decisions
  MaxBatch = 1
  MaxStops = 0
  MaxEarly = 0
SPECIFICATION Spec
INVARIANTS
  OneAtATime
CHECK_DEADLOCK FALSE
