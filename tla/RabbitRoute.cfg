CONSTANTS
  Messages = {m1, m2}
  MaxDeliveries = 4
  Routes <- Both
  MaxPanics = 1
  MaxRestarts = 1
SPECIFICATION Spec
INVARIANTS
  GoneOnlyAfterVerdict
  DuplicateIsFlagged
  SettlementFindsAcker
  UnackedIsInHand
PROPERTIES
  EveryMessageGone
CHECK_DEADLOCK FALSE
