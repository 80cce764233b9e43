CONSTANTS
  Calls = {a1, a2}
  NoCall = NoCall
  Capacity = 1
  MaxAnswers = 2
SPECIFICATION Spec
INVARIANTS
  NoReplyMissed
  PendingHasReason
PROPERTIES
  CallReturns
  ImplementsRequestReply
CHECK_DEADLOCK FALSE
