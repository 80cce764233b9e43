CONSTANTS
  Origins = {"call", "publish", "http", "outbox", "foreign"}
  Inbound = {"nats", "rabbit", "nng", "redis", "http", "outbox"}
  Outbound = {"nats", "rabbit", "nng", "redis"}
  Forms = {"exact"}
  AppNames = {"app"}
  AppValues = {"plain", "multiline"}
  Unfit = {"multiline"}
SPECIFICATION Journey
INVARIANTS
  IdentityKept
  LabelTellsFormat
  ReplyTellsOutcome
CHECK_DEADLOCK FALSE
