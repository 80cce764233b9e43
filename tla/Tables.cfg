CONSTANTS
  Tokens = {"a", "b", ""}
  MaxTokens = 3
  MaxCodecs = 5
  LengthMod = 8
  TextBytes = {1, 2}
  MaxText = 2
  MaxHeaders = 2
  BufferCells = {0, 1, 2, 3}
  MaxBuffer = 7
SPECIFICATION Inputs
INVARIANTS
  MatchesTable
  BackendsAgree
  LabelsAgree
  FramesSurvive
  OnlyFramesAccepted
CHECK_DEADLOCK FALSE
