SPECIFICATION Spec
CONSTANTS
  Wrong = {typo}
  Seats = 2
  LockThreshold = 2
  LockTerm = 2
  BlockThreshold = 3
  MintCap = 1
  MintTerm = 2
  ActiveWindow = 1
  IdleTtl = 2
  MaxLife = 2
  MaxShares = 2
  MaxTokens = 3
  Epoch = 2
  MaxNow = 5
CHECK_DEADLOCK FALSE
INVARIANTS SeatsAreSound GuessesAreBounded
PROPERTIES PresentViewerKeepsSeat
