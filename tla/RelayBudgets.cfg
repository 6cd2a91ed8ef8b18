SPECIFICATION BudgetsSpec
CONSTANTS
  Shares = {a, b}
  Requests = {r1, r2}
  None = None
  Limit = 2
  MaxInbound = 4
  ShareInbound = 4
  Reserve = 1
  Small = 1
  MaxPosts = 2
  PerCheck = 1
  Strikes = 2
  MaxBuffered = 3
  ShareBuffered = 2
  Lengths = {1, 2}
CHECK_DEADLOCK FALSE
INVARIANTS ChargesAreSound
PROPERTIES ChargesComeBack
