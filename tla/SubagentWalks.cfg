SPECIFICATION WalksSpec
CONSTANTS
  child = child
  grandchild = grandchild
  other = other
  Ids = {child, grandchild, other}
  Root = Root
  None = None
  ParentOf <- MCParentOf
  Lists = {l1}
  Walks = {w1}
  Reads = {r1}
  CacheMax = 1
  MaxDepth = 2
  MaxWalks = 1
  MaxFails = 1
  MaxLapses = 1
  Unbounded = Unbounded
CHECK_DEADLOCK FALSE
INVARIANTS WalksAreSound
PROPERTIES PendingPromptAppears
