SPECIFICATION Spec
CONSTANTS
  a = a
  b = b
  c = c
  t1 = t1
  t2 = t2
  Tabs = {t1, t2}
  Shares = {a, b}
  None = None
  Children = {c}
  LinkOf <- MCLinkOf
  ParentOf <- MCParentOf
  MaxTokens = 2
  MaxEnds = 1
  MaxVisits = 1
CHECK_DEADLOCK FALSE
INVARIANTS PagesKeepToTheirShare DraftsAreKeptApart
PROPERTIES GuardLeavesForAReason DeadPagesLeave
