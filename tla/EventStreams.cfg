SPECIFICATION Spec
CONSTANTS
  Streams = {s1, s2}
  MaxShares = 2
  MaxTokens = 2
  Slots = 2
  None = None
CHECK_DEADLOCK FALSE
INVARIANTS StreamsAreAccounted NoLaterShareIsHeard HolesAreNoticed
PROPERTIES SlotsComeBack
