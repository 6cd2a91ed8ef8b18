SPECIFICATION SocketSpec
CONSTANTS
  Room = 2
  MaxSilences = 2
  MaxBuffer = 2
  MaxExempt = 4
  MaxFrame = 4
  MaxBytes = 10
CHECK_DEADLOCK FALSE
INVARIANTS SocketTypeOK FrozenPeersAreCut HeldIsBounded
PROPERTIES MovingPeersAreKept
