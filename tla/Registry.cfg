SPECIFICATION Spec
CONSTANTS
  a1 = a1
  a2 = a2
  o1 = o1
  o2 = o2
  Ids = {i1,i2,i3}
  Owners = {o1,o2}
  NoOwner = NoOwner
  Addrs = {a1,a2}
  NoAddr = NoAddr
  Registrants <- MCRegistrants
  Blocks <- MCBlocks
  Block <- MCBlock
  None = None
  MaxSessions = 2
  MaxTracking = 2
  PerWindow = 1
  MaxActive = 2
  RegWindow = 1
  UnboundReap = 0
  DepartedAfter = 0
  IdleReap = 0
  ClaimTtl = 1
  Encrypted = TRUE
  MaxNow = 2
SYMMETRY Symmetry
VIEW MCView
INVARIANTS StoreIsSound WithinLimits
PROPERTIES IdStaysWithItsInstall EndedShareStaysReserved RefusalEndsNoShare RoomComesFromOneDepartedShare ClaimKeptForItsTerm
