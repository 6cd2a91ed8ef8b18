\* Violated as it stands: README.md, section 6, says what each of EvictedOnlyAfterSilence,
\* BoundOnlyByItsBridge and ReservedFromItsEnd shows when it is the one asked for.
SPECIFICATION Spec
CONSTANTS
  a1 = a1
  a2 = a2
  o1 = o1
  o2 = o2
  Ids = {i1,i2}
  Owners = {o1}
  NoOwner = NoOwner
  Addrs = {a1}
  NoAddr = NoAddr
  Registrants <- MCOneRegistrant
  Blocks <- MCBlocks
  Block <- MCBlock
  None = None
  MaxSessions = 1
  MaxTracking = 2
  PerWindow = 9
  MaxActive = 2
  RegWindow = 1
  UnboundReap = 0
  DepartedAfter = 0
  IdleReap = 0
  ClaimTtl = 3
  Encrypted = TRUE
  MaxNow = 3
SYMMETRY Alike
PROPERTIES EvictedOnlyAfterSilence
