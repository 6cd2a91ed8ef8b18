SPECIFICATION PayloadSpec
CONSTANTS
  Sessions = {own, s1, s2}
  Own = own
  NoParent = NoParent
  Kinds = {family, touched, delta, other, connected}
  SessionKinds = {family, touched}
  FamilyKinds = {family}
  GlobalKinds = {connected}
  Other = other
  MaxKinds = 2
  MaxDrops = 1
INVARIANTS PayloadTypeOK OnlyTheFamilyIsHeard DropsAreTold
