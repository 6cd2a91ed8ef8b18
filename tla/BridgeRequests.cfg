SPECIFICATION RequestsSpec
CONSTANTS
  child = child
  grandchild = grandchild
  other = other
  childsMessage = childsMessage
  othersMessage = othersMessage
  othersPart = othersPart
  childsPrompt = childsPrompt
  othersPrompt = othersPrompt
  Requests = {r1, r2, r3}
  None = None
  Bound = Bound
  Others = {child, grandchild, other}
  ParentOf <- MCParentOf
  Objects = {childsMessage, othersMessage, othersPart}
  Prompts = {childsPrompt, othersPrompt}
  OwnerOf <- MCOwnerOf
  Asked <- MCAsked
  Hellos <- MCHellos
  DefaultCap = 3
  Lengths = {1, 2, 3}
  GzipMin = 2
  GzipRatio = 2
  MaxInflight = 2
  MaxDepth = 2
  MaxProven = 1
  MaxForeign = 2
  MaxEvents = 3
SYMMETRY RequestSymmetry
INVARIANTS PlacesAreExact FramesSuitTheLink
PROPERTIES OnlyTheShareIsTouched AnsweredWhileLinked
