SPECIFICATION StartsSpec
CONSTANTS
  s1 = s1
  s2 = s2
  s3 = s3
  x1 = x1
  x2 = x2
  h1 = h1
  h2 = h2
  Launches = {s1, s2, s3}
  Sessions = {x1, x2}
  SessionOf <- MCSessionOf
  Hosts = {h1}
  HostOf <- MCHostOf
  Nil = Nil
  MaxTurns = 1
CHECK_DEADLOCK FALSE
INVARIANTS StartsAreSound
PROPERTIES ShareEndsWithItsOpenCode
