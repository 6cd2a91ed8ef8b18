SPECIFICATION FairSpec
CONSTANTS
  Strikes = 2
  MaxFaults = 6
  MaxSubscriptions = 8
CHECK_DEADLOCK FALSE
INVARIANTS LinkIsSound
PROPERTIES LinkSettles
