SPECIFICATION LogSpec
CONSTANTS
  LoggedShares = {a, b, c}
  NoShare = x
  Lines = 4
  Reserve = 2
  ReserveShares = 2
  MaxTries = 4
INVARIANTS LogIsSound
