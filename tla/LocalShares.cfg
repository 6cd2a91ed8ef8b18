SPECIFICATION Spec
CONSTANTS
  Starts = {s1, s2, s3}
  Old = Old
  None = None
  MaxKills = 1
  MaxStops = 1
CHECK_DEADLOCK FALSE
SYMMETRY Alike
INVARIANTS RecordsAreSound
PROPERTIES RefusedOnlyByALiveBridge UsedCodeIsTakenBack
