SPECIFICATION FairSpec
CONSTANTS
  Keys <- MCKeys
  Damaged = "damaged"
  Absent = Absent
  MaxChanges = 5
  MaxStarts = 3
CHECK_DEADLOCK FALSE
INVARIANTS FileIsSound
PROPERTIES BetterStateStays ChangesReachTheFile
