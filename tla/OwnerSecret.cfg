SPECIFICATION Undamaged
CONSTANTS
  Creators = {a, b, c}
  Given = Given
  Absent = Absent
  Damaged = Damaged
CHECK_DEADLOCK FALSE
INVARIANTS SecretTypeOK SecretIsShared
PROPERTIES SecretStays
