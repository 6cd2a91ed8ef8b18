SPECIFICATION ReplaySpec
CONSTANTS
  Texts = {t1, t2}
  Records = {r}
  Unknown = Unknown
  MaxLength = 1
INVARIANTS ReplayTypeOK EndedTextIsWhole
PROPERTIES ReadTextStays
