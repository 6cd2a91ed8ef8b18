CONSTANTS
  Pids = {p1, p2, p3, p4}
  SharesHere = {a, b}
  Nobody = Nobody
  Slack = 0
  Depth = 3
  Asking = 1
  Rest = 2
  PsShows = {{p1, p2, p3, p4}}
  PsDates = {{p1, p2, p3, p4}}
  MaxTime = 3
SPECIFICATION ProcessSpec
INVARIANTS ProcessTypeOK StopsSpareStrangers NobodyIsCutOff
SYMMETRY Symmetry
CHECK_DEADLOCK FALSE
