SPECIFICATION Spec
CONSTANTS
  Absent = Absent
  Task = {t1}
  Client = {c1}
  Codes <- MCCodes
  ReworkBound = 1
INVARIANTS
  TypeOK
  FinishedIffSettled
PROPERTY ClosedStaysClosed
