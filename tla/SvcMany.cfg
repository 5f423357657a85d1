SPECIFICATION LiveSpec
CONSTANTS
  Absent = Absent
  None = None
  Task = {t1, t2}
  Proc = {p1, p2}
  Rev = {v1}
  Caller = {c1}
  PlannerOn = FALSE
  ReviewerOn = FALSE
  ReworkCap = 1
  Limit = 1
  CountBound = 1
  Faults <- Nothing
  Ops <- OpsMany
  Limits <- LimitsOneTwo
  SemBound = 2
INVARIANTS
  OneDispatcher
  PermitsBounded
PROPERTIES
  EveryRunEnds
CHECK_DEADLOCK FALSE
