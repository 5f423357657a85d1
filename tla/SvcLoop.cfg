SPECIFICATION LiveSpec
CONSTANTS
  Absent = Absent
  None = None
  Task = {t1}
  Proc = {p1}
  Rev = {v1, v2}
  Caller = {c1, c2}
  PlannerOn = TRUE
  ReviewerOn = TRUE
  ReworkCap = 2
  Limit = 1
  CountBound = 3
  Faults <- Nothing
  Ops <- OpsRun
  Limits <- LimitsOneTwo
  SemBound = 1
INVARIANTS
  ReworkWithinCap
PROPERTIES
  ReviewAdvances
CHECK_DEADLOCK FALSE
