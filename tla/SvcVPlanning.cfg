SPECIFICATION SSpec
CONSTANTS
  Absent = Absent
  None = None
  Task = {t1}
  Proc = {p1}
  Rev = {v1}
  Caller = {c1}
  PlannerOn = TRUE
  ReviewerOn = TRUE
  ReworkCap = 1
  Limit = 1
  CountBound = 1
  Faults <- Nothing
  Ops <- OpsRunCancel
  Limits <- LimitsOneTwo
  SemBound = 1
INVARIANTS
  PlanningHasOwner
CHECK_DEADLOCK FALSE
