\* Every bound is the first to run out under some budget, between two executions of the
\* plan and within one; the window is shorter and longer than the loop.
CONSTANTS
  Budgets <- SmallBudgets
  PlanLength = 2
  Failures = {f1, f2}
SPECIFICATION FairSpec
INVARIANTS
  ReportIsCurrent
  VerdictIsEvidenced
  BoundsHold
PROPERTY OnlyDeciderHangs
CHECK_DEADLOCK FALSE
