SPECIFICATION FairSpec
CONSTANTS
  Conflict = {c1, c2}
  Pass = {p1}
  MaxAttempts = 2
  MaxFailures = 1
INVARIANTS BudgetIsKept AuditTrail
PROPERTIES DecidedIsFinal PassesSettle
CHECK_DEADLOCK FALSE
