SPECIFICATION Spec
CONSTANTS
  A = A
  B = B
  Alerts = {A, B}
  RuleCount = 2
  AlertsOf <- MCAlertsOf
  For <- MCFor
  Gaps = {1}
  Repeat = 2
  MaxAttempts = 2
  MaxRestarts = 0
INVARIANTS ResolvedIsTold
