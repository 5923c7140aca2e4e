SPECIFICATION Spec
CONSTANTS
  A = A
  B = B
  Alerts = {A, B}
  RuleCount = 2
  AlertsOf <- MCAlertsOf
  For <- MCFor
  Gaps = {1}
  Repeat = 3
  MaxAttempts = 2
  MaxRestarts = 1
INVARIANTS ForRespected InSync
PROPERTIES EvaluationGoesOn FiringIsTold
