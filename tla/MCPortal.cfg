SPECIFICATION Spec
CONSTANTS
  A = A
  B = B
  Keys = {A, B}
  DemoServer = TRUE
  MaxSessions = 2
  MaxCalls = 2
  MaxChanges = 1
  MaxFailures = 1
INVARIANTS TypeOK NoFalseLogout
PROPERTIES DataOfKey SkeletonEnds ExpiryIsNoticed CatchesUp
