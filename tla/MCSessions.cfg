SPECIFICATION Spec
CONSTANTS
  P = P
  Q = Q
  K = K
  L = L
  NoToken = NoToken
  Requests = {P, Q}
  Tokens = {K, L}
  IdleTTL = 3
  AbsoluteTTL = 4
  SweepThreshold = 1
  MaxConcurrentLogins = 1
  MaxDelay = 1
  MaxRestarts = 1
INVARIANTS TypeOK SlotsMatchLogins LiveIsKept
PROPERTIES AbsoluteEnd EndIsFinal SlotIsFreed
