SPECIFICATION Spec
CONSTANTS
  None = None
  All = All
  g1 = g1
  g2 = g2
  g3 = g3
  n1 = n1
  n2 = n2
  c1 = c1
  c2 = c2
  r1 = r1
  k1 = k1
  t1 = t1
  m1 = m1
  Gpu = {g1, g2, g3}
  Node = {n1, n2}
  Csp = {c1, c2}
  NodeOf <- MCNodeOf
  LabelOf <- MCLabelOf
  FleetAlerts <- MCFleetAlerts
  TopRows = 1
  Pooled = {g1, g2, g3}
  ByIdleness <- MCByIdleness
  DeviceOf <- MCDeviceOf
  ByName <- MCByName
  Victim = n1
  PageSizes = {1, 2}
  Selections = {s1, s2}
  Tabs = {util, temp}
  Addresses <- MCAddresses
  MaxSteps = 2
INVARIANTS CountedOnce EveryRowOnAPage MenuStandsAtPage
PROPERTIES WallIsWhole AnswersKeepToSelection SheetIsFilled
CHECK_DEADLOCK FALSE
