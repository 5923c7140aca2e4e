SPECIFICATION Spec
CONSTANTS
  g1 = g1
  g2 = g2
  c1 = c1
  r1 = r1
  Line <- MCLine
  Victim = Victim
  None = None
  MaxActs = 2
  MaxTroubles = 1
  Configs = {c1, c2}
  InRange = {c1}
  MaxEvents = 1
  MaxMoves = 2
  Rules = {r1, r2}
  Reasons = {w1, w2}
  a1 = a1
  Alarms = {a1, a2}
  Starts <- MCStarts
INVARIANTS TypeOK BannerIsOfTarget ActionsAccountedFor
PROPERTIES StartsAsChosen TargetIsHeld ButtonsComeBack SnapshotCatchesUp
