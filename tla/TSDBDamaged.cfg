SPECIFICATION Spec
CONSTANTS
  A = A
  B = B
  Lsets = {A, B}
  MaxSamplesPerChunk = 2
  SegmentSize = 2
  RollupInterval = 2
  RawRetention = 1
  RollupRetention = 3
  Faults = {"clock", "tear", "cut", "remove"}
  MaxTime = 3
  MaxAppends = 3
  MaxCrashes = 1
  MaxFaults = 1
SYMMETRY Symmetry
VIEW View
INVARIANTS UndamagedIsDurable KeptUntilRestart
