SPECIFICATION QSpec
CONSTANTS
  A = A
  B = B
  Lsets = {A, B}
  MaxSamplesPerChunk = 2
  SegmentSize = 2
  RollupInterval = 2
  RawRetention = 2
  RollupRetention = 3
  Faults = {}
  MaxTime = 3
  MaxAppends = 2
  MaxCrashes = 0
  MaxFaults = 0
  Lookback = 2
  MaxQueries = 1
SYMMETRY Symmetry
VIEW View
INVARIANTS SeesAcked
