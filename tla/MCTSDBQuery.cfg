SPECIFICATION QSpec
CONSTANTS
  A = A
  B = B
  Lsets = {A, B}
  MaxSamplesPerChunk = 2
  SegmentSize = 2
  RollupInterval = 2
  RawRetention = 2
  RollupRetention = 0
  Faults = {"write"}
  MaxTime = 3
  MaxAppends = 2
  MaxCrashes = 1
  MaxFaults = 1
  Lookback = 2
  MaxQueries = 2
SYMMETRY Symmetry
VIEW View
INVARIANTS QueryComplete RepeatableRead
