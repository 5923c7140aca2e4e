SPECIFICATION Spec
CONSTANTS
  A = A
  B = B
  Lsets = {A, B}
  MaxSamplesPerChunk = 2
  SegmentSize = 2
  RollupInterval = 2
  RawRetention = 2
  RollupRetention = 3
  Faults = {"cut"}
  MaxTime = 3
  MaxAppends = 3
  MaxCrashes = 1
  MaxFaults = 1
SYMMETRY Symmetry
VIEW View
INVARIANTS Durable
