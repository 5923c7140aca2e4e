SPECIFICATION Spec
CONSTANTS
  A = A
  B = B
  Lsets = {A, B}
  MaxSamplesPerChunk = 2
  SegmentSize = 2
  RollupInterval = 2
  RawRetention = 1
  RollupRetention = 2
  Faults = {"write", "rotate", "truncate", "block", "retention"}
  MaxTime = 3
  MaxAppends = 3
  MaxCrashes = 1
  MaxFaults = 1
SYMMETRY Symmetry
VIEW View
INVARIANTS TypeOK LabelFidelity KnownRefsLogged RollupDurable Readable BlockRange
PROPERTY ImplementsStore
