SPECIFICATION Spec
CONSTANTS
  Ids = {e1, e2, e3, e4}
  NoId = NoId
  Kinds = {k1, k2}
  Capacity = 2
  MaxBatch = 3
  MaxReceived = 6
SYMMETRY Symmetry
INVARIANTS RingMatchesIndex CountsMatch SelectionBuffered
PROPERTY ImplementsRecent
