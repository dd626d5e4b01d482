SPECIFICATION Spec
CONSTANTS
  Conns = {c1, c2}
  Names = {n1, n2}
  SharedNames = TRUE
  Callers = {"agent", "server"}
  MsgIds = {m1}
  ChanCap = 1
  BatchSize = 1
  MaxEvents = 4
  MaxLost = 1
SYMMETRY Symmetry
INVARIANTS PairingIsMatching PairedUnlessAmbiguous
PROPERTY PairedOnce
CHECK_DEADLOCK FALSE
