SPECIFICATION Spec
CONSTANTS
  Conns = {c1}
  MaxEvents <- OneBusyConn
  ChanCap = 2
  BatchSize = 2
  ChunkSize = 2
  MaxDeletes = 1
  MaxFaults = 0
INVARIANT StopKeepsBatch
CHECK_DEADLOCK FALSE
