SPECIFICATION FairSpec
CONSTANTS
  Conns = {c1, c2}
  MaxEvents <- OneBusyConn
  ChanCap = 2
  BatchSize = 2
  ChunkSize = 1
  MaxDeletes = 1
  MaxFaults = 1
INVARIANTS PipelineOrder Accounting SessionConsistent LateLossBounded
PROPERTIES ImplementsLog EventsSettle ShutdownCompletes
CHECK_DEADLOCK FALSE
