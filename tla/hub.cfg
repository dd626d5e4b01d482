SPECIFICATION FairSpec
CONSTANTS
  Clients = {w1, w2}
  NoClient = NoClient
  MaxPayloads = 2
  BroadcastCap = 1
  SendCap = 1
INVARIANTS NeverPanics Gapless
PROPERTIES ClosedConnectionsEnd FeedCatchesUp
CHECK_DEADLOCK FALSE
