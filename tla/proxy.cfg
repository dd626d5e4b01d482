SPECIFICATION ProxyFairSpec
CONSTANTS
  MaxLines = 2
  PipeCap = 1
INVARIANTS ProxyTypeOK ReportsMirrorTraffic
PROPERTIES ImplementsWire LinesArrive ProxyEnds
CHECK_DEADLOCK FALSE
