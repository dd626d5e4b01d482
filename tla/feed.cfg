SPECIFICATION FairSpec
CONSTANTS
  Hook = Hook
  Urls = {url1, url2}
  DefaultUrl = url1
  NoUrl = NoUrl
  Loads = {k1}
  BatchSize = 2
  Capacity = 2
  MaxEvents = 3
  MaxSockets = 3
INVARIANTS TypeOK OneConnection TriesIffRetained HandedOverOnce
PROPERTIES RetainedReconnects BufferedIsIngested
CHECK_DEADLOCK FALSE
