SPECIFICATION Spec
CONSTANTS
  a = a
  b = b
  server = server
  Dims = {server}
  Values = {a, b}
  Kinds <- MCKinds
  NoEvent = NoEvent
  Capacity = 4
  ViewRows = 1
  Overscan = 1
  FollowRows = 1
  BatchSize = 2
  MaxEvents = 5
INVARIANTS TypeOK MemoFresh
PROPERTIES ArrivalKeepsPlace SelectionIsRendered
