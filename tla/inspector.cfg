SPECIFICATION InspectorFairSpec
CONSTANTS
  Absent = Absent
  Null = Null
  Falsy = Falsy
  request = request
  response = response
  other = other
  EventIds = {request, response, other}
  Traffic <- MCTraffic
  Partner <- MCPartner
  NoEvent = NoEvent
INVARIANTS InspectorTypeOK EditorsShowSelection
PROPERTY DetailSettles
