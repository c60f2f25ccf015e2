CONSTANTS
  Setups <- ControlSetups
  LineCodings = {c1}
  MaxPacket = 64
  OutCounts = {0, 7}
  ManufacturerLength = 6
  ProductLength = 31
SPECIFICATION Spec
INVARIANTS
  TypeOK
  Ep0Answers
  RequestsLeaveNothing
  ConnectedTracksBus
  ReadsInBounds
  DataEndpointsFollowConfiguration
PROPERTIES
  WritesAreExclusive
