CONSTANTS
  Setups <- ClearSetups
  LineCodings = {c1}
  MaxPacket = 64
  OutCounts = {0}
  ManufacturerLength = 6
  ProductLength = 12
SPECIFICATION FairSpec
PROPERTIES
  HeartbeatKeepsFlowing
