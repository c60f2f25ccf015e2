CONSTANTS
  Setups <- LinkSetups
  LineCodings = {c1, c2}
  MaxPacket = 32
  OutCounts = {7}
  ManufacturerLength = 6
  ProductLength = 31
SPECIFICATION FairLinkSpec
INVARIANTS
  ConfigurationKnown
  ReadsAreComplete
PROPERTIES
  ReadsAreContiguous
  AddressAfterStatus
  OnlyUnhandledStall
  LinkIsFunction
  TransfersEnd
  HeartbeatKeepsFlowing
