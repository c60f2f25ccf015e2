CONSTANTS
  Endpoints = {0, 1, 2, 3}
  SendLengths = {7, 64, 65}
  HostLengths = {8, 65}
SPECIFICATION AccessSpec
INVARIANTS
  IdentityRestored
  NeverDeaf
  OfferedIntact
  ReceivedIntact
PROPERTIES
  FlagsSurvive
  StatusIsAssigned
