CONSTANTS
  Twists <- MCTwists
  MAX_RPM = 200
  Kp = 80
  KiDt = 24
  Friction = 20
  Creep = 10
SPECIFICATION Spec
PROPERTY NextMoveStops
