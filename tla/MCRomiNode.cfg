SPECIFICATION NodeSpec
CONSTANTS
  Size = 5
  Values <- MCValues
  Zero = 0
  Writes <- MCWrites
  UserWrites <- MCUserWrites
  Fields <- MCFields
  Battery <- MCBattery
  Pose <- MCPose
  Commands <- MCCommands
INVARIANT ReadingsAreTheirs
