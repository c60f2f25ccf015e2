SPECIFICATION Spec
CONSTANTS
  Size <- MCSize
  Values <- MCValues
  Zero = 0
  WriteMax <- MCWriteMax
  Writes <- MCWrites
  UserWrites <- MCUserWrites
  Fields <- MCFields
INVARIANT FieldsAreWhole
PROPERTY SlaveIsSharedBuffer
