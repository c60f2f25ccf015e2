SPECIFICATION Spec
CONSTANTS
  TwistBytes = {"linear", "angular"}
  Twists <- MCTwists
  COMMAND_TIMEOUT = 7
  SAMPLE_DELTA = 2
  CounterSize = 12
  MaxPass = 1
  MaxFailures = 0
INVARIANT CommandIsFollowed
