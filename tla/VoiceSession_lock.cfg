SPECIFICATION Spec
CONSTANTS
  User = {alice}
  VoiceChan = {lounge, stage}
  None = None
  Viewer = {v1, v2}
  MAX_RECONNECT_ATTEMPTS = 2
  MaxJoins = 2
  MaxDisturbances = 1
INVARIANT OneJoinAtATime
CHECK_DEADLOCK FALSE
