SPECIFICATION FairSpec
CONSTANTS
  User = {alice}
  VoiceChan = {lounge, stage}
  None = None
  Viewer = {v1, v2}
  MAX_RECONNECT_ATTEMPTS = 2
  MaxJoins = 2
  MaxDisturbances = 1
INVARIANTS VoiceInv EndedOnce
PROPERTIES WatchdogIsPatient ReconnectSettles
CHECK_DEADLOCK FALSE
