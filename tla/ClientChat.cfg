SPECIFICATION Spec
CONSTANTS
  SrvId = {"lobby", "work"}
  Lobby = "lobby"
  NavRoom = {"r1", "r2", "r3"}
  MaxCalls = 2
  MaxReloads = 1
  MsgRoom = {"ra", "rb"}
  Member = {"u"}
  Body <- MCBody
  MaxTimeline = 2
  MaxTail = 3
  MaxEvents = 2
  MaxSwitches = 2
  BoxRoom = {"ra", "rb"}
  Text = {"x"}
  MaxSubmissions = 1
  MaxMoves = 2
  MaxNotices = 2
  Peer = {"c", "d"}
  App = {"a"}
  MaxSends = 3
  MaxTime = 2
  MaxTurns = 1
  AppRoom = {"board", "chess", "chat"}
  AppOf <- MCAppOf
  Permission <- MCPermission
  MaxHappened = 2
  MaxHops = 2
  MaxPosts = 1
  PeerId = {"p", "q"}
  Addr = {"a"}
  MaxTracked = 2
  MaxPairing = 3
  MaxReading = 2
INVARIANTS ChatInv TypingOnlyHere ChannelOfActiveServer ShowsTheTimeline SentOnce SessionsAgree
  RevokedStaysRevoked MirrorOfDisk
CHECK_DEADLOCK FALSE
