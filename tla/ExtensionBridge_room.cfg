SPECIFICATION BridgeSpec
CONSTANTS
  AppRoom = {"board", "chess", "chat"}
  AppOf <- MCAppOf
  Permission <- MCPermission
  MaxHappened = 2
  MaxHops = 3
  MaxPosts = 1
INVARIANTS EventsOfItsRoom
CHECK_DEADLOCK FALSE
