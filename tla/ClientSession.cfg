SPECIFICATION Spec
CONSTANTS
  MaxGeneration = 4
  MaxLaunches = 1
  User = {"u1", "u2"}
  Host = {"h1", "h2"}
  Origin = "h1"
  MaxSources = 2
  MaxStarts = 1
  MaxBlurs = 3
  BadgeRoom = {"ra", "rb"}
  UnreadCap = 2
  MaxArrivals = 2
  MaxGlances = 2
INVARIANTS SessionInv SecondFactor DisconnectedStaysGone InvitedSourcesAreScoped NoHostingWithoutConsent
PROPERTIES CancelledHostStaysCancelled InviteKept SplashGoes BadgeGoes
CHECK_DEADLOCK FALSE
