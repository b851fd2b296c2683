SPECIFICATION Spec
CONSTANTS
  Device = {1, 2}
  Channel = {c0}
  CreateMode = {}
  DefaultChannel = c0
  Grantee = {p}
  Knocker = {}
  NoPeer = NoPeer
  MessageId = {}
  KnockId = {}
  AssetId = {}
  Theme = {}
  Vault = {}
  MaxLamport = 2
  NoRow = NoRow
  Pair <- AllPairs
  Legacy <- MixedLegacy
  Slot = {n1, n2}
  MaxLate = 1
  MaxDisruptions = 1
INVARIANTS
  TypeOK
  StampIdentity
  AckedPushIsCovered
  ConsentConfinesRows
PROPERTIES
  RowsOnlyAdvance
  ImplementsLwwReplicas
SYMMETRY Rounds
