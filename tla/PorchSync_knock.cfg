SPECIFICATION Spec
CONSTANTS
  Device = {1, 2}
  Channel = {c0}
  CreateMode = {}
  DefaultChannel = c0
  Grantee = {}
  Knocker = {p}
  NoPeer = NoPeer
  MessageId = {}
  KnockId = {1, 2}
  AssetId = {}
  Theme = {}
  Vault = {}
  MaxLamport = 3
  NoRow = NoRow
  Pair <- AllPairs
  Legacy <- AllLegacy
  Slot = {n1}
  MaxLate = 0
  MaxDisruptions = 0
INVARIANTS
  FilesAreConsistent
PROPERTIES
  ResolvedKnocksStayResolved
