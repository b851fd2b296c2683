SPECIFICATION Spec
CONSTANTS
  Device = {1, 2}
  Channel = {c0, c1, c2}
  CreateMode = {"allowlist"}
  DefaultChannel = c0
  Grantee = {}
  Knocker = {}
  NoPeer = NoPeer
  MessageId = {1}
  KnockId = {}
  AssetId = {1}
  Theme = {}
  Vault = {notes}
  MaxLamport = 2
  NoRow = NoRow
  Pair <- AllPairs
  Legacy <- MixedLegacy
  Slot = {n1}
  MaxLate = 0
  MaxDisruptions = 0
INVARIANTS
  FilesAreConsistent
SYMMETRY NewChannels
