SPECIFICATION TabSpec
CONSTANTS
  Device = {1, 2}
  Channel = {c0, c1, c2}
  CreateMode = {"allowlist"}
  DefaultChannel = c0
  Grantee = {}
  Knocker = {}
  NoPeer = NoPeer
  MessageId = {1}
  KnockId = {}
  AssetId = {}
  Theme = {dark}
  Vault = {}
  MaxLamport = 2
  NoRow = NoRow
  Pair <- AllPairs
  Legacy <- AllLegacy
  Slot = {n1}
  MaxLate = 0
  MaxDisruptions = 0
PROPERTIES
  Convergence
