SPECIFICATION TabSpec
CONSTANTS
  Device = {1, 2}
  Channel = {c0}
  CreateMode = {}
  DefaultChannel = c0
  Grantee = {}
  Knocker = {}
  NoPeer = NoPeer
  MessageId = {}
  KnockId = {}
  AssetId = {}
  Theme = {dark, light}
  Vault = {}
  MaxLamport = 1
  NoRow = NoRow
  Pair <- AllPairs
  Legacy <- AllLegacy
  Slot = {n1}
  MaxLate = 1
  MaxDisruptions = 1
PROPERTIES
  Convergence
