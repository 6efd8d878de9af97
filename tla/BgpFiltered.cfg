SPECIFICATION Spec
CONSTANTS
  Peers <- TwoVrfs
  Lower <- PlainLower
  Routes <- OneRoute
  TypesOf <- TwoTypes
  Setups <- OnlyAccepted
  Peering <- Conditions
  MaxPeers = 2
  MaxChanges = 1
INVARIANTS
  FilteredIsACount
