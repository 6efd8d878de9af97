SPECIFICATION Spec
CONSTANTS
  Peers <- TwoVrfs
  Lower <- PlainLower
  Routes <- OneRoute
  TypesOf <- SameTypes
  Setups <- OnlyTypes
  Peering <- Conditions
  MaxPeers = 2
  MaxChanges = 0
INVARIANTS
  TypesUpExact
