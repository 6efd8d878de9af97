SPECIFICATION Spec
CONSTANTS
  Peers <- TwoVrfs
  Lower <- PlainLower
  Routes <- OneRoute
  TypesOf <- TwoTypes
  Setups <- OnlyPresence
  Peering <- Conditions
  MaxPeers = 2
  MaxChanges = 0
INVARIANTS
  PresenceReported
