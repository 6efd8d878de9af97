SPECIFICATION Spec
CONSTANTS
  Peers <- TwoVrfs
  Lower <- PlainLower
  Routes <- OneRoute
  TypesOf <- TwoTypes
  Setups <- UnicastAndEvpn
  Peering <- Conditions
  MaxPeers = 2
  MaxChanges = 1
INVARIANTS
  TruthfulWhenQuiet
  LabelsAsNamed
  PresencePaired
  UniqueSeries
  AllOrNothing
  CompleteOnSuccess
  TypesUpExact
PROPERTIES
  ImplementsUpdate
