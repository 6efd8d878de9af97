SPECIFICATION Spec
CONSTANTS
  InstanceLists <- NoInstances
  Vrfs <- CaseVrfs
  Lower <- CaseLower
  MaxChanges = 0
INVARIANTS
  UniqueSeries
