SPECIFICATION Spec
CONSTANTS
  InstanceLists <- AllLists
  Vrfs <- PlainVrfs
  Lower <- PlainLower
  MaxChanges = 2
INVARIANTS
  PanicsOnlyAtZero
  LabelsAsNamed
  UniqueSeries
  CompleteOnSuccess
PROPERTIES
  ImplementsUpdate
