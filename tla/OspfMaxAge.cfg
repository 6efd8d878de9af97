SPECIFICATION Spec
CONSTANTS
  InstanceLists <- TwoInstances
  Vrfs <- PlainVrfs
  Lower <- PlainLower
  MaxChanges = 0
INVARIANTS
  MaxAgeLabelsAsNamed
