SPECIFICATION Spec
CONSTANTS
  Vrfs <- PlainVrfs
  Lower <- PlainLower
  Contents <- AllContents
  MaxChanges = 2
INVARIANTS
  LabelsAsNamed
  OneSnapshot
  UniqueSeries
  CompleteOnSuccess
  FailureContained
PROPERTY
  EveryStepCounts
