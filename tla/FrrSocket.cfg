SPECIFICATION Spec
CONSTANTS
  q1 = q1  q2 = q2
  Calls = {q1, q2}
  Payload <- TwoPayloads
  BufSize = 2
  Timeout = 3
  Cost = 1
INVARIANTS
  TypeOK
  WithinTimeout
  ConnectionReleased
  Conserved
  NobodyStarves
PROPERTIES
  ImplementsCommand
