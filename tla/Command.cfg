SPECIFICATION Spec
CONSTANTS
  q1 = q1  q2 = q2  q3 = q3
  Calls = {q1, q2, q3}
  ByInstance = {q3}
  Payload <- Payloads
  Enabled <- TwoCollectors
  Timeout = 2
INVARIANTS
  SocketsUntouched
  LateOnlyBehindSudo
  OutputConserved
PROPERTIES
  ImplementsCommandSafety
  Returns
