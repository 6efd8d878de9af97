SPECIFICATION Spec
CONSTANTS
  s1 = s1  s2 = s2
  bgpl2vpn = bgpl2vpn  status = status
  peer1 = peer1  peer2 = peer2
  Scrapes = {s1}
  Collectors = {bgpl2vpn, status}
  Sites = {peer1, peer2}
  Program <- FanProgram
  Fanout <- FanFanout
  Capacity = 2
INVARIANTS
  TypeOK
  NoLiveSender
  BarrierCounts
  CompleteWhenUp
  StopsAtFailure
  NoDeadlock
PROPERTIES
  VerdictIsLast
  EveryStepCounts
  ImplementsUpdate
