SPECIFICATION Spec
CONSTANTS
  s1 = s1  s2 = s2
  bgpl2vpn = bgpl2vpn  status = status
  peer1 = peer1  peer2 = peer2
  Scrapes = {s1, s2}
  Collectors = {bgpl2vpn}
  Sites = {peer1}
  Program <- TwinProgram
  Fanout <- TwinFanout
  Capacity = 1
PROPERTIES
  ImplementsService
