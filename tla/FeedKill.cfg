CONSTANTS
  s1 = s1
  s2 = s2
  Sessions = {s1, s2}
  MaxIds = 1
  MaxServers = 2
  MaxStarts = 1
  MaxPasses = 2
  MaxEvents = 2
SPECIFICATION Spec
PROPERTIES KillReachesItsOwn
CHECK_DEADLOCK FALSE
