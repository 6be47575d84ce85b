CONSTANTS
  s1 = s1
  s2 = s2
  Sessions = {s1, s2}
  MaxIds = 1
  MaxServers = 2
  MaxStarts = 2
  MaxPasses = 2
  MaxEvents = 1
SPECIFICATION FairSpec
INVARIANTS TypeOK ScrollReachesItsOwn AlwaysFed
PROPERTIES RemoveStands Converges ConnectionHeals
CHECK_DEADLOCK FALSE
