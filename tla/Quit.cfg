CONSTANTS
  w = w
  i = i
  v1 = v1
  Windows = {w}
  Insiders = {i}
  Verbs = {v1}
  LongVerbs = {}
  MaxBoots = 2
  MaxCycles = 1
  MaxTakes = 1
SPECIFICATION FairSpec
INVARIANTS TypeOK NoneCutOff OneOpenCore
PROPERTIES QuitLosesNothing QuitEnds QuitDisposes
CHECK_DEADLOCK FALSE
