CONSTANTS
  s1 = s1
  Sessions = {s1}
  c1 = c1
  c2 = c2
  Calls = {c1, c2}
  SlowCreates = {}
  NoSession = NoSession
  Stranger = Stranger
  MaxTmuxId = 1
  MaxAsks = 1
  MaxRestarts = 0
  MaxServerDeaths = 0
  MaxCrashes = 0
SPECIFICATION Spec
SYMMETRY CallSymmetry
PROPERTIES GoneIsNotUnborn
CHECK_DEADLOCK FALSE
