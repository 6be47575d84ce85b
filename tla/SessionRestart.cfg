CONSTANTS
  s1 = s1
  s2 = s2
  Sessions = {s1, s2}
  c1 = c1
  c2 = c2
  Calls = {c1, c2}
  SlowCreates = {s2}
  NoSession = NoSession
  Stranger = Stranger
  MaxTmuxId = 2
  MaxAsks = 2
  MaxRestarts = 1
  MaxServerDeaths = 0
  MaxCrashes = 0
SPECIFICATION Spec
SYMMETRY CallSymmetry
INVARIANTS EndsOnlyItsOwn CreateHasRow
CHECK_DEADLOCK FALSE
