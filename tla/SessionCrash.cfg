CONSTANTS
  s1 = s1
  Sessions = {s1}
  c1 = c1
  c2 = c2
  Calls = {c1, c2}
  SlowCreates = {}
  NoSession = NoSession
  Stranger = Stranger
  MaxTmuxId = 2
  MaxAsks = 2
  MaxRestarts = 0
  MaxServerDeaths = 1
  MaxCrashes = 1
SPECIFICATION Spec
SYMMETRY CallSymmetry
INVARIANTS TypeOK OneRestorer
PROPERTIES QuietRefreshSettles RestorableOnlyIfGone
CHECK_DEADLOCK FALSE
