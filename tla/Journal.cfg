CONSTANTS
  s1 = s1
  Sessions = {s1}
  MaxAttempts = 2
  MaxCrashes = 2
  MaxFaults = 1
SPECIFICATION FairSpec
INVARIANTS TypeOK NoneLeftBehind ToldOnce ClosedIsRecorded NotDenied
PROPERTIES ToldTruly AttemptsClose
CHECK_DEADLOCK FALSE
