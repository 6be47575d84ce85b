CONSTANTS
  Keep = 2
  MaxCaptures = 5
  MaxFaults = 2
  MaxDeaths = 2
  MaxRots = 1
  MayMisread = FALSE
SPECIFICATION Spec
INVARIANTS TypeOK
PROPERTIES KeepsPromise ProofSurvives NeverOverwrites
CHECK_DEADLOCK FALSE
