CONSTANTS
  MaxWorks = 3
  MaxCrashes = 1
  MaxQuits = 2
  MaxFaults = 1
SPECIFICATION Spec
INVARIANTS TypeOK NoneOwned CutOffTold FinishedNotTold
CHECK_DEADLOCK FALSE
