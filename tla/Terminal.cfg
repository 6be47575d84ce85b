CONSTANTS
  High = 1
  Low = 1
  FlushNow = 2
  MaxMounts = 2
  MaxWindows = 2
  MaxPrints = 4
  MaxFailures = 1
SPECIFICATION FairSpec
INVARIANTS TypeOK NoOrphan Backpressure FarPaneIsServed
PROPERTIES StreamResumes
CHECK_DEADLOCK FALSE
