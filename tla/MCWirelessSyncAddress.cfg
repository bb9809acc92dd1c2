SPECIFICATION Spec
CONSTANTS
  Reports <- MCReports
  NetBoxes <- MCNetBoxes
  Modes <- MCModes
  Faults = 2
INVARIANTS GreenMeansAddressed
CHECK_DEADLOCK FALSE
