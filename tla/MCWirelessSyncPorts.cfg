SPECIFICATION Spec
CONSTANTS
  Reports <- MCReports
  NetBoxes <- MCNetBoxes
  Modes <- MCModes
  Faults = 2
INVARIANTS PortsResumeToo
CHECK_DEADLOCK FALSE
