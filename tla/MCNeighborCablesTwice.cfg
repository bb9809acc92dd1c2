SPECIFICATION Spec
CONSTANTS
  Aps <- MCAps
  DeviceOf <- MCDeviceOf
  Mate <- MCMate
  Fabrics <- MCFabrics
  Reports <- TwiceReports
  Runs = 2
  Faults = 0
  Changes = 0
INVARIANTS PlanIsCurrent
CHECK_DEADLOCK FALSE
