SPECIFICATION Spec
CONSTANTS
  Aps <- MCAps
  DeviceOf <- MCDeviceOf
  Mate <- MCMate
  Fabrics <- MCFabrics
  Reports <- MCReports
  Runs = 2
  Faults = 1
  Changes = 1
INVARIANTS PlanIsCurrent GreenMeansCabled GreenRunIsLast
PROPERTIES KeepsReportedLinks
CHECK_DEADLOCK FALSE
