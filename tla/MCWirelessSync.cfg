SPECIFICATION Spec
CONSTANTS
  Reports <- MCReports
  NetBoxes <- MCNetBoxes
  Modes <- MCModes
  Faults = 2
INVARIANTS GreenMeansInNetBox ResumesAlone PrimaryIsOwn PlanForetells
PROPERTIES UplinksStayAttached
CHECK_DEADLOCK FALSE
