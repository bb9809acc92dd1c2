SPECIFICATION Spec
CONSTANTS
  Sites <- MCSites
  Lookups = {FALSE}
INVARIANTS WritesAtHome OneInterfacePerPort CompleteAfterApply PlanHasNoErrors PassedOverIsSameSwitch
PROPERTIES OnePortChannel
CHECK_DEADLOCK FALSE
