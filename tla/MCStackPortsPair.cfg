SPECIFICATION Spec
CONSTANTS
  Sites <- PairSites
  Lookups = {FALSE}
INVARIANTS PassedOverIsSameSwitch
CHECK_DEADLOCK FALSE
