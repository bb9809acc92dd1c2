SPECIFICATION Spec
CONSTANTS
  Sites <- OutOfScopeSites
  Lookups = {TRUE, FALSE}
INVARIANTS WritesAtHome
CHECK_DEADLOCK FALSE
