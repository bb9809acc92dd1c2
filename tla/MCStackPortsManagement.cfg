SPECIFICATION Spec
CONSTANTS
  Sites <- OtherMemberSites
  Lookups = {FALSE}
INVARIANTS CompleteAfterApply
CHECK_DEADLOCK FALSE
