SPECIFICATION Spec
CONSTANTS
  a1 = a1
  a2 = a2
  b1 = b1
  stackA = stackA
  switchB = switchB
  Inventory <- MCInventory
  StackOf <- MCStackOf
  Stacks <- MCStacks
  Drifts <- MCDrifts
  Steps = {"both"}
INVARIANTS OKMeansInSync
CHECK_DEADLOCK FALSE
