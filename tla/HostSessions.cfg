SPECIFICATION Spec
CONSTANTS
  MaxInst = 2
  MaxProc = 2
  MaxSess = 2
  MaxFaults = 1
INVARIANTS ChildrenAccounted ListedHandlesEnd RetiredSessionLeaves
CHECK_DEADLOCK FALSE
