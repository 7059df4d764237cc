SPECIFICATION FairSpec
CONSTANTS
  Wait = {w1, w2, w3}
  Opens = {w3}
  Rid = {r1, r2}
  MaxPending = 1
  Commands = 1
  ControlQueue = 1
INVARIANTS TypeOK NoWaiterLeft
PROPERTIES SlotsDrain
CHECK_DEADLOCK FALSE
