SPECIFICATION Spec
CONSTANTS
  Op = {o1, o2}
  MaxSeq = 2
  MaxFrames = 3
  MaxDown = 1
  MaxRelink = 1
  MaxParked = 1
  InitialGrant = 2
  TopUp = 1
  MaxStream = 3
INVARIANTS TypeOK RelayedOnce WindowOvershoot CreditConserved
PROPERTIES TombstoneHolds
CHECK_DEADLOCK FALSE
SYMMETRY Symmetry
