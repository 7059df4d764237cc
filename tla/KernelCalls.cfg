SPECIFICATION Spec
CONSTANTS
  th1 = th1
  th2 = th2
  p = p
  Thread = {th1, th2}
  Logical = {p}
  NoLogical = NoLogical
  MaxInst = 1
  MaxTickets = 2
  MaxInflight = 1
  Ops = {"open", "commit", "close", "cancel", "reap", "load", "dispose_instance", "acquire"}
SYMMETRY ThreadSymmetry
INVARIANTS ReleaseInvariant NoEarlyRelease AuthorityEndsAtCleanup SingleRelease
