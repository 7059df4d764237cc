SPECIFICATION FairSpec
CONSTANTS
  th1 = th1
  th2 = th2
  p = p
  Thread = {th1, th2}
  Logical = {p}
  NoLogical = NoLogical
  MaxInst = 2
  MaxTickets = 1
  MaxInflight = 1
  Ops = {"open", "close", "load", "dispose_instance"}
PROPERTIES WithdrawConcludes OperationsReturn
