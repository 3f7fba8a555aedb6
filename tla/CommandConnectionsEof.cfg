SPECIFICATION Spec
CONSTANTS
  Conns = {c1, c2}
  NoConn = NoConn
  CommandSlots = 1
  MaxCompleted = 1
  Faults = {"suppress"}
INVARIANTS
  EofWithOpenSessionIsLoss
CHECK_DEADLOCK FALSE
