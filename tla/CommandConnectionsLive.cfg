SPECIFICATION FairSpec
CONSTANTS
  Conns = {c1, c2}
  NoConn = NoConn
  CommandSlots = 2
  MaxCompleted = 1
  Faults = {}
PROPERTIES
  SessionsEnd
CHECK_DEADLOCK FALSE
