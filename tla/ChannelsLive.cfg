SPECIFICATION MCFairSpec
CONSTANTS
  Clients = {k1, k2}
  NoGen = None
  Admitted = 2
  MaxEpoch = 2
  SocketErrors = FALSE
  Commands = {c1, c2}
  Events = {e1, e2}
  MaxNumber = 2
  Conns = {c1, c2}
  Subscribers = {k1}
  Capacity = 2
  MaxPush = 2
  MaxPushed = 3
  Writers = {w1, w2}
  Targets = {t1}
  Never = None
  Bodies = 2
  MaxState = 2
  MaxVersion = 2
  Losses = {"abort", "teardown", "post", "shutdown"}
  MaxEvents = 1
  MaxRecorded = 1
  Lives = 1
  InstanceId <- MCInstanceId
  None = None
PROPERTIES
  ConnectionsAreServed
  ChangesArrive
CHECK_DEADLOCK FALSE
