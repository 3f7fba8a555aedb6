SPECIFICATION MCSpec
CONSTANTS
  Clients = {k1, k2}
  NoGen = None
  Admitted = 1
  MaxEpoch = 3
  SocketErrors = TRUE
  Commands = {c1, c2}
  Events = {e1, e2, e3}
  MaxNumber = 3
  Conns = {c1, c2}
  Subscribers = {k1, k2}
  Capacity = 2
  MaxPush = 2
  MaxPushed = 3
  Writers = {w1, w2}
  Targets = {t1, t2}
  Never = None
  Bodies = 2
  MaxState = 3
  MaxVersion = 3
  Losses = {"abort", "teardown", "post", "shutdown"}
  MaxEvents = 2
  MaxRecorded = 4
  Lives = 3
  InstanceId <- MCInstanceId
  None = None
INVARIANTS
  ListenerIsExact
  PairingIsExact
  ExactlyOnce
  QuiescentIsCurrent
  TailIsExact
CHECK_DEADLOCK FALSE
