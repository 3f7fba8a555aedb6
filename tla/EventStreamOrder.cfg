SPECIFICATION StreamSpec
CONSTANTS
  Conns = {c1, c2}
  Subscribers = {k1}
  Capacity = 2
  MaxPush = 2
  MaxPushed = 3
INVARIANTS
  SeenInOrder
CHECK_DEADLOCK FALSE
