SPECIFICATION MCFairSpec
CONSTANTS
  Lengths <- MCLengths
  Prefix = 2
  MinFrame = 4
  MaxFrame = 5
  Timeout = 2
  Initials = {0, 3}
  MaxTime = 3
  Tid = 1
  Tids = {1, 2}
  Sizes = {0, 1, 2, 3, 4}
  Cap = 3
  MaxPackets = 4
  Conns = {c1, c2}
  Requests = {"read", "write"}
  Selectors <- MCSelectors
  Used <- Mutations
  Kinds = {"response", "data", "stream", "none"}
  Forever = Forever
  MaxSeen = 3
  MaxRules = 2
  MaxOps = 4
INVARIANTS
  ReaderIsExact
  AcceptsExactly
  WindowsAreExact
  RepliesAreFaithful
PROPERTIES
  StartedFrameEnds
CHECK_DEADLOCK FALSE
