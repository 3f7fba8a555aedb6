SPECIFICATION Spec
CONSTANTS
  Conns = {c1, c2}
  NoConn = NoConn
  CommandSlots = 2
  MaxCompleted = 1
  Faults = {"close", "suppress"}
INVARIANTS
  TypeOK
  OpenSessionHasLiveOwner
  OpenClaimIsOwners
  RegistryIsExact
PROPERTIES
  TeardownSparesReplacement
CHECK_DEADLOCK FALSE
