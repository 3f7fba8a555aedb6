SPECIFICATION MCSpec
CONSTANTS
  Requests <- MCRequests
  Gates <- MCGates
  GateSequences <- MCSequences
  RequiresGate <- MCRequires
  Values <- MCValues
  Modes <- MCModes
  Detect <- MCDetect
  Declared <- MCDeclared
  TransferMode = "Transfer"
  Latched = {"Transfer"}
  Effects <- MCEffects
  None = "None"
  MaxLog = 4
  Conns = {c1, c2}
  Sizes <- MCSizes
  Faults = {"suppressData"}
  Written = {0}
  MaxLen = 2
  Total = 2
  Seeds = {0, 1}
  Busies = {1}
  PerShutter = 2
  MaxAction = 2
  CaptureRequests = {"s1", "s2", "s3", "capture"}
  Shutter <- MCShutter
  Captures = {"capture"}
  Announces = TRUE
SYMMETRY Symmetry
INVARIANTS
  TypeOK
  ProgressIsEarned
  GateIsEarned
  PhaseAgreesWithMode
  CountIsHonest
  CapturesAreExact
PROPERTIES
  KeepsPromise
CHECK_DEADLOCK FALSE
