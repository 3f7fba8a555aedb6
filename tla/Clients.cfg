SPECIFICATION Spec
CONSTANTS
  BcNothing = BcNothing
INVARIANTS
  DataPhasesAreWhole
  
  WalkIsReported
  ConnectionIsSound
  InitiatorEndsClean
  TraceIsTrue
  PlansAreWalked
  ConsoleIsHonest
  ReviewIsFaithful
  SurfaceIsHonest
  DiscoveryIsSound
  ControlIsSound
  StartIsSound
CHECK_DEADLOCK FALSE
