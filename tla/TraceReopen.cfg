SPECIFICATION Spec
CONSTANTS
  Runs = {1}
  Lengths = {3}
  RangeBytes = 2
  MaxInline = 3
  MaxRecorded = 0
  MaxRecords = 3
  MaxTid = 1
  MaxFrames = 2
  MaxCrashes = 1
  MaxFaults = 1
INVARIANTS
  AcceptedBundleStaysReadable
CHECK_DEADLOCK FALSE
