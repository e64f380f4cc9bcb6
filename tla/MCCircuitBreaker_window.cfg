\* Window bounds: percentage and absolute, a fleet whose size changes, faults.
CONSTANTS
  Nodes = {n1, n2, n3}
  NumBuckets = 3
  TripPercentage = 50
  TripMaxNodes = 2
  TripMaxCordonedPercentage = 0
  TripMaxCordonedNodes = 0
  FleetSizes = {0, 3, 4}
  MaxTime = 7
  MaxRestarts = 1
  CacheLag = TRUE
  ReadFaults = TRUE
  WriteFaults = TRUE
SPECIFICATION Spec
INVARIANTS TypeOK WindowConsistent WindowExact BlastRadius
SYMMETRY Symmetry
CHECK_DEADLOCK FALSE
