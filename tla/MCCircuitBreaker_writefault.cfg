\* The ConfigMap write of a trip fails, then the pod restarts.
CONSTANTS
  Nodes = {n1, n2, n3}
  NumBuckets = 2
  TripPercentage = 0
  TripMaxNodes = 0
  TripMaxCordonedPercentage = 80
  TripMaxCordonedNodes = 2
  FleetSizes = {2, 4}
  MaxTime = 4
  MaxRestarts = 2
  CacheLag = FALSE
  ReadFaults = FALSE
  WriteFaults = TRUE
SPECIFICATION Spec
PROPERTY TripHolds
SYMMETRY Symmetry
CHECK_DEADLOCK FALSE
