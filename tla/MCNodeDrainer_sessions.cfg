\* Partial and full drains over two sessions.
CONSTANTS
  NumEvents = 3
  Entities = {"g1", "g2"}
  Kinds = {"fault"}
  Scopes = {"full", "g1"}
  Modes = {"immediate"}
  MaxCrashes = 0
  WriteFaults = FALSE
  CacheLag = FALSE
SPECIFICATION Spec
INVARIANTS TypeOK DrainedMeansEmpty 
CHECK_DEADLOCK FALSE
