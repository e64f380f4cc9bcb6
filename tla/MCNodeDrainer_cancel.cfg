\* A manual uncordon while the drain is starting.
CONSTANTS
  NumEvents = 1
  Entities = {"g1"}
  Kinds = {"fault"}
  Scopes = {"full"}
  Modes = {"immediate"}
  MaxCrashes = 0
  WriteFaults = FALSE
  CacheLag = FALSE
SPECIFICATION Spec
PROPERTIES CancelStopsDrain
CHECK_DEADLOCK FALSE
