\* Drains conclude and ended sessions stay ended across a crash, with a
\* lagging node informer.
CONSTANTS
  NumEvents = 2
  Entities = {"g1"}
  Kinds = {"fault"}
  Scopes = {"full"}
  Modes = {"completion", "timeout"}
  MaxCrashes = 1
  WriteFaults = FALSE
  CacheLag = TRUE
SPECIFICATION FairSpec
PROPERTIES DrainConcludes SessionEndStopsDrain
CHECK_DEADLOCK FALSE
