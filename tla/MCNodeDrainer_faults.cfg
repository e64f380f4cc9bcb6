\* Failing store and label writes, a crash, skipped drains and scopes that
\* cannot be resolved, under every way of evicting.
CONSTANTS
  NumEvents = 2
  Entities = {"g1"}
  Kinds = {"fault", "skip"}
  Scopes = {"full", "unsupported"}
  Modes = {"immediate", "timeout", "completion"}
  MaxCrashes = 1
  WriteFaults = TRUE
  CacheLag = FALSE
SPECIFICATION Spec
INVARIANTS DrainedMeansEmpty
CHECK_DEADLOCK FALSE
