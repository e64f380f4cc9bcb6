\* A single reboot request, every call answered.
CONSTANTS
  r1 = r1
  r2 = r2
  t1 = t1
  Requests = {r1}
  Kinds = {"RebootNode", "TerminateNode"}
  Kind <- MCKind
  NoOne = NoOne
  TimerSettles = TRUE
  MaxFaults = 0
SPECIFICATION Spec
INVARIANTS DuplicateOfAnother
CHECK_DEADLOCK FALSE
