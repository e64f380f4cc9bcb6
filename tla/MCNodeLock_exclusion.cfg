\* Two reboot requests and one of another kind, under two faults or restarts.
CONSTANTS
  r1 = r1
  r2 = r2
  t1 = t1
  Requests = {r1, r2, t1}
  Kinds = {"RebootNode", "TerminateNode"}
  Kind <- MCKind
  NoOne = NoOne
  TimerSettles = TRUE
  MaxFaults = 2
SPECIFICATION Spec
INVARIANTS TypeOK MutualExclusion RebootExclusive NeverForgotten
CHECK_DEADLOCK FALSE
