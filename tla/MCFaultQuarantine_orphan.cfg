SPECIFICATION Spec
CONSTANTS
    NumEvents = 3
    xid = xid
    nic = nic
    Checks <- MCChecks
    CordonChecks <- MCCordonChecks
    MaxOps = 1
    MaxCrashes = 0
    MaxFaults = 0
    InformerSettles = TRUE
INVARIANT NoOrphanedCordon
CHECK_DEADLOCK FALSE
