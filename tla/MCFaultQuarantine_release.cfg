SPECIFICATION Spec
CONSTANTS
    NumEvents = 3
    xid = xid
    nic = nic
    Checks <- MCChecks
    CordonChecks <- MCCordonChecks
    MaxOps = 0
    MaxCrashes = 0
    MaxFaults = 1
    InformerSettles = TRUE
INVARIANT FailedReleaseRetried
CHECK_DEADLOCK FALSE
