SPECIFICATION FairSpec
CONSTANTS
    NumEvents = 3
    xid = xid
    nic = nic
    Checks <- MCChecks
    CordonChecks <- MCCordonChecks
    MaxOps = 1
    MaxCrashes = 1
    MaxFaults = 1
    InformerSettles = TRUE
INVARIANT TypeOK
INVARIANT PatchBaseCurrent
 
 
 
 
CHECK_DEADLOCK FALSE
