----------------------------- MODULE MCNodeLock -----------------------------
EXTENDS NodeLock

CONSTANTS r1, r2, t1

MCKind == [c \in Requests |-> IF c = t1 THEN "TerminateNode" ELSE "RebootNode"]

=============================================================================
