-------------------------- MODULE MCFaultQuarantine --------------------------
(* Instances of FaultQuarantine for TLC. *)
EXTENDS FaultQuarantine

CONSTANTS xid, nic

MCChecks == {xid, nic}

\* Only the rule set of xid cordons; that of nic taints.
MCCordonChecks == {xid}

=============================================================================
