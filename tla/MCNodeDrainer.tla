--------------------------- MODULE MCNodeDrainer ---------------------------
(* Model-checking instances of NodeDrainer.                                *)
EXTENDS NodeDrainer

=============================================================================
