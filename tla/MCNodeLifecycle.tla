--------------------------- MODULE MCNodeLifecycle ---------------------------
(* Small instances of NodeLifecycle for TLC: the primary and a secondary. *)
EXTENDS NodeLifecycle
CONSTANTS primary, n1
MCNodes == {primary, n1}
=============================================================================
