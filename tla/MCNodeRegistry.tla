--------------------------- MODULE MCNodeRegistry ---------------------------
(* Instances of NodeRegistry for TLC. *)
EXTENDS NodeRegistry
CONSTANTS n1, n2, r1, r2
=============================================================================
