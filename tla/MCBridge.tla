------------------------------ MODULE MCBridge ------------------------------
(* TLC instance of Bridge: one publisher on each of two nodes. *)
EXTENDS Bridge

CONSTANTS n1, n2, p1, p2

HomeOf(p) == IF p = p1 THEN n1 ELSE n2
BothBackends == {"nng", "redis"}
=============================================================================
