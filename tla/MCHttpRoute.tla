---------------------------- MODULE MCHttpRoute -----------------------------
(* Requests are interchangeable, but liveness is checked: no symmetry. *)
EXTENDS HttpRoute
=============================================================================
