------------------------------- MODULE MCFlow -------------------------------
(* One message, every way to configure the route it takes. *)
EXTENDS Flow
=============================================================================
