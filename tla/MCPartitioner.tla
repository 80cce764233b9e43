--------------------------- MODULE MCPartitioner ---------------------------
(***************************************************************************)
(* TLC instances of Partitioner.  Keys are interchangeable; so are the     *)
(* submitters that may cancel, and those that may not.                     *)
(***************************************************************************)
EXTENDS Partitioner, TLC

KeySymmetry == Permutations(Keys)
=============================================================================
