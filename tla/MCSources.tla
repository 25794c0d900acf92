------------------------------ MODULE MCSources ------------------------------
(***************************************************************************)
(* Instances of Sources for TLC.  The names of files are interchangeable.  *)
(***************************************************************************)
EXTENDS Sources, TLC

CONSTANTS f, g

Symmetry == Permutations(Files)
=============================================================================
