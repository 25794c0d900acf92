------------------------------- MODULE MCScopes -------------------------------
(***************************************************************************)
(* Instances of Scopes for TLC.                                            *)
(***************************************************************************)
EXTENDS Scopes
=============================================================================
