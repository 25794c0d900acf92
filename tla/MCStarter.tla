------------------------------- MODULE MCStarter -------------------------------
(***************************************************************************)
(* Instances of Starter for TLC.                                           *)
(***************************************************************************)
EXTENDS Starter

CONSTANTS a, b

OneImpatient == {b}
NoneImpatient == {}
=============================================================================
