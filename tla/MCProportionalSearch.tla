----------------------- MODULE MCProportionalSearch -----------------------
(***************************************************************************)
(* Instances of ProportionalSearch for TLC.                                *)
(***************************************************************************)
EXTENDS ProportionalSearch
=============================================================================
