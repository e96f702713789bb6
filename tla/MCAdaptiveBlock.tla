-------------------------- MODULE MCAdaptiveBlock --------------------------
(***************************************************************************)
(* Instances of AdaptiveBlock for TLC.                                     *)
(***************************************************************************)
EXTENDS AdaptiveBlock
=============================================================================
