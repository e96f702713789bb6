------------------------ MODULE MCExternalReplayRun ------------------------
(***************************************************************************)
(* Instances of ExternalReplayRun for TLC.                                 *)
(***************************************************************************)
EXTENDS ExternalReplayRun
=============================================================================
