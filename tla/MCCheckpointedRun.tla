------------------------- MODULE MCCheckpointedRun -------------------------
(***************************************************************************)
(* Instances of CheckpointedRun for TLC.                                   *)
(***************************************************************************)
EXTENDS CheckpointedRun

MCOwners2 == 1 .. 2
MCOwners3 == 1 .. 3

\* Owners that wait for the workers of their predecessors; days may raise.
Patient == [workers |-> 2, hasty |-> {}, mayFail |-> TRUE]

\* The second owner starts as soon as the first has ended; one worker,
\* so that the iterator outlasts the first submission.
Hasty == [workers |-> 1, hasty |-> {2}, mayFail |-> FALSE]

MCBoth == {Patient, Hasty}
MCHasty == {Hasty}
=============================================================================
