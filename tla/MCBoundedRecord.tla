-------------------------- MODULE MCBoundedRecord --------------------------
(***************************************************************************)
(* Instances of BoundedRecord for TLC.                                     *)
(***************************************************************************)
EXTENDS BoundedRecord, Functions

TwoParticipants == 1 .. 2

\* A replay scale of 3/4 after a first scale of 1/2 serves the second
\* participant better and the first one worse than before.
MCCapacity == <<4, 3>>

\* math.fsum is exact on integers.
MCFSum(v) == FoldFunction(+, 0, v)

\* run_feedback.py submits every sign, radius and mode, and the exact case.
MCRadius == <<1, 1>>
Exact == [sign |-> 0, radius |-> Nothing, mode |-> "LOWER_BOUND"]
MCCases ==
  {Exact} \cup [sign : {-1, 1}, radius : {MCRadius}, mode : Modes]
=============================================================================
