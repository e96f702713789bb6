------------------------- MODULE MCControlledStudy -------------------------
(***************************************************************************)
(* Instances of ControlledStudy for TLC.                                   *)
(***************************************************************************)
EXTENDS ControlledStudy

TwoParticipants == 1 .. 2

\* With one unit each, access that one participant leaves idle goes to the
\* other in the replay, and a uniform request is halved when one is cut off.
MCCapacity == <<1, 1>>

\* math.fsum is exact on integers.
MCFSum(v) == v[1] + v[2]

(***************************************************************************)
(* A bound.  The first commands are any, with any task.  Later ones only   *)
(* go on where the source has been replaced once and no report has: they   *)
(* take the inputs through the new source, with tasks that ask for nothing.*)
(* A whole chain, from the source to the experiment, takes seven commands. *)
(***************************************************************************)
AnyCommands == 3
Later ==
  /\ source' = 2
  /\ reports' = <<DepositedReport({TableOf(0)}), DepositedReport({TableOf(0)}),
                  DepositedReport({}), package>>
  /\ package'.rows = RowsOf(0, {TableOf(0)})
  /\ base' = Nothing /\ available' = Nothing

Bounded == commands' > AnyCommands => Later
=============================================================================
