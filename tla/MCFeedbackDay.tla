--------------------------- MODULE MCFeedbackDay ---------------------------
(***************************************************************************)
(* An instance of FeedbackDay for TLC.                                     *)
(***************************************************************************)
EXTENDS FeedbackDay

TwoParticipants == 1 .. 2

\* A replay scale of 3/4 after a first scale of 1/2 serves the second
\* participant better and the first one worse than before.
MCCapacityGate == <<4, 3>>

\* math.fsum is exact on integers.
MCFSum(v) == v[1] + v[2]

Lag == [mode |-> "LAG_ONE_INTERVAL", num |-> 1, den |-> 1]
Dropout == [mode |-> "DETERMINISTIC_DROPOUT", num |-> 1, den |-> 1]
Under == [mode |-> "MULTIPLICATIVE", num |-> 1, den |-> 2]

ImperfectSettings == {Dropout, Under, Lag}
=============================================================================
