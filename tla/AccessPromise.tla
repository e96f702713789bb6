--------------------------- MODULE AccessPromise ---------------------------
(***************************************************************************)
(* What externality-conditioned feedback promises a participant, without   *)
(* replay, telemetry, tolerances or gate.  An access ceiling lies within   *)
(* the registered capacity.  It is lowered only by closing an interval in  *)
(* which access was scarce, only for a participant that left part of its   *)
(* award unused, and never below what that participant just delivered.     *)
(***************************************************************************)
EXTENDS Integers

CONSTANTS Participants, Capacity, MaxUnits

VARIABLES
  open,        \* is an interval in progress?
  ceiling,     \* access ceiling of each participant
  delivered,   \* delivery metered in the interval in progress
  unused,      \* participants that left part of their award unused
  scarce       \* did anyone receive less than it was admitted for?

vars == <<open, ceiling, delivered, unused, scarce>>

Vectors == [Participants -> 0 .. MaxUnits]
Nothing == [p \in Participants |-> 0]

Init ==
  /\ open = FALSE
  /\ ceiling = Capacity
  /\ delivered = Nothing
  /\ unused = {}
  /\ scarce = FALSE

Meter ==
  /\ ~open
  /\ open' = TRUE
  /\ delivered' \in Vectors
  /\ unused' \in SUBSET Participants
  /\ scarce' \in BOOLEAN
  /\ \A p \in Participants : delivered'[p] <= ceiling[p]
  /\ \A p \in unused' : delivered'[p] < ceiling[p]
  /\ UNCHANGED ceiling

Lowered(p) == ceiling'[p] < ceiling[p]

Close ==
  /\ open
  /\ open' = FALSE
  /\ ceiling' \in Vectors
  /\ \A p \in Participants :
       /\ delivered[p] <= ceiling'[p]
       /\ ceiling'[p] <= Capacity[p]
       /\ Lowered(p) => scarce /\ p \in unused
  /\ delivered' = Nothing
  /\ unused' = {}
  /\ scarce' = FALSE

\* Full access restored for everyone at a day boundary.
Restore ==
  /\ ~open
  /\ ceiling' = Capacity
  /\ UNCHANGED <<open, delivered, unused, scarce>>

Next == Meter \/ Close \/ Restore

Spec == Init /\ [][Next]_vars
=============================================================================
