------------------------- MODULE UninterruptedBlock -------------------------
(***************************************************************************)
(* What a job over a block of consecutive dates promises: the dates are    *)
(* published in order, each once, and the record of a date is the one that *)
(* a process which never stopped would have left: it starts from all that  *)
(* was learned on the earlier dates of the block and ends with its own     *)
(* intervals added.                                                        *)
(***************************************************************************)
EXTENDS Integers

CONSTANTS
  LastDay,       \* dates of the block, numbered from 1
  LastInterval,  \* intervals of a date
  Branches,      \* control branches
  OpenLoop,      \* the branch whose ceiling stays at capacity
  Mode           \* "ADAPTIVE" or "STATIC_RANDOM"

VARIABLE published   \* record of each published date

\* The intervals of the block, numbered through, up to the end of a date.
Until(day) == [i \in 1 .. LastInterval * day |-> i]

\* What the ceilings and the preferences have been computed from.
CeilingOf(history) ==
  [c \in Branches |-> IF c = OpenLoop THEN <<>> ELSE history]
WeightsOf(history) ==
  [c \in Branches |-> IF Mode = "ADAPTIVE" THEN history ELSE <<>>]

Record(day) ==
  [startCeiling |-> CeilingOf(Until(day - 1)), startWeights |-> WeightsOf(Until(day - 1)),
   endCeiling |-> CeilingOf(Until(day)), endWeights |-> WeightsOf(Until(day))]

Init == published = [d \in {} |-> Record(d)]

Publish ==
  \E day \in 1 .. LastDay :
    /\ DOMAIN published = 1 .. day - 1
    /\ published' = [d \in 1 .. day |-> IF d = day THEN Record(d) ELSE published[d]]

Spec == Init /\ [][Publish]_published
=============================================================================
