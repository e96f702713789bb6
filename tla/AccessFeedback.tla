--------------------------- MODULE AccessFeedback ---------------------------
(***************************************************************************)
(* The pure functions of r4r/externality_feedback.py (and the telemetry    *)
(* signal of r4r/australian_policy.py) over vectors indexed by participant.*)
(*                                                                         *)
(* Powers are naturals on a grid of one unit; the program's floats are not *)
(* modelled bit by bit.  Where the code divides, the result is any grid    *)
(* value less than one unit away from the exact quotient, so every way of  *)
(* rounding is covered.                                                    *)
(***************************************************************************)
EXTENDS Integers

CONSTANTS
  Participants,   \* indices of the participant vectors
  Capacity,       \* registered_capacity_mw
  MaxUnits,       \* bound on every power
  Tolerance,      \* tolerance_mw (REPLAY_TOLERANCE_MW)
  BetaNum,        \* beta = BetaNum / BetaDen
  BetaDen,
  FSum(_),        \* math.fsum over a participant vector
  ScaleSteps,     \* the request scales explored are k / ScaleSteps
  NoPrevious      \* previous_available_mw is None

Powers == 0 .. MaxUnits
PowerVector == [Participants -> Powers]
Nothing == [p \in Participants |-> 0]

ASSUME BoundsAssumption ==
  /\ MaxUnits \in Nat
  /\ Tolerance \in Nat
  /\ ScaleSteps \in Nat \ {0}
  /\ Capacity \in PowerVector

\* update_access_ceiling raises ValueError unless 0 <= beta <= 1.
ASSUME BetaAssumption ==
  /\ BetaNum \in Nat
  /\ BetaDen \in Nat \ {0}
  /\ BetaNum <= BetaDen

\* All that is used of math.fsum: it is an integer here, it is zero on a zero
\* vector and, being correctly rounded, it never decreases when a term grows.
ASSUME FSumAssumption ==
  /\ \A v \in PowerVector : FSum(v) \in Int
  /\ FSum(Nothing) = 0
  /\ \A v, w \in PowerVector :
       (\A p \in Participants : v[p] <= w[p]) => FSum(v) <= FSum(w)

-----------------------------------------------------------------------------
Lesser(a, b) == IF a <= b THEN a ELSE b
NonNegative(a) == IF a < 0 THEN 0 ELSE a

\* v is no larger than w at any participant.
AtMost(v, w) == \A p \in Participants : v[p] <= w[p]

\* Fault: the carried ceiling is forgotten.
FaultCapacityOnly(request, ceiling) ==
  [p \in Participants |-> Lesser(NonNegative(request[p]), Capacity[p])]

ApplyAccessCeiling(request, ceiling) ==
  [p \in Participants |->
     Lesser(NonNegative(request[p]),
            Lesser(NonNegative(Capacity[p]), NonNegative(ceiling[p])))]

\* allocation.allocation_kw: request_scale * request.
Scaled(request, k) == [p \in Participants |-> (k * request[p]) \div ScaleSteps]

(***************************************************************************)
(* What the search may allocate: a common fraction of the request, and     *)
(* nothing when the base state of the interval fails its screens.          *)
(***************************************************************************)
Allocations(request, valid) ==
  IF valid THEN {Scaled(request, k) : k \in 0 .. ScaleSteps} ELSE {Nothing}

MeteredDelivery(allocation, available) ==
  [p \in Participants |->
     Lesser(NonNegative(allocation[p]), NonNegative(available[p]))]

IdleIndices(allocation, delivery) ==
  {p \in Participants : allocation[p] - delivery[p] > Tolerance}

\* Fault: the replay restores full access to the participants it does not cap.
FaultReplayAtCapacity(request, allocation, delivery) ==
  [p \in Participants |->
     IF p \in IdleIndices(allocation, delivery)
       THEN Lesser(request[p], NonNegative(delivery[p]))
       ELSE Capacity[p]]

FulfillmentReplayRequest(request, allocation, delivery) ==
  [p \in Participants |->
     IF p \in IdleIndices(allocation, delivery)
       THEN Lesser(request[p], NonNegative(delivery[p]))
       ELSE request[p]]

-----------------------------------------------------------------------------
\* max(after - before, 0) at the participants outside the idle set; the zeros
\* at idle participants do not change the sum.
OutsiderGain(before, after, idle) ==
  [p \in Participants |->
     IF p \in idle THEN 0 ELSE NonNegative(after[p] - before[p])]

GateReasons ==
  {"NO_IDLE_AWARD", "REPLAY_INVALID", "NO_OUTSIDER_ACCESS_RELEASE",
   "NO_OUTSIDER_DELIVERY_RECOVERY", "NO_NET_DELIVERY_RECOVERY",
   "RECOVERABLE_ALLOCATION_EXTERNALITY"}

\* Fault: the net effect on delivery is not assessed.
FaultNoNetCheck(allocation, delivery, replayAllocation, replayDelivery, idle, valid) ==
  IF idle = {} THEN "NO_IDLE_AWARD"
  ELSE IF ~valid THEN "REPLAY_INVALID"
  ELSE IF FSum(OutsiderGain(allocation, replayAllocation, idle)) <= Tolerance
    THEN "NO_OUTSIDER_ACCESS_RELEASE"
  ELSE IF FSum(OutsiderGain(delivery, replayDelivery, idle)) <= Tolerance
    THEN "NO_OUTSIDER_DELIVERY_RECOVERY"
  ELSE "RECOVERABLE_ALLOCATION_EXTERNALITY"

GateReason(allocation, delivery, replayAllocation, replayDelivery, idle, valid) ==
  IF idle = {} THEN "NO_IDLE_AWARD"
  ELSE IF ~valid THEN "REPLAY_INVALID"
  ELSE IF FSum(OutsiderGain(allocation, replayAllocation, idle)) <= Tolerance
    THEN "NO_OUTSIDER_ACCESS_RELEASE"
  ELSE IF FSum(OutsiderGain(delivery, replayDelivery, idle)) <= Tolerance
    THEN "NO_OUTSIDER_DELIVERY_RECOVERY"
  ELSE IF FSum(replayDelivery) - FSum(delivery) <= Tolerance
    THEN "NO_NET_DELIVERY_RECOVERY"
  ELSE "RECOVERABLE_ALLOCATION_EXTERNALITY"

GateTriggered(reason) == reason = "RECOVERABLE_ALLOCATION_EXTERNALITY"

-----------------------------------------------------------------------------
\* Fault: every idle award is cut, whether or not the gate opened.
FaultTargetIgnoresGate(p, delivery, idle, gate) ==
  IF p \in idle THEN Lesser(NonNegative(delivery[p]), Capacity[p])
                ELSE Capacity[p]

\* The value a ceiling moves towards.
CeilingTarget(p, delivery, idle, gate) ==
  IF gate /\ p \in idle
    THEN Lesser(NonNegative(delivery[p]), Capacity[p])
    ELSE Capacity[p]

\* (1 - beta) * previous + beta * target, clipped to [0, capacity].
BlendedCeilings(previous, target, capacity) ==
  LET exact == (BetaDen - BetaNum) * previous + BetaNum * target
  IN {c \in 0 .. capacity : /\ BetaDen * c - exact < BetaDen
                            /\ exact - BetaDen * c < BetaDen}

\* Fault: without a restriction the ceiling is left as it is.
FaultNoRecovery(ceiling, delivery, idle, gate) ==
  {c \in PowerVector : \A p \in Participants :
     IF gate /\ p \in idle
       THEN c[p] \in BlendedCeilings(ceiling[p],
                       CeilingTarget(p, delivery, idle, gate), Capacity[p])
       ELSE c[p] = ceiling[p]}

UpdatedCeilings(ceiling, delivery, idle, gate) ==
  LET blended == [p \in Participants |->
        BlendedCeilings(ceiling[p], CeilingTarget(p, delivery, idle, gate),
                        Capacity[p])]
  IN {c \in [Participants -> UNION {blended[p] : p \in Participants}] :
        \A p \in Participants : c[p] \in blended[p]}

-----------------------------------------------------------------------------
(***************************************************************************)
(* post_event_availability_signal.  A setting is a telemetry mode with its *)
(* scale num / den (used by MULTIPLICATIVE alone).  dropped is the set     *)
(* that deterministic_dropout_mask selects: a hash decides it, so any set  *)
(* may be selected.  previous is NoPrevious until an interval of the day   *)
(* has been completed.                                                     *)
(***************************************************************************)
TelemetryModes ==
  {"EXACT", "MULTIPLICATIVE", "LAG_ONE_INTERVAL", "DETERMINISTIC_DROPOUT"}

Settings == [mode : TelemetryModes, num : Nat, den : Nat \ {0}]

SignalCandidate(setting, available, delivery, previous, dropped) ==
  [p \in Participants |->
     CASE setting.mode = "EXACT" -> available[p]
       [] setting.mode = "MULTIPLICATIVE" ->
            (setting.num * available[p]) \div setting.den
       [] setting.mode = "LAG_ONE_INTERVAL" ->
            IF previous = NoPrevious THEN delivery[p] ELSE previous[p]
       [] setting.mode = "DETERMINISTIC_DROPOUT" ->
            IF p \in dropped THEN delivery[p] ELSE available[p]]

\* Every mode is floored at metered delivery, which was observed.
AvailabilitySignal(setting, available, delivery, previous, dropped) ==
  LET candidate ==
        SignalCandidate(setting, available, delivery, previous, dropped)
  IN [p \in Participants |->
        IF candidate[p] < delivery[p] THEN delivery[p] ELSE candidate[p]]

DropoutMasks(setting) ==
  IF setting.mode = "DETERMINISTIC_DROPOUT" THEN SUBSET Participants ELSE {{}}

\* Settings whose signal cannot rise above the true availability.
Conservative(setting) ==
  \/ setting.mode \in {"EXACT", "DETERMINISTIC_DROPOUT"}
  \/ setting.mode = "MULTIPLICATIVE" /\ setting.num <= setting.den
=============================================================================
