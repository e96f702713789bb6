--------------------------- MODULE BoundedRecord ---------------------------
(***************************************************************************)
(* Feedback that never sees the true availability: task and                *)
(* choose_transition of archive 176, with assess_bounded_record of archive *)
(* 175.  An interval is completed by the environment, which leaves a       *)
(* record of the availability with a declared error radius; the controller *)
(* decides from the record alone.  One action per step of the loop body:   *)
(*                                                                         *)
(*   Complete   ceiling applied, allocation, metering, record              *)
(*   Screen     replay allocated, its recorded delivery screened           *)
(*   Conflict   the screen raises: a candidate export at a metered import  *)
(*   Decide     record assessed, which may raise, and ceiling updated      *)
(*   NextDay    the next date of the case, from full access again          *)
(*                                                                         *)
(* An exception ends the task of the case.  Powers are on the grid of      *)
(* AccessFeedback.  The checkpoint of a finished day is left out here.     *)
(***************************************************************************)
EXTENDS AccessFeedback

CONSTANTS
  IntervalsPerDay,   \* range(48)
  Cases              \* what the pool submits: sign, radius and mode

Modes == {"POINT", "LOWER_BOUND"}
Signs == {-1, 0, 1}

\* The case without a sign is the one without an error.
ASSUME RecordAssumption ==
  /\ IntervalsPerDay \in Nat \ {0}
  /\ Cases \subseteq [sign : Signs, radius : PowerVector, mode : Modes]
  /\ \A c \in Cases : c.sign = 0 => c.radius = Nothing

VARIABLES
  case,          \* the case of this task
  stage,         \* where the loop body is
  interval,      \* loop variable t
  ceiling,       \* state
  base,          \* does the interval's base state pass its screens?
  request,
  award,         \* x
  importing,     \* participants with a positive metered import
  available,     \* actual_a
  delivery,      \* y
  record,        \* h
  replayAward,   \* xr
  physical,      \* replay and its record screen passed
  reason         \* reason of the last assessment

completed == <<base, request, award, importing, available, delivery, record>>
vars == <<case, stage, interval, ceiling, completed, replayAward, physical,
          reason>>

Stages == {"complete", "screen", "decide", "dayDone", "stopped"}
Rejections == {"DELIVERY_EXCEEDS_AWARD", "RECORD_BOUND_CONTRADICTS_DELIVERY"}
NotAssessed == "NOT_ASSESSED"
Raised == "IMPORT_CONFLICT"

TypeOK ==
  /\ case \in Cases
  /\ stage \in Stages
  /\ interval \in 0 .. IntervalsPerDay
  /\ ceiling \in PowerVector
  /\ base \in BOOLEAN
  /\ request \in PowerVector
  /\ award \in PowerVector
  /\ importing \in SUBSET Participants
  /\ available \in PowerVector
  /\ delivery \in PowerVector
  /\ record \in [Participants -> Nat]
  /\ replayAward \in PowerVector
  /\ physical \in BOOLEAN
  /\ reason \in GateReasons \cup Rejections \cup {NotAssessed, Raised}

-----------------------------------------------------------------------------
(***************************************************************************)
(* assess_bounded_record, for a record declared valid.  After its own      *)
(* checks it asks the questions of assess_replay, in that order, about the *)
(* least delivery that the record allows; the reasons keep the names they  *)
(* have there.                                                             *)
(***************************************************************************)

\* Fault: the declared radius is not subtracted.
FaultIgnoresRadius(y, h, radius) ==
  [p \in Participants |-> IF h[p] < y[p] THEN y[p] ELSE h[p]]

LowerAvailability(y, h, radius) ==
  [p \in Participants |->
     IF h[p] - radius[p] < y[p] THEN y[p] ELSE h[p] - radius[p]]

AssessBoundedRecord(x, y, xr, h, radius, valid) ==
  IF \E p \in Participants : y[p] > x[p] THEN "DELIVERY_EXCEEDS_AWARD"
  ELSE IF \E p \in Participants : h[p] + radius[p] < y[p]
    THEN "RECORD_BOUND_CONTRADICTS_DELIVERY"
  ELSE GateReason(x, y, xr,
                  MeteredDelivery(xr, LowerAvailability(y, h, radius)),
                  IdleIndices(x, y), valid)

\* Fault: the record is not floored at metered delivery.
FaultRecordUnfloored(y, a, c) ==
  [p \in Participants |-> NonNegative(a[p] + c.sign * c.radius[p])]

\* np.maximum(y, actual_a + case['sign'] * delta)
RecordOf(y, a, c) ==
  [p \in Participants |->
     IF a[p] + c.sign * c.radius[p] < y[p]
       THEN y[p] ELSE a[p] + c.sign * c.radius[p]]

\* Fault: the modes are swapped.
FaultModesSwapped == IF case.mode = "POINT" THEN case.radius ELSE Nothing

\* What choose_transition subtracts: POINT ignores the radius.
UsedRadius == IF case.mode = "LOWER_BOUND" THEN case.radius ELSE Nothing

Idle == IdleIndices(award, delivery)

-----------------------------------------------------------------------------
Init ==
  /\ case \in Cases
  /\ stage = "complete"
  /\ interval = 0
  /\ ceiling = Capacity
  /\ base = FALSE
  /\ request = Nothing
  /\ award = Nothing
  /\ importing = {}
  /\ available = Nothing
  /\ delivery = Nothing
  /\ record = Nothing
  /\ replayAward = Nothing
  /\ physical = FALSE
  /\ reason = NotAssessed

\* Availability is what the photovoltaics leave after the load, so a
\* participant that imports has none.
Complete ==
  /\ stage = "complete"
  /\ \E raw \in PowerVector :
       AtMost(raw, Capacity) /\ request' = ApplyAccessCeiling(raw, ceiling)
  /\ base' \in BOOLEAN
  /\ award' \in Allocations(request', base')
  /\ available' \in PowerVector
  /\ importing' \in SUBSET {p \in Participants : available'[p] = 0}
  /\ delivery' = MeteredDelivery(award', available')
  /\ record' = RecordOf(delivery', available', case)
  /\ stage' = "screen"
  /\ UNCHANGED <<case, interval, ceiling, replayAward, physical, reason>>

\* min(xr, record) exports where the meter shows an import.
Conflicting(xr) == \E p \in importing : xr[p] > 0 /\ record[p] > 0

ReplayAllocations ==
  Allocations(FulfillmentReplayRequest(request, award, delivery), base)

Screen ==
  /\ stage = "screen"
  /\ replayAward' \in ReplayAllocations
  /\ ~Conflicting(replayAward')
  /\ physical' \in BOOLEAN
  /\ physical' => base
  /\ stage' = "decide"
  /\ UNCHANGED <<case, interval, ceiling, completed, reason>>

\* The vectors of an interval do not outlive it.
Forgotten ==
  /\ base' = FALSE
  /\ request' = Nothing
  /\ award' = Nothing
  /\ importing' = {}
  /\ available' = Nothing
  /\ delivery' = Nothing
  /\ record' = Nothing
  /\ replayAward' = Nothing
  /\ physical' = FALSE

Conflict ==
  /\ stage = "screen"
  /\ \E xr \in ReplayAllocations : Conflicting(xr)
  /\ stage' = "stopped"
  /\ reason' = Raised
  /\ Forgotten
  /\ UNCHANGED <<case, interval, ceiling>>

Assessment ==
  AssessBoundedRecord(award, delivery, replayAward, record, UsedRadius, physical)

Rejected == Assessment \in Rejections

\* A rejected record raises before the update.
Decide ==
  /\ stage = "decide"
  /\ reason' = Assessment
  /\ ceiling' \in IF Rejected THEN {ceiling}
                  ELSE UpdatedCeilings(ceiling, delivery, Idle,
                                       GateTriggered(Assessment))
  /\ interval' = IF Rejected THEN interval ELSE interval + 1
  /\ stage' = IF Rejected THEN "stopped"
              ELSE IF interval' = IntervalsPerDay THEN "dayDone"
              ELSE "complete"
  /\ Forgotten
  /\ UNCHANGED case

\* Fault: the loop variable is not restarted.
FaultKeepsInterval ==
  /\ stage = "dayDone"
  /\ stage' = "complete"
  /\ ceiling' = Capacity
  /\ reason' = NotAssessed
  /\ UNCHANGED <<case, interval, completed, replayAward, physical>>

NextDay ==
  /\ stage = "dayDone"
  /\ stage' = "complete"
  /\ interval' = 0
  /\ ceiling' = Capacity
  /\ reason' = NotAssessed
  /\ UNCHANGED <<case, completed, replayAward, physical>>

Next == Complete \/ Screen \/ Conflict \/ Decide \/ NextDay

Spec == Init /\ [][Next]_vars

-----------------------------------------------------------------------------
(***************************************************************************)
(* The assertion of task after every decision: whatever the least delivery *)
(* allowed by the record and its radius qualifies for, the true            *)
(* availability qualifies for as well.  The physical screen is taken as    *)
(* passed on both sides, as the code does.                                 *)
(***************************************************************************)
Qualifies(h, radius) ==
  GateTriggered(
    AssessBoundedRecord(award, delivery, replayAward, h, radius, TRUE))

LowerBoundIsSound ==
  stage = "decide" /\ Qualifies(record, case.radius) =>
    Qualifies(available, Nothing)

(***************************************************************************)
(* A ceiling falls only when the physical screen passed, only for an idle  *)
(* award, and, unless the case overstates availability and ignores its     *)
(* radius, only if the replayed allocation would really have delivered     *)
(* more in total.                                                          *)
(***************************************************************************)
TrueReplayDelivery == MeteredDelivery(replayAward, available)
Trustworthy == case.mode = "LOWER_BOUND" \/ case.sign # 1

RestrictionRecoversTruth ==
  [][\A p \in Participants : ceiling'[p] < ceiling[p] =>
       /\ stage = "decide" /\ physical /\ p \in Idle
       /\ Trustworthy =>
            FSum(TrueReplayDelivery) - FSum(delivery) > Tolerance]_vars

(***************************************************************************)
(* Only a case that overstates availability can stop its task, and then    *)
(* only because a participant that imports was recorded as able to export: *)
(* the record of this loop never contradicts its own metering.             *)
(***************************************************************************)
OnlyOverstatementStops ==
  stage = "stopped" => case.sign = 1 /\ reason = Raised

(***************************************************************************)
(* The record-driven loop keeps the promise of the feedback rule.          *)
(***************************************************************************)
Promise == INSTANCE AccessPromise WITH
  open <- stage \in {"screen", "decide"},
  delivered <- delivery,
  unused <- Idle,
  scarce <- award # request

KeepsPromise == Promise!Spec
=============================================================================
