---------------------------- MODULE FeedbackDay ----------------------------
(***************************************************************************)
(* The ECF control of _run_day in run_ees_australian_external_replay.py:   *)
(* the sequential loop over the intervals of a day that carries the access *)
(* ceiling from one interval to the next, and the day reset.  One action   *)
(* per stage of the loop body:                                             *)
(*                                                                         *)
(*   Authorise   ceiling applied to the raw request, AC allocation, metering*)
(*   Replay      the same interval allocated again with idle awards capped *)
(*   Settle      telemetry signal, replay assessment, ceiling update       *)
(*   NextDay     the next call of _run_day in the same worker              *)
(*                                                                         *)
(* The AC search and the power flow are outside this module: an allocation *)
(* is any common fraction of the request (ProportionalSearch says what the *)
(* search promises), zero when the base state of the interval fails its    *)
(* screen, and the physical screen of a replay may come out either way.    *)
(* The three open-loop controls of the code write no state that this loop  *)
(* reads and are left out.  Between Settle and Authorise no vector of the  *)
(* interval is live, and all are reset to Nothing; previous is kept in the *)
(* one mode that reads it.                                                 *)
(***************************************************************************)
EXTENDS AccessFeedback

CONSTANTS
  IntervalsPerDay,     \* range(48) in the code
  TelemetrySettings,   \* the settings a worker may be started with
  CarryCeiling         \* TRUE: the ceiling survives the end of a day, as in
                       \* the calendar-contiguous runs; FALSE: daily reset

ASSUME DayAssumption ==
  /\ IntervalsPerDay \in Nat \ {0}
  /\ TelemetrySettings \subseteq Settings
  /\ CarryCeiling \in BOOLEAN

VARIABLES
  setting,      \* telemetry configuration of the worker
  stage,        \* where the loop body is
  interval,     \* loop variable
  ceiling,      \* ceiling_mw
  previous,     \* previous_interval_available_mw
  base,         \* does the interval's base state pass its screens?
  admitted,     \* admitted_ecf_mw
  award,        \* ecf["allocation_mw"]
  available,    \* ecf["available_mw"]
  delivery,     \* ecf["delivery_mw"]
  replayAward,  \* replay["allocation_mw"]
  replayValid,  \* replay_valid
  reason        \* gate_reason of the last assessment

outcome == <<base, admitted, award, available, delivery>>
replay == <<replayAward, replayValid>>
vars == <<setting, stage, interval, ceiling, previous, outcome, replay, reason>>

Stages == {"authorise", "replay", "settle", "dayDone"}
NoAssessment == "NOT_ASSESSED"

TypeOK ==
  /\ setting \in TelemetrySettings
  /\ stage \in Stages
  /\ interval \in 0 .. IntervalsPerDay
  /\ ceiling \in PowerVector
  /\ previous \in PowerVector \cup {NoPrevious}
  /\ base \in BOOLEAN
  /\ admitted \in PowerVector
  /\ award \in PowerVector
  /\ available \in PowerVector
  /\ delivery \in PowerVector
  /\ replayAward \in PowerVector
  /\ replayValid \in BOOLEAN
  /\ reason \in GateReasons \cup {NoAssessment}

-----------------------------------------------------------------------------
Init ==
  /\ setting \in TelemetrySettings
  /\ stage = "authorise"
  /\ interval = 0
  /\ ceiling = Capacity
  /\ previous = NoPrevious
  /\ base = FALSE
  /\ admitted = Nothing
  /\ award = Nothing
  /\ available = Nothing
  /\ delivery = Nothing
  /\ replayAward = Nothing
  /\ replayValid = FALSE
  /\ reason = NoAssessment

(***************************************************************************)
(* persistence_request caps the raw request at the registered capacity.    *)
(***************************************************************************)
RawRequests == {v \in PowerVector : AtMost(v, Capacity)}

Authorise ==
  /\ stage = "authorise"
  /\ \E raw \in RawRequests : admitted' = ApplyAccessCeiling(raw, ceiling)
  /\ base' \in BOOLEAN
  /\ award' \in Allocations(admitted', base')
  /\ available' \in PowerVector
  /\ delivery' = MeteredDelivery(award', available')
  /\ stage' = "replay"
  /\ UNCHANGED <<setting, interval, ceiling, previous, replay, reason>>

Replay ==
  /\ stage = "replay"
  /\ replayAward' \in
       Allocations(FulfillmentReplayRequest(admitted, award, delivery), base)
  /\ replayValid' \in BOOLEAN
  /\ replayValid' => base
  /\ stage' = "settle"
  /\ UNCHANGED <<setting, interval, ceiling, previous, outcome, reason>>

Idle == IdleIndices(award, delivery)

\* The replayed allocation metered against the telemetry signal.
ReplayDelivery(dropped) ==
  MeteredDelivery(replayAward,
    AvailabilitySignal(setting, available, delivery, previous, dropped))

Settle ==
  /\ stage = "settle"
  /\ \E dropped \in DropoutMasks(setting) :
       reason' = GateReason(award, delivery, replayAward,
                            ReplayDelivery(dropped), Idle, replayValid)
  /\ ceiling' \in UpdatedCeilings(ceiling, delivery, Idle,
                                  GateTriggered(reason'))
  /\ previous' = IF setting.mode = "LAG_ONE_INTERVAL" THEN available
                                                     ELSE NoPrevious
  /\ interval' = interval + 1
  /\ stage' = IF interval' = IntervalsPerDay THEN "dayDone" ELSE "authorise"
  /\ base' = FALSE
  /\ admitted' = Nothing
  /\ award' = Nothing
  /\ available' = Nothing
  /\ delivery' = Nothing
  /\ replayAward' = Nothing
  /\ replayValid' = FALSE
  /\ UNCHANGED setting

\* Fault: the lagged availability survives the day boundary.
FaultKeepsPrevious ==
  /\ stage = "dayDone"
  /\ stage' = "authorise"
  /\ interval' = 0
  /\ ceiling' = IF CarryCeiling THEN ceiling ELSE Capacity
  /\ reason' = NoAssessment
  /\ UNCHANGED <<setting, previous, outcome, replay>>

\* Fault: the loop variable is not restarted.
FaultKeepsInterval ==
  /\ stage = "dayDone"
  /\ stage' = "authorise"
  /\ ceiling' = IF CarryCeiling THEN ceiling ELSE Capacity
  /\ previous' = NoPrevious
  /\ reason' = NoAssessment
  /\ UNCHANGED <<setting, interval, outcome, replay>>

NextDay ==
  /\ stage = "dayDone"
  /\ stage' = "authorise"
  /\ interval' = 0
  /\ ceiling' = IF CarryCeiling THEN ceiling ELSE Capacity
  /\ previous' = NoPrevious
  /\ reason' = NoAssessment
  /\ UNCHANGED <<setting, outcome, replay>>

Next == Authorise \/ Replay \/ Settle \/ NextDay

\* The loop is sequential and never waits, so it keeps stepping.
Spec == Init /\ [][Next]_vars
FairSpec == Spec /\ WF_vars(Next)

-----------------------------------------------------------------------------
(***************************************************************************)
(* Every quantity of an interval stays below the one it was cut from:      *)
(* nothing is delivered beyond its award, awarded beyond the admitted      *)
(* request, admitted beyond the ceiling carried into the interval, and no  *)
(* ceiling exceeds the registered capacity.  In the replay a participant   *)
(* that left award idle gets no more than it delivered, and no other       *)
(* participant gets more than it was admitted for.                         *)
(***************************************************************************)
AccessNested ==
  /\ AtMost(ceiling, Capacity)
  /\ AtMost(admitted, ceiling)
  /\ AtMost(award, admitted)
  /\ AtMost(delivery, award)
  /\ AtMost(delivery, available)
  /\ AtMost(replayAward, admitted)
  /\ \A p \in Idle : replayAward[p] <= delivery[p]

(***************************************************************************)
(* update_access_ceiling: a weather-only mismatch causes no restriction.   *)
(* A ceiling falls only when an interval closes whose base state and       *)
(* replay passed their screens, for a participant whose award was idle,    *)
(* and when somebody who used its award had been admitted for more than it *)
(* was awarded and gets more in the replay.                                *)
(***************************************************************************)
Displaced(q) ==
  q \notin Idle /\ award[q] < admitted[q] /\ award[q] < replayAward[q]

RestrictionNeedsDisplacement ==
  [][\A p \in Participants : ceiling'[p] < ceiling[p] =>
       /\ stage = "settle" /\ base /\ replayValid
       /\ p \in Idle
       /\ \E q \in Participants : Displaced(q)]_vars

(***************************************************************************)
(* A ceiling is never moved below what the participant has just delivered, *)
(* so the same availability would be delivered in full again.              *)
(***************************************************************************)
CeilingCoversDelivery ==
  [][stage = "settle" => AtMost(delivery, ceiling')]_vars

(***************************************************************************)
(* assess_replay: with a telemetry signal that cannot exceed the true      *)
(* availability, an open gate means that the replayed allocation would     *)
(* really have delivered more in total, by more than the tolerance.        *)
(***************************************************************************)
TrueReplayDelivery == MeteredDelivery(replayAward, available)

GateMeansRecovery ==
  [][stage = "settle" /\ Conservative(setting) /\ GateTriggered(reason') =>
       FSum(TrueReplayDelivery) - FSum(delivery) > Tolerance]_vars

(***************************************************************************)
(* A lagged signal never reaches across a day boundary: in the first       *)
(* interval of a day it equals delivery and cannot open the gate.          *)
(***************************************************************************)
LagDoesNotCrossDays ==
  [][stage = "settle" /\ interval = 0 /\ setting.mode = "LAG_ONE_INTERVAL" =>
       ~GateTriggered(reason')]_vars

(***************************************************************************)
(* Explicit recovery: if from some point on the gate stays closed, every   *)
(* ceiling returns to the registered capacity, up to the last units that   *)
(* rounding may keep (fewer than 1 / beta), and stays there.               *)
(***************************************************************************)
RoundingBand == {gap \in Powers : BetaNum * gap < BetaDen}

Recovered ==
  \A p \in Participants : Capacity[p] - ceiling[p] \in RoundingBand

GateClosed == ~GateTriggered(reason)

CeilingRecovers == <>[]GateClosed => <>[]Recovered

-----------------------------------------------------------------------------
(***************************************************************************)
(* The loop implements AccessPromise.                                      *)
(***************************************************************************)
Promise == INSTANCE AccessPromise WITH
  open <- stage \in {"replay", "settle"},
  delivered <- delivery,
  unused <- Idle,
  scarce <- award # admitted

KeepsPromise == Promise!Spec
=============================================================================
