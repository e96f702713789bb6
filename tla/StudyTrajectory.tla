-------------------------- MODULE StudyTrajectory --------------------------
(***************************************************************************)
(* One task of the controlled study: _trajectory_task of                   *)
(* run_v16_externality_conditioned_feedback.py.  The same participants ask *)
(* for the same access in every interval, and each control of the roster   *)
(* is run over the horizon on the same realised availability.  All solves  *)
(* of a task, those of replays included, go through one cache keyed by the *)
(* request.                                                                *)
(*                                                                         *)
(* The roster holds the open-loop control, two gains of the feedback and   *)
(* the uniform control matched to the first gain.  Its third gain is the   *)
(* same code, and the delivery-ratio ablation has no replay.  The solver   *)
(* and the AC screens are external: any award within the request, unless   *)
(* the solver fails.                                                       *)
(***************************************************************************)
EXTENDS AccessFeedback, Sequences

CONSTANTS Horizon   \* intervals of a trajectory

ASSUME HorizonAssumption == Horizon \in Nat \ {0}

NoFeedback == "NO_FEEDBACK"
Primary == "EXTERNALITY_CF_BETA_050"
FullGain == "EXTERNALITY_CF_BETA_100"
Uniform == "UNIFORM_MATCHED_EXTERNALITY_CF_BETA_050"

Roster == <<NoFeedback, Primary, FullGain, Uniform>>
Controls == {NoFeedback, Primary, FullGain, Uniform}
ExternalityControls == {Primary, FullGain}

\* The same functions with a gain of one.
Full == INSTANCE AccessFeedback WITH BetaNum <- 1, BetaDen <- 1

VARIABLES
  interval, turn, stage,   \* the two loops, and where the body is
  base,                    \* capacity_limited request of the task
  available,               \* capability, which the telemetry equals
  ceilings,                \* ceilings_by_control
  effective,               \* effective_by_control of the interval
  cache,                   \* solve_cache: request -> answer
  answers,                 \* the answer to each control's last request
  opened,                  \* controls whose replay gate has opened
  seen                     \* what the recorded steps amount to

trajectory ==
  <<interval, turn, stage, base, available, ceilings, effective, cache, answers,
    opened, seen>>

Stages == {"idle", "begin", "report", "settle", "done"}
Requests == [num : [Participants -> Nat], den : Nat \ {0}]
Answers == [status : {"failed", "unscreened", "passed"}, award : PowerVector]

\* Controls with a solved step, and what the gates of the experiment ask.
Evidence ==
  [measured : SUBSET Controls, solved : BOOLEAN, screened : BOOLEAN,
   replayed : BOOLEAN, replaysPass : BOOLEAN, opens : BOOLEAN, closes : BOOLEAN]

TrajectoryTypeOK ==
  /\ interval \in 1 .. Horizon
  /\ turn \in DOMAIN Roster
  /\ stage \in Stages
  /\ base \in PowerVector /\ AtMost(base, Capacity)
  /\ available \in PowerVector
  /\ ceilings \in [ExternalityControls -> PowerVector]
  /\ effective \in [Controls -> Requests]
  /\ DOMAIN cache \subseteq Requests
  /\ \A r \in DOMAIN cache : cache[r] \in Answers
  /\ answers \in [Controls -> Answers]
  /\ opened \in SUBSET ExternalityControls
  /\ seen \in Evidence

-----------------------------------------------------------------------------
Whole(v) == [num |-> v, den |-> 1]
Failed == [status |-> "failed", award |-> Nothing]

NothingSeen ==
  [measured |-> {}, solved |-> TRUE, screened |-> TRUE, replayed |-> FALSE,
   replaysPass |-> TRUE, opens |-> FALSE, closes |-> FALSE]

Idle ==
  /\ interval = 1 /\ turn = 1 /\ stage = "idle"
  /\ base = Nothing /\ available = Nothing
  /\ ceilings = [c \in ExternalityControls |-> Capacity]
  /\ effective = [c \in Controls |-> Whole(Nothing)]
  /\ cache = << >>
  /\ answers = [c \in Controls |-> Failed]
  /\ opened = {}
  /\ seen = NothingSeen

\* A task begins in stage s with request b; memory of other tasks is gone.
Fresh(b, s) ==
  /\ interval' = 1 /\ turn' = 1 /\ stage' = s
  /\ base' = b /\ available' = Nothing
  /\ ceilings' = [c \in ExternalityControls |-> Capacity]
  /\ effective' = [c \in Controls |-> Whole(Nothing)]
  /\ cache' = << >>
  /\ answers' = [c \in Controls |-> Failed]
  /\ opened' = {}
  /\ seen' = NothingSeen

\* matched_uniform_request: base scaled so that as much is kept as of filtered.
MatchedUniform(b, filtered) ==
  LET total == FSum(b)
      kept == FSum(filtered)
  IN IF total <= 0 THEN Whole(b)
     ELSE IF \A p \in Participants : (b[p] * kept) % total = 0
       THEN Whole([p \in Participants |-> (b[p] * kept) \div total])
       ELSE [num |-> [p \in Participants |-> b[p] * kept], den |-> total]

\* Every request of an interval is fixed before the first control reports.
EffectiveRequests ==
  [c \in Controls |->
     IF c \in ExternalityControls
       THEN Whole(ApplyAccessCeiling(base, ceilings[c]))
     ELSE IF c = Uniform
       THEN MatchedUniform(base, ApplyAccessCeiling(base, ceilings[Primary]))
     ELSE Whole(base)]

BeginInterval ==
  /\ stage = "begin"
  /\ available' \in {v \in PowerVector : AtMost(v, Capacity)}
  /\ effective' = EffectiveRequests
  /\ turn' = 1
  /\ stage' = "report"
  /\ UNCHANGED <<interval, base, ceilings, cache, answers, opened, seen>>

-----------------------------------------------------------------------------
\* Awards that a solver may hand out: on the grid and within the request.
Allocatable(request) ==
  {v \in PowerVector : \A p \in Participants : v[p] * request.den <= request.num[p]}

\* Three attempts fail, or the award is screened on its AC solution.
Outcomes(request) ==
  {Failed} \cup
  [status : {"unscreened", "passed"}, award : Allocatable(request)]

\* Fault: an unsolved request is not kept, and is tried again when met again.
FaultSolve(request, answer) ==
  \/ /\ request \in DOMAIN cache
     /\ answer = cache[request]
     /\ UNCHANGED cache
  \/ /\ request \notin DOMAIN cache
     /\ answer \in Outcomes(request)
     /\ cache' = IF answer = Failed THEN cache
                 ELSE [r \in DOMAIN cache \cup {request} |->
                         IF r = request THEN answer ELSE cache[r]]

\* _solve_request: one answer per request and task, a failure included.
Solve(request, answer) ==
  \/ /\ request \in DOMAIN cache
     /\ answer = cache[request]
     /\ UNCHANGED cache
  \/ /\ request \notin DOMAIN cache
     /\ answer \in Outcomes(request)
     /\ cache' = [r \in DOMAIN cache \cup {request} |->
                    IF r = request THEN answer ELSE cache[r]]

\* Fault: one interval too many.
FaultAdvance ==
  \/ /\ turn < Len(Roster)
     /\ turn' = turn + 1
     /\ stage' = "report"
     /\ UNCHANGED interval
  \/ /\ turn = Len(Roster) /\ interval <= Horizon
     /\ interval' = interval + 1
     /\ stage' = "begin"
     /\ UNCHANGED turn

\* The control's body is over: next control, next interval, or end of the task.
Advance ==
  \/ /\ turn < Len(Roster)
     /\ turn' = turn + 1
     /\ stage' = "report"
     /\ UNCHANGED interval
  \/ /\ turn = Len(Roster) /\ interval < Horizon
     /\ interval' = interval + 1
     /\ stage' = "begin"
     /\ UNCHANGED turn
  \/ /\ turn = Len(Roster) /\ interval = Horizon
     /\ stage' = "done"
     /\ UNCHANGED <<interval, turn>>

Control == Roster[turn]

\* The record of a step before any replay.  A step without replay counts
\* among those whose gate stayed closed.
Recorded(c, status) ==
  [seen EXCEPT !.measured = IF status = "failed" THEN @ ELSE @ \cup {c},
               !.solved = @ /\ status # "failed",
               !.screened = @ /\ status = "passed"]

(***************************************************************************)
(* The reported request is solved.  An unsolved one has no vectors: no     *)
(* replay follows and the ceiling is left alone.                           *)
(***************************************************************************)
Report ==
  /\ stage = "report"
  /\ \E answer \in Outcomes(effective[Control]) :
       /\ Solve(effective[Control], answer)
       /\ answers' = [answers EXCEPT ![Control] = answer]
       /\ LET record == Recorded(Control, answer.status)
          IN \/ /\ Control \in ExternalityControls /\ answer # Failed
                /\ seen' = record
                /\ stage' = "settle"
                /\ UNCHANGED <<interval, turn>>
             \/ /\ Control \in ExternalityControls /\ answer = Failed
                /\ seen' = [record EXCEPT !.closes = TRUE]
                /\ Advance
             \/ /\ Control \notin ExternalityControls
                /\ seen' = record
                /\ Advance
  /\ UNCHANGED <<base, available, ceilings, effective, opened>>

Delivery(c) == MeteredDelivery(answers[c].award, available)

\* Fault: the first gain moves the other gain's ceiling.
FaultUpdated(c, idle, gate) ==
  IF c = Primary
    THEN UpdatedCeilings(ceilings[FullGain], Delivery(c), idle, gate)
    ELSE Full!UpdatedCeilings(ceilings[c], Delivery(c), idle, gate)

Updated(c, idle, gate) ==
  IF c = Primary
    THEN UpdatedCeilings(ceilings[c], Delivery(c), idle, gate)
    ELSE Full!UpdatedCeilings(ceilings[c], Delivery(c), idle, gate)

Close(c, idle, gate) ==
  /\ \E next \in Updated(c, idle, gate) : ceilings' = [ceilings EXCEPT ![c] = next]
  /\ opened' = IF gate THEN opened \cup {c} ELSE opened
  /\ Advance

\* Full delivery closes the gate without a replay.
SettleFull ==
  /\ stage = "settle"
  /\ IdleIndices(answers[Control].award, Delivery(Control)) = {}
  /\ Close(Control, {}, FALSE)
  /\ seen' = [seen EXCEPT !.closes = TRUE]
  /\ UNCHANGED <<base, available, effective, cache, answers>>

(***************************************************************************)
(* Otherwise the interval is replayed with the idle participants held to   *)
(* their delivery.  An unsolved replay stands as the allocation itself;    *)
(* it is not valid, and neither is one whose screens failed.               *)
(***************************************************************************)
ReplayOpensGate(c, idle, answer) ==
  LET award == IF answer = Failed THEN answers[c].award ELSE answer.award
  IN GateTriggered(
       GateReason(answers[c].award, Delivery(c), award,
                  MeteredDelivery(award, available), idle,
                  answer.status = "passed"))

ReplayRequest(c) ==
  Whole(FulfillmentReplayRequest(effective[c].num, answers[c].award, Delivery(c)))

\* Fault: an attempted replay is recorded, its outcome is not.
FaultReplayed(answer, gate) ==
  [seen EXCEPT !.replayed = TRUE,
               !.opens = @ \/ gate,
               !.closes = @ \/ ~gate]

Replayed(answer, gate) ==
  [seen EXCEPT !.replayed = TRUE,
               !.replaysPass = @ /\ answer.status = "passed",
               !.opens = @ \/ gate,
               !.closes = @ \/ ~gate]

SettleReplay ==
  /\ stage = "settle"
  /\ LET idle == IdleIndices(answers[Control].award, Delivery(Control))
     IN /\ idle # {}
        /\ \E answer \in Outcomes(ReplayRequest(Control)) :
             LET gate == ReplayOpensGate(Control, idle, answer)
             IN /\ Solve(ReplayRequest(Control), answer)
                /\ Close(Control, idle, gate)
                /\ seen' = Replayed(answer, gate)
  /\ UNCHANGED <<base, available, effective, answers>>

TaskStep == BeginInterval \/ Report \/ SettleFull \/ SettleReplay

-----------------------------------------------------------------------------
\* The controls that have answered in the interval in progress.
Answered ==
  IF stage \in {"idle", "begin"} THEN {}
  ELSE {Roster[i] : i \in 1 .. IF stage = "report" THEN turn - 1 ELSE turn}

(***************************************************************************)
(* The controls of a task are compared on equal terms: as long as its gate *)
(* has never opened, a feedback control receives in every interval the     *)
(* very answer of the open-loop control, failures included, and so does    *)
(* the uniform control while the control it matches has not diverged.      *)
(***************************************************************************)
PairedControls ==
  /\ \A c \in Answered \cap (ExternalityControls \ opened) :
       answers[c] = answers[NoFeedback]
  /\ Uniform \in Answered /\ Primary \notin opened =>
       answers[Uniform] = answers[NoFeedback]

\* Each feedback control as AccessPromise sees it.
Open(c) == stage = "settle" /\ Control = c
Delivered(c) == IF Open(c) THEN Delivery(c) ELSE Nothing
Unused(c) == IF Open(c) THEN IdleIndices(answers[c].award, Delivery(c)) ELSE {}
Scarce(c) ==
  Open(c) /\ \E p \in Participants : answers[c].award[p] < effective[c].num[p]

PrimaryPromise ==
  INSTANCE AccessPromise WITH
    open <- Open(Primary), ceiling <- ceilings[Primary],
    delivered <- Delivered(Primary), unused <- Unused(Primary),
    scarce <- Scarce(Primary)

FullPromise ==
  INSTANCE AccessPromise WITH
    open <- Open(FullGain), ceiling <- ceilings[FullGain],
    delivered <- Delivered(FullGain), unused <- Unused(FullGain),
    scarce <- Scarce(FullGain)

(***************************************************************************)
(* Every feedback control keeps the promise of AccessPromise, on its own   *)
(* ceiling, although the controls run in one loop over shared answers and  *)
(* solves fail.                                                            *)
(***************************************************************************)
KeepsPromise == PrimaryPromise!Spec /\ FullPromise!Spec
=============================================================================
