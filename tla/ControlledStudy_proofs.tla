----------------------- MODULE ControlledStudy_proofs -----------------------
(***************************************************************************)
(* The controlled study for every set of participants, capacity, horizon,  *)
(* tolerance and first gain, and any number of commands.                   *)
(*                                                                         *)
(* The comparison between controls rests on one fact that no function of   *)
(* the program states: as long as a gate has not opened, the ceiling of    *)
(* its control is exactly the capacity, so its request is exactly that of  *)
(* the open-loop control, and the cache answers equal requests equally     *)
(* (EqualTerms, AnswersCached).  The verdict rests on ScreensSeen, and the *)
(* files on what the gates of each command asked (FilesInv).               *)
(***************************************************************************)
EXTENDS ControlledStudy, AccessFeedback_proofs

CeilingsWithin == \A c \in ExternalityControls : AtMost(ceilings[c], Capacity)

\* A control that has not closed its interval asks for no more than its ceiling.
AskedWithin ==
  stage \in {"report", "settle"} =>
    \A i \in turn .. 4 : Roster[i] \in ExternalityControls =>
      /\ effective[Roster[i]].den = 1
      /\ effective[Roster[i]].num \in PowerVector
      /\ AtMost(effective[Roster[i]].num, ceilings[Roster[i]])

EqualTerms ==
  /\ \A c \in ExternalityControls \ opened : ceilings[c] = Capacity
  /\ stage \in {"report", "settle", "done"} =>
       /\ effective[NoFeedback] = Whole(base)
       /\ \A c \in ExternalityControls \ opened : effective[c] = Whole(base)
       /\ Primary \notin opened => effective[Uniform] = Whole(base)

AnswersCached ==
  \A c \in Answered :
    effective[c] \in DOMAIN cache /\ answers[c] = cache[effective[c]]

CacheSound == \A r \in DOMAIN cache : cache[r] \in Outcomes(r)

ScreensSeen ==
  /\ seen.solved /\ seen.screened /\ seen.replaysPass =>
       \A r \in DOMAIN cache : cache[r].status = "passed"
  /\ seen.opens => opened # {}

SettleOfFeedback == stage = "settle" => Control \in ExternalityControls

TInv ==
  /\ TrajectoryTypeOK
  /\ CeilingsWithin
  /\ AskedWithin
  /\ EqualTerms
  /\ AnswersCached
  /\ CacheSound
  /\ ScreensSeen
  /\ SettleOfFeedback

-----------------------------------------------------------------------------
LEMMA RosterFacts ==
  /\ Roster[1] = NoFeedback /\ Roster[2] = Primary
  /\ Roster[3] = FullGain /\ Roster[4] = Uniform
  /\ Len(Roster) = 4 /\ DOMAIN Roster = 1 .. 4
  /\ \A i \in 1 .. 4 : Roster[i] \in Controls
  /\ ExternalityControls \subseteq Controls
  /\ NoFeedback \notin ExternalityControls /\ Uniform \notin ExternalityControls
  /\ \A i, j \in 1 .. 4 : Roster[i] = Roster[j] => i = j
BY DEF Roster, Controls, ExternalityControls, NoFeedback, Primary, FullGain, Uniform

(* A whole number of shares of a total, divided by the total.              *)
LEMMA WholeShares ==
  ASSUME NEW a \in Nat, NEW t \in Nat \ {0}
  PROVE  (a * t) % t = 0 /\ (a * t) \div t = a
<1> DEFINE q == (a * t) \div t
           r == (a * t) % t
<1>1. a * t \in Nat
  OBVIOUS
<1>2. q \in Nat /\ r \in 0 .. t - 1 /\ a * t = t * q + r
  BY <1>1
<1>3. a <= q
  <2>1. ASSUME q < a PROVE FALSE
    <3>1. t * (q + 1) <= t * a
      BY <1>2, <2>1, ProductMonotone
    <3>2. t * (q + 1) = t * q + t /\ t * a = a * t
      BY <1>2
    <3> HIDE DEF q, r
    <3>3. t * q \in Nat
      BY <1>2
    <3> QED BY <1>1, <1>2, <3>1, <3>2, <3>3
  <2> QED BY <1>2, <2>1
<1>4. q <= a
  <2>1. ASSUME a < q PROVE FALSE
    <3>1. t * (a + 1) <= t * q
      BY <1>2, <2>1, ProductMonotone
    <3>2. t * (a + 1) = a * t + t
      OBVIOUS
    <3> HIDE DEF q, r
    <3>3. t * q \in Nat
      BY <1>2
    <3> QED BY <1>1, <1>2, <3>1, <3>2, <3>3
  <2> QED BY <1>2, <2>1
<1>5. q = a
  BY <1>2, <1>3, <1>4
<1>6. r = 0
  <2>1. t * q = a * t
    BY <1>5
  <2> HIDE DEF q, r
  <2> QED BY <1>1, <1>2, <2>1
<1> QED BY <1>5, <1>6

(* At full access a request within capacity is admitted as it is.          *)
LEMMA FullAccess ==
  ASSUME NEW b \in PowerVector, AtMost(b, Capacity)
  PROVE  ApplyAccessCeiling(b, Capacity) = b
<1>1. ASSUME NEW p \in Participants
      PROVE  ApplyAccessCeiling(b, Capacity)[p] = b[p]
  <2>1. b[p] \in Nat /\ Capacity[p] \in Nat /\ b[p] <= Capacity[p]
    BY VectorIsNatural, BoundsAssumption DEF AtMost
  <2> QED BY <2>1 DEF ApplyAccessCeiling, Lesser, NonNegative
<1>2. b = [p \in Participants |-> b[p]]
  BY DEF PowerVector
<1> QED BY <1>1, <1>2 DEF ApplyAccessCeiling

LEMMA SumFacts ==
  ASSUME NEW v \in PowerVector
  PROVE  FSum(v) \in Nat
<1>1. FSum(Nothing) <= FSum(v) /\ FSum(v) \in Int
  BY NothingFacts, FSumAssumption DEF AtMost
<1> QED BY <1>1, FSumAssumption

(* The uniform control matched to a request that kept everything.          *)
LEMMA MatchedToSelf ==
  ASSUME NEW b \in PowerVector
  PROVE  MatchedUniform(b, b) = Whole(b)
<1> DEFINE t == FSum(b)
<1>1. t \in Nat
  BY SumFacts
<1>2. CASE t <= 0
  BY <1>2 DEF MatchedUniform
<1>3. CASE ~(t <= 0)
  <2> HIDE DEF t
  <2>0. t \in Nat \ {0}
    BY <1>1, <1>3
  <2>1. ASSUME NEW p \in Participants
        PROVE  (b[p] * t) % t = 0 /\ (b[p] * t) \div t = b[p]
    <3>1. b[p] \in Nat
      BY VectorIsNatural
    <3> QED BY <2>0, <3>1, WholeShares
  <2>2. [p \in Participants |-> (b[p] * t) \div t] = b
    BY <2>1 DEF PowerVector
  <2> QED BY <1>3, <2>1, <2>2 DEF MatchedUniform, t
<1> QED BY <1>2, <1>3

LEMMA WholeFacts ==
  ASSUME NEW v \in PowerVector
  PROVE  Whole(v) \in Requests /\ Whole(v).num = v /\ Whole(v).den = 1
BY VectorIsNatural DEF Whole, Requests, PowerVector

LEMMA MatchedType ==
  ASSUME NEW b \in PowerVector, NEW f \in PowerVector
  PROVE  MatchedUniform(b, f) \in Requests
<1> DEFINE t == FSum(b)
           k == FSum(f)
<1>1. t \in Nat /\ k \in Nat
  BY SumFacts
<1>2. \A p \in Participants : b[p] * k \in Nat
  BY <1>1, VectorIsNatural
<1>3. CASE t <= 0
  BY <1>3, WholeFacts DEF MatchedUniform
<1>4. CASE ~(t <= 0)
  <2>1. ASSUME NEW p \in Participants PROVE (b[p] * k) \div t \in Nat
    <3> DEFINE m == b[p] * k
    <3>1. m \in Nat
      BY <1>2
    <3>2. t \in Nat \ {0}
      BY <1>1, <1>4
    <3> HIDE DEF m, t
    <3>3. m \div t \in Nat
      BY <3>1, <3>2
    <3> QED BY <3>3 DEF m, t
  <2> QED BY <1>1, <1>2, <1>4, <2>1 DEF MatchedUniform, Whole, Requests
<1> QED BY <1>3, <1>4

(* The second gain: with a gain of one the ceiling is its target.          *)
LEMMA FullCeilingFacts ==
  ASSUME NEW before \in PowerVector, NEW y \in PowerVector,
         NEW idle \in SUBSET Participants, NEW gate \in BOOLEAN,
         AtMost(before, Capacity), AtMost(y, before),
         NEW after \in Full!UpdatedCeilings(before, y, idle, gate)
  PROVE  /\ after \in PowerVector
         /\ AtMost(after, Capacity)
         /\ AtMost(y, after)
         /\ \A p \in Participants :
              after[p] < before[p] => gate /\ p \in idle
<1> DEFINE target(p) == Full!CeilingTarget(p, y, idle, gate)
           blended == [p \in Participants |->
             Full!BlendedCeilings(before[p], target(p), Capacity[p])]
<1>0. /\ after \in [Participants -> UNION {blended[p] : p \in Participants}]
      /\ \A p \in Participants : after[p] \in blended[p]
  BY DEF Full!UpdatedCeilings
<1>1. ASSUME NEW p \in Participants
      PROVE  /\ after[p] \in 0 .. Capacity[p]
             /\ y[p] <= after[p]
             /\ after[p] < before[p] => gate /\ p \in idle
  <2>1. /\ before[p] \in Nat /\ y[p] \in Nat /\ Capacity[p] \in Nat
        /\ y[p] <= before[p] /\ before[p] <= Capacity[p]
    BY VectorIsNatural, BoundsAssumption DEF AtMost
  <2>2. after[p] \in Full!BlendedCeilings(before[p], target(p), Capacity[p])
    BY <1>0
  <2>3. target(p) \in Nat /\ y[p] <= target(p) /\ target(p) <= Capacity[p]
        /\ (~(gate /\ p \in idle) => target(p) = Capacity[p])
    BY <2>1 DEF Full!CeilingTarget, Full!Lesser, Full!NonNegative
  <2> HIDE DEF target
  <2>4. /\ after[p] \in 0 .. Capacity[p]
        /\ 1 * after[p] - ((1 - 1) * before[p] + 1 * target(p)) < 1
        /\ ((1 - 1) * before[p] + 1 * target(p)) - 1 * after[p] < 1
    BY <2>2 DEF Full!BlendedCeilings
  <2>5. after[p] = target(p)
    BY <2>1, <2>3, <2>4
  <2> QED BY <2>1, <2>3, <2>4, <2>5
<1>2. after \in PowerVector
  <2>1. ASSUME NEW p \in Participants PROVE after[p] \in Powers
    <3>1. after[p] \in 0 .. Capacity[p]
      BY <1>1
    <3>2. Capacity[p] \in 0 .. MaxUnits /\ MaxUnits \in Nat
      BY BoundsAssumption DEF PowerVector, Powers
    <3> QED BY <3>1, <3>2 DEF Powers
  <2>2. after = [p \in Participants |-> after[p]]
    BY <1>0
  <2> QED BY <2>1, <2>2 DEF PowerVector
<1> QED BY <1>1, <1>2 DEF AtMost

-----------------------------------------------------------------------------
(* What a solve may answer has the type of an answer.                      *)
LEMMA OutcomeFacts ==
  ASSUME NEW r \in Requests, NEW a \in Outcomes(r)
  PROVE  /\ a \in Answers
         /\ a.award \in PowerVector
         /\ r.den = 1 => AtMost(a.award, r.num)
<1>1. CASE a = Failed
  BY <1>1, NothingFacts DEF Failed, Answers, AtMost, Nothing, Requests
<1>2. CASE a \in [status : {"unscreened", "passed"}, award : Allocatable(r)]
  <2>1. a.award \in PowerVector /\ a \in Answers
    BY <1>2 DEF Allocatable, Answers
  <2>2. \A p \in Participants : a.award[p] * r.den <= r.num[p]
    BY <1>2 DEF Allocatable
  <2>3. ASSUME r.den = 1, NEW p \in Participants PROVE a.award[p] <= r.num[p]
    BY <2>1, <2>2, <2>3, VectorIsNatural
  <2> QED BY <2>1, <2>3 DEF AtMost
<1> QED BY <1>1, <1>2 DEF Outcomes

(* A solve adds at most its request to the cache, and answers from it.     *)
LEMMA SolveFacts ==
  ASSUME TInv, NEW r \in Requests, NEW a \in Outcomes(r), Solve(r, a)
  PROVE  /\ r \in DOMAIN cache' /\ cache'[r] = a
         /\ \A x \in DOMAIN cache : x \in DOMAIN cache' /\ cache'[x] = cache[x]
         /\ \A x \in DOMAIN cache' : x = r \/ x \in DOMAIN cache
         /\ CacheSound'
         /\ DOMAIN cache' \subseteq Requests
         /\ \A x \in DOMAIN cache' : cache'[x] \in Answers
<1>1. /\ r \in DOMAIN cache' /\ cache'[r] = a
      /\ \A x \in DOMAIN cache : x \in DOMAIN cache' /\ cache'[x] = cache[x]
      /\ \A x \in DOMAIN cache' : x = r \/ x \in DOMAIN cache
  BY DEF Solve
<1>2. DOMAIN cache \subseteq Requests /\ CacheSound
  BY DEF TInv, TrajectoryTypeOK
<1>3. DOMAIN cache' \subseteq Requests
  BY <1>1, <1>2
<1>4. \A x \in DOMAIN cache' : cache'[x] \in Outcomes(x)
  BY <1>1, <1>2 DEF CacheSound
<1>5. CacheSound'
  BY <1>4 DEF CacheSound
<1>6. \A x \in DOMAIN cache' : cache'[x] \in Answers
  BY <1>3, <1>4, OutcomeFacts
<1> QED BY <1>1, <1>3, <1>5, <1>6

LEMMA AdvanceFacts ==
  ASSUME TInv, Advance
  PROVE  /\ interval' \in 1 .. Horizon /\ turn' \in 1 .. 4
         /\ stage' \in {"report", "begin", "done"}
         /\ stage' = "report" => turn < 4 /\ turn' = turn + 1
         /\ \A c \in Answered' : \E i \in 1 .. turn : c = Roster[i]
<1>1. interval \in 1 .. Horizon /\ turn \in 1 .. 4 /\ Len(Roster) = 4
  BY RosterFacts DEF TInv, TrajectoryTypeOK
<1>2. CASE turn < Len(Roster) /\ turn' = turn + 1 /\ stage' = "report"
           /\ UNCHANGED interval
  BY <1>1, <1>2 DEF Answered
<1>3. CASE turn = Len(Roster) /\ interval < Horizon /\ interval' = interval + 1
           /\ stage' = "begin" /\ UNCHANGED turn
  BY <1>1, <1>3, HorizonAssumption DEF Answered
<1>4. CASE turn = Len(Roster) /\ interval = Horizon /\ stage' = "done"
           /\ UNCHANGED <<interval, turn>>
  BY <1>1, <1>4 DEF Answered
<1> QED BY <1>2, <1>3, <1>4 DEF Advance

LEMMA FreshSound ==
  ASSUME NEW b \in PowerVector, AtMost(b, Capacity), NEW s \in {"idle", "begin"},
         Fresh(b, s)
  PROVE  TInv'
<1>1. TrajectoryTypeOK'
  <2>1. Capacity \in PowerVector /\ Nothing \in PowerVector
    BY BoundsAssumption, NothingFacts
  <2>2. Failed \in Answers /\ Whole(Nothing) \in Requests
    BY <2>1, WholeFacts DEF Failed, Answers
  <2>3. DOMAIN << >> = {}
    OBVIOUS
  <2>4. NothingSeen \in Evidence
    BY DEF NothingSeen, Evidence
  <2> QED BY <2>1, <2>2, <2>3, <2>4, HorizonAssumption, RosterFacts
          DEF Fresh, TrajectoryTypeOK, Stages
<1>2. CeilingsWithin'
  BY BoundsAssumption, VectorIsNatural DEF Fresh, CeilingsWithin, AtMost
<1>3. AskedWithin' /\ EqualTerms' /\ SettleOfFeedback'
  BY DEF Fresh, AskedWithin, EqualTerms, SettleOfFeedback
<1>4. AnswersCached'
  BY DEF Fresh, AnswersCached, Answered
<1>5. CacheSound' /\ ScreensSeen'
  <2>1. DOMAIN cache' = {}
    BY DEF Fresh
  <2> QED BY <2>1 DEF Fresh, CacheSound, ScreensSeen, NothingSeen
<1> QED BY <1>1, <1>2, <1>3, <1>4, <1>5 DEF TInv

LEMMA IdleSound == ASSUME Idle PROVE TInv
<1>1. TrajectoryTypeOK
  <2>1. Capacity \in PowerVector /\ Nothing \in PowerVector /\ AtMost(Nothing, Capacity)
    BY BoundsAssumption, NothingFacts
  <2>2. Failed \in Answers /\ Whole(Nothing) \in Requests
    BY <2>1, WholeFacts DEF Failed, Answers
  <2>3. DOMAIN << >> = {}
    OBVIOUS
  <2>4. NothingSeen \in Evidence
    BY DEF NothingSeen, Evidence
  <2> QED BY <2>1, <2>2, <2>3, <2>4, HorizonAssumption, RosterFacts
          DEF Idle, TrajectoryTypeOK, Stages
<1>2. CeilingsWithin
  BY BoundsAssumption, VectorIsNatural DEF Idle, CeilingsWithin, AtMost
<1>3. AskedWithin /\ EqualTerms /\ SettleOfFeedback
  BY DEF Idle, AskedWithin, EqualTerms, SettleOfFeedback
<1>4. AnswersCached
  BY DEF Idle, AnswersCached, Answered
<1>5. CacheSound /\ ScreensSeen
  <2>1. DOMAIN cache = {}
    BY DEF Idle
  <2> QED BY <2>1 DEF Idle, CacheSound, ScreensSeen, NothingSeen
<1> QED BY <1>1, <1>2, <1>3, <1>4, <1>5 DEF TInv

(* At the start of an interval a control whose gate has never opened asks  *)
(* for what the open-loop control asks for.                                *)
LEMMA BeginIntervalSound == ASSUME TInv, BeginInterval PROVE TInv'
<1>1. /\ base \in PowerVector /\ AtMost(base, Capacity)
      /\ \A c \in ExternalityControls : ceilings[c] \in PowerVector
      /\ \A c \in ExternalityControls \ opened : ceilings[c] = Capacity
  BY DEF TInv, TrajectoryTypeOK, EqualTerms
<1>2. /\ effective' = EffectiveRequests
      /\ turn' = 1 /\ stage' = "report"
      /\ UNCHANGED <<interval, base, ceilings, cache, answers, opened, seen>>
      /\ available' \in PowerVector
  BY DEF BeginInterval
<1>3. /\ effective'[NoFeedback] = Whole(base)
      /\ effective'[Uniform] =
           MatchedUniform(base, ApplyAccessCeiling(base, ceilings[Primary]))
      /\ \A c \in ExternalityControls :
           effective'[c] = Whole(ApplyAccessCeiling(base, ceilings[c]))
      /\ effective' = [c \in Controls |-> effective'[c]]
  BY <1>2 DEF EffectiveRequests, Controls, ExternalityControls, NoFeedback, Primary,
     FullGain, Uniform
<1>4. \A c \in ExternalityControls :
        /\ ApplyAccessCeiling(base, ceilings[c]) \in PowerVector
        /\ AtMost(ApplyAccessCeiling(base, ceilings[c]), ceilings[c])
  BY <1>1, AdmittedFacts
<1>5. effective' \in [Controls -> Requests]
  <2>1. \A c \in ExternalityControls : effective'[c] \in Requests
    BY <1>3, <1>4, WholeFacts
  <2>2. effective'[NoFeedback] \in Requests
    BY <1>1, <1>3, WholeFacts
  <2>3. effective'[Uniform] \in Requests
    BY <1>1, <1>3, <1>4, MatchedType DEF ExternalityControls
  <2>4. \A c \in Controls : effective'[c] \in Requests
    BY <2>1, <2>2, <2>3 DEF Controls, ExternalityControls
  <2> QED BY <1>3, <2>4
<1>6. TrajectoryTypeOK'
  BY <1>2, <1>5, RosterFacts DEF TInv, TrajectoryTypeOK, Stages
<1>7. AskedWithin'
  BY <1>2, <1>3, <1>4, WholeFacts DEF AskedWithin
<1>8. EqualTerms'
  <2>1. \A c \in ExternalityControls \ opened : effective'[c] = Whole(base)
    BY <1>1, <1>3, FullAccess
  <2>2. Primary \notin opened => effective'[Uniform] = Whole(base)
    BY <1>1, <1>3, FullAccess, MatchedToSelf DEF ExternalityControls
  <2> QED BY <1>1, <1>2, <1>3, <2>1, <2>2 DEF EqualTerms
<1>9. AnswersCached'
  BY <1>2 DEF AnswersCached, Answered
<1>10. CeilingsWithin' /\ CacheSound' /\ ScreensSeen' /\ SettleOfFeedback'
  BY <1>2 DEF TInv, CeilingsWithin, CacheSound, ScreensSeen, SettleOfFeedback
<1> QED BY <1>6, <1>7, <1>8, <1>9, <1>10 DEF TInv

(* What is recorded of a step, before any replay.                          *)
LEMMA RecordedFacts ==
  ASSUME seen \in Evidence, NEW c \in Controls, NEW status,
         NEW r, r = Recorded(c, status) \/ r = [Recorded(c, status) EXCEPT !.closes = TRUE]
  PROVE  /\ r \in Evidence
         /\ r.solved <=> (seen.solved /\ status # "failed")
         /\ r.screened <=> (seen.screened /\ status = "passed")
         /\ r.replaysPass = seen.replaysPass
         /\ r.opens = seen.opens
<1> DEFINE w == Recorded(c, status)
           m == IF status = "failed" THEN seen.measured ELSE seen.measured \cup {c}
           v == (seen.solved /\ status # "failed")
           z == (seen.screened /\ status = "passed")
<1>1. /\ seen.measured \in SUBSET Controls /\ seen.replayed \in BOOLEAN
      /\ seen.replaysPass \in BOOLEAN /\ seen.opens \in BOOLEAN /\ seen.closes \in BOOLEAN
      /\ seen = [measured |-> seen.measured, solved |-> seen.solved,
                 screened |-> seen.screened, replayed |-> seen.replayed,
                 replaysPass |-> seen.replaysPass, opens |-> seen.opens,
                 closes |-> seen.closes]
  BY DEF Evidence
<1>2. m \in SUBSET Controls /\ v \in BOOLEAN /\ z \in BOOLEAN
  BY <1>1
<1>3. w = [seen EXCEPT !.measured = m, !.solved = v, !.screened = z]
  BY DEF Recorded
<1> HIDE DEF m, v, z, w
<1>4. w = [measured |-> m, solved |-> v, screened |-> z, replayed |-> seen.replayed,
           replaysPass |-> seen.replaysPass, opens |-> seen.opens, closes |-> seen.closes]
  BY <1>1, <1>3
<1>5. r = [measured |-> m, solved |-> v, screened |-> z, replayed |-> seen.replayed,
           replaysPass |-> seen.replaysPass, opens |-> seen.opens, closes |-> r.closes]
      /\ r.closes \in BOOLEAN
  <2>1. r = w \/ r = [w EXCEPT !.closes = TRUE]
    BY DEF w
  <2>2. CASE r = w
    <3>1. r.closes = seen.closes
      BY <1>4, <2>2
    <3> QED BY <1>1, <1>4, <2>2, <3>1
  <2>3. CASE r = [w EXCEPT !.closes = TRUE]
    <3>1. r = [measured |-> m, solved |-> v, screened |-> z,
               replayed |-> seen.replayed, replaysPass |-> seen.replaysPass,
               opens |-> seen.opens, closes |-> TRUE]
      BY <1>4, <2>3
    <3>2. r.closes = TRUE
      BY <3>1
    <3> QED BY <3>1, <3>2
  <2> QED BY <2>1, <2>2, <2>3
<1>6. r \in Evidence
  BY <1>1, <1>2, <1>5 DEF Evidence
<1>7. r.solved = v /\ r.screened = z /\ r.replaysPass = seen.replaysPass
      /\ r.opens = seen.opens
  BY <1>5
<1> QED BY <1>6, <1>7 DEF v, z

LEMMA ReportSound == ASSUME TInv, Report PROVE TInv'
<1> DEFINE c == Control
<1>0. /\ turn \in 1 .. 4 /\ c = Roster[turn] /\ c \in Controls
      /\ effective[c] \in Requests
      /\ answers \in [Controls -> Answers]
      /\ seen \in Evidence
      /\ stage = "report"
  BY RosterFacts DEF TInv, TrajectoryTypeOK, Report, Control
<1>1. PICK a \in Outcomes(effective[c]) :
        /\ Solve(effective[c], a)
        /\ answers' = [answers EXCEPT ![c] = a]
        /\ \/ /\ c \in ExternalityControls /\ a # Failed
              /\ seen' = Recorded(c, a.status)
              /\ stage' = "settle"
              /\ UNCHANGED <<interval, turn>>
           \/ /\ c \in ExternalityControls /\ a = Failed
              /\ seen' = [Recorded(c, a.status) EXCEPT !.closes = TRUE]
              /\ Advance
           \/ /\ c \notin ExternalityControls
              /\ seen' = Recorded(c, a.status)
              /\ Advance
  BY DEF Report
<1>2. UNCHANGED <<base, available, ceilings, effective, opened>>
  BY DEF Report
<1> HIDE DEF c
<1>3. /\ effective[c] \in DOMAIN cache' /\ cache'[effective[c]] = a
      /\ \A x \in DOMAIN cache : x \in DOMAIN cache' /\ cache'[x] = cache[x]
      /\ \A x \in DOMAIN cache' : x = effective[c] \/ x \in DOMAIN cache
      /\ CacheSound'
      /\ DOMAIN cache' \subseteq Requests
      /\ \A x \in DOMAIN cache' : cache'[x] \in Answers
  BY <1>0, <1>1, SolveFacts
<1>4. a \in Answers
  BY <1>0, OutcomeFacts
<1>5. /\ interval' \in 1 .. Horizon /\ turn' \in 1 .. 4
      /\ stage' \in {"report", "begin", "done", "settle"}
      /\ stage' = "report" => turn < 4 /\ turn' = turn + 1
      /\ stage' = "settle" => turn' = turn /\ c \in ExternalityControls
      /\ \A x \in Answered' : \E i \in 1 .. turn : x = Roster[i]
  <2>1. CASE Advance
    BY <2>1, AdvanceFacts
  <2>2. CASE stage' = "settle" /\ c \in ExternalityControls /\ UNCHANGED <<interval, turn>>
    BY <1>0, <2>2 DEF Answered, TInv, TrajectoryTypeOK
  <2> QED BY <1>1, <2>1, <2>2
<1>6. /\ seen' \in Evidence
      /\ seen'.solved <=> (seen.solved /\ a.status # "failed")
      /\ seen'.screened <=> (seen.screened /\ a.status = "passed")
      /\ seen'.replaysPass = seen.replaysPass
      /\ seen'.opens = seen.opens
  BY <1>0, <1>1, RecordedFacts
<1>7. TrajectoryTypeOK'
  BY <1>0, <1>1, <1>2, <1>3, <1>4, <1>5, <1>6, RosterFacts
  DEF TInv, TrajectoryTypeOK, Stages
<1>8. AskedWithin'
  BY <1>0, <1>2, <1>5 DEF TInv, AskedWithin
<1>9. EqualTerms' /\ CeilingsWithin'
  BY <1>0, <1>2, <1>5 DEF TInv, EqualTerms, CeilingsWithin
<1>10. AnswersCached'
  <2> SUFFICES ASSUME NEW x \in Answered'
               PROVE  effective[x] \in DOMAIN cache' /\ answers'[x] = cache'[effective[x]]
    BY <1>2 DEF AnswersCached
  <2>1. PICK i \in 1 .. turn : x = Roster[i]
    BY <1>5
  <2>2. CASE i = turn
    BY <1>0, <1>1, <1>3, <2>1, <2>2
  <2>3. CASE i # turn
    <3>1. i \in 1 .. turn - 1 /\ i \in 1 .. 4
      BY <1>0, <2>3
    <3>2. x \in Answered
      BY <1>0, <2>1, <3>1 DEF Answered
    <3>3. effective[x] \in DOMAIN cache /\ answers[x] = cache[effective[x]]
      BY <3>2 DEF TInv, AnswersCached
    <3>4. x # c
      BY <1>0, <2>1, <2>3, <3>1, RosterFacts
    <3>5. answers'[x] = answers[x]
      BY <1>0, <1>1, <3>4, <2>1, <3>1, RosterFacts
    <3> QED BY <1>3, <3>3, <3>5
  <2> QED BY <2>2, <2>3
<1>11. ScreensSeen'
  <2>1. ScreensSeen
    BY DEF TInv
  <2> QED BY <1>2, <1>3, <1>6, <2>1 DEF ScreensSeen
<1>12. SettleOfFeedback'
  BY <1>0, <1>5 DEF SettleOfFeedback, Control
<1> QED BY <1>3, <1>7, <1>8, <1>9, <1>10, <1>11, <1>12 DEF TInv

(* What the control in turn delivers lies within its award, its request    *)
(* and its ceiling.                                                        *)
LEMMA SettledFacts ==
  ASSUME TInv, stage = "settle"
  PROVE  /\ Control \in ExternalityControls
         /\ effective[Control].num \in PowerVector /\ effective[Control].den = 1
         /\ effective[Control] \in Requests
         /\ ceilings[Control] \in PowerVector /\ AtMost(ceilings[Control], Capacity)
         /\ answers[Control].award \in PowerVector
         /\ AtMost(answers[Control].award, effective[Control].num)
         /\ AtMost(effective[Control].num, ceilings[Control])
         /\ Delivery(Control) \in PowerVector
         /\ AtMost(Delivery(Control), answers[Control].award)
         /\ AtMost(Delivery(Control), ceilings[Control])
<1>1. turn \in 1 .. 4 /\ Control = Roster[turn] /\ Control \in ExternalityControls
  BY RosterFacts DEF TInv, TrajectoryTypeOK, Control, SettleOfFeedback
<1>2. /\ effective[Control].num \in PowerVector /\ effective[Control].den = 1
      /\ AtMost(effective[Control].num, ceilings[Control])
  BY <1>1 DEF TInv, AskedWithin
<1>3. /\ effective[Control] \in Requests /\ ceilings[Control] \in PowerVector
      /\ AtMost(ceilings[Control], Capacity) /\ available \in PowerVector
  BY <1>1, RosterFacts DEF TInv, TrajectoryTypeOK, CeilingsWithin
<1>4. Control \in Answered
  BY <1>1 DEF Answered
<1>5. answers[Control] \in Outcomes(effective[Control])
  BY <1>4 DEF TInv, AnswersCached, CacheSound
<1>6. /\ answers[Control].award \in PowerVector
      /\ AtMost(answers[Control].award, effective[Control].num)
  BY <1>2, <1>3, <1>5, OutcomeFacts
<1>7. \A p \in Participants : available[p] \in Nat
  BY <1>3, VectorIsNatural
<1>8. Delivery(Control) \in PowerVector /\ AtMost(Delivery(Control), answers[Control].award)
  BY <1>6, <1>7, DeliveryFacts DEF Delivery
<1>9. AtMost(Delivery(Control), effective[Control].num)
  BY <1>2, <1>6, <1>8, Transitive
<1>10. AtMost(Delivery(Control), ceilings[Control])
  BY <1>2, <1>3, <1>8, <1>9, Transitive
<1> QED BY <1>1, <1>2, <1>3, <1>6, <1>8, <1>10

(* Both gains: the new ceiling covers the delivery and is lowered only for *)
(* idle participants, when the gate opens.                                 *)
LEMMA UpdatedFacts ==
  ASSUME TInv, stage = "settle", NEW idle \in SUBSET Participants, NEW gate \in BOOLEAN,
         NEW next \in Updated(Control, idle, gate)
  PROVE  /\ next \in PowerVector
         /\ AtMost(next, Capacity)
         /\ AtMost(Delivery(Control), next)
         /\ \A p \in Participants : next[p] < ceilings[Control][p] => gate /\ p \in idle
         /\ ~gate /\ ceilings[Control] = Capacity => next = Capacity
<1>1. /\ next \in PowerVector
      /\ AtMost(next, Capacity)
      /\ AtMost(Delivery(Control), next)
      /\ \A p \in Participants : next[p] < ceilings[Control][p] => gate /\ p \in idle
  <2>1. CASE Control = Primary
    BY <2>1, SettledFacts, UpdatedCeilingFacts DEF Updated
  <2>2. CASE Control # Primary
    BY <2>2, SettledFacts, FullCeilingFacts DEF Updated
  <2> QED BY <2>1, <2>2
<1>2. ASSUME ~gate, ceilings[Control] = Capacity PROVE next = Capacity
  <2>1. ASSUME NEW p \in Participants PROVE next[p] = Capacity[p]
    <3>1. ~(next[p] < Capacity[p]) /\ next[p] <= Capacity[p]
      BY <1>1, <1>2 DEF AtMost
    <3>2. next[p] \in Nat /\ Capacity[p] \in Nat
      BY <1>1, BoundsAssumption, VectorIsNatural
    <3> QED BY <3>1, <3>2
  <2> QED BY <1>1, <2>1, BoundsAssumption DEF PowerVector
<1> QED BY <1>1, <1>2

(* The control in turn closes its interval on a gate: only its own ceiling *)
(* moves, and as long as no gate of it has opened it stays at capacity.    *)
LEMMA CloseSound ==
  ASSUME TInv, stage = "settle", NEW idle \in SUBSET Participants, NEW gate \in BOOLEAN,
         Close(Control, idle, gate), UNCHANGED <<base, available, effective, answers>>
  PROVE  /\ interval' \in 1 .. Horizon /\ turn' \in DOMAIN Roster /\ stage' \in Stages
         /\ ceilings' \in [ExternalityControls -> PowerVector]
         /\ opened' \in SUBSET ExternalityControls
         /\ CeilingsWithin' /\ AskedWithin' /\ EqualTerms' /\ SettleOfFeedback'
         /\ \A x \in Answered' : x \in Answered
         /\ opened \subseteq opened'
         /\ gate => opened' # {}
<1> DEFINE c == Control
<1>1. PICK next \in Updated(c, idle, gate) : ceilings' = [ceilings EXCEPT ![c] = next]
  BY DEF Close
<1>2. opened' = (IF gate THEN opened \cup {c} ELSE opened) /\ Advance
  BY DEF Close
<1>3. /\ next \in PowerVector /\ AtMost(next, Capacity)
      /\ ~gate /\ ceilings[c] = Capacity => next = Capacity
  BY <1>1, UpdatedFacts
<1>4. /\ c \in ExternalityControls /\ turn \in 1 .. 4 /\ c = Roster[turn]
      /\ ceilings \in [ExternalityControls -> PowerVector]
      /\ opened \in SUBSET ExternalityControls
  BY SettledFacts, RosterFacts DEF TInv, TrajectoryTypeOK, Control
<1> HIDE DEF c
<1>5. /\ interval' \in 1 .. Horizon /\ turn' \in 1 .. 4
      /\ stage' \in {"report", "begin", "done"}
      /\ stage' = "report" => turn < 4 /\ turn' = turn + 1
      /\ \A x \in Answered' : \E i \in 1 .. turn : x = Roster[i]
  BY <1>2, AdvanceFacts
<1>6. /\ ceilings' \in [ExternalityControls -> PowerVector]
      /\ ceilings'[c] = next
      /\ \A d \in ExternalityControls : d # c => ceilings'[d] = ceilings[d]
  BY <1>1, <1>3, <1>4
<1>7. opened' \in SUBSET ExternalityControls /\ opened \subseteq opened'
      /\ (gate => opened' # {})
  BY <1>2, <1>4
<1>8. CeilingsWithin'
  BY <1>3, <1>6 DEF TInv, CeilingsWithin
<1>9. AskedWithin'
  <2> SUFFICES ASSUME stage' = "report", NEW i \in turn' .. 4,
                      Roster[i] \in ExternalityControls
               PROVE  /\ effective[Roster[i]].den = 1
                      /\ effective[Roster[i]].num \in PowerVector
                      /\ AtMost(effective[Roster[i]].num, ceilings'[Roster[i]])
    BY <1>5 DEF AskedWithin
  <2>1. i \in turn .. 4 /\ i # turn /\ i \in 1 .. 4
    BY <1>4, <1>5
  <2>2. Roster[i] # c
    BY <1>4, <2>1, RosterFacts
  <2>3. ceilings'[Roster[i]] = ceilings[Roster[i]]
    BY <1>6, <2>2
  <2> QED BY <2>1, <2>3 DEF TInv, AskedWithin
<1>10. EqualTerms'
  <2>1. EqualTerms /\ stage = "settle"
    BY DEF TInv
  <2>2. ASSUME NEW d \in ExternalityControls \ opened' PROVE ceilings'[d] = Capacity
    <3>1. ceilings[d] = Capacity
      BY <1>7, <2>1 DEF EqualTerms
    <3>2. CASE d = c
      BY <1>2, <1>3, <1>6, <2>2, <3>1, <3>2
    <3> QED BY <1>6, <3>1, <3>2
  <2>3. /\ effective[NoFeedback] = Whole(base)
        /\ \A d \in ExternalityControls \ opened : effective[d] = Whole(base)
        /\ Primary \notin opened => effective[Uniform] = Whole(base)
    BY <2>1 DEF EqualTerms
  <2> QED BY <1>7, <2>2, <2>3 DEF EqualTerms
<1>11. \A x \in Answered' : x \in Answered
  BY <1>5 DEF Answered
<1>12. SettleOfFeedback'
  BY <1>5 DEF SettleOfFeedback
<1> QED BY <1>5, <1>6, <1>7, <1>8, <1>9, <1>10, <1>11, <1>12, RosterFacts DEF Stages

LEMMA SettleFullSound == ASSUME TInv, SettleFull PROVE TInv'
<1>1. /\ stage = "settle" /\ Close(Control, {}, FALSE)
      /\ seen' = [seen EXCEPT !.closes = TRUE]
      /\ UNCHANGED <<base, available, effective, cache, answers>>
  BY DEF SettleFull
<1>2. /\ interval' \in 1 .. Horizon /\ turn' \in DOMAIN Roster /\ stage' \in Stages
      /\ ceilings' \in [ExternalityControls -> PowerVector]
      /\ opened' \in SUBSET ExternalityControls
      /\ CeilingsWithin' /\ AskedWithin' /\ EqualTerms' /\ SettleOfFeedback'
      /\ \A x \in Answered' : x \in Answered
      /\ opened \subseteq opened'
  BY <1>1, CloseSound
<1>3. /\ seen' \in Evidence
      /\ seen'.solved = seen.solved /\ seen'.screened = seen.screened
      /\ seen'.replaysPass = seen.replaysPass /\ seen'.opens = seen.opens
  BY <1>1 DEF TInv, TrajectoryTypeOK, Evidence
<1>4. TrajectoryTypeOK'
  BY <1>1, <1>2, <1>3 DEF TInv, TrajectoryTypeOK
<1>5. AnswersCached' /\ CacheSound'
  BY <1>1, <1>2 DEF TInv, AnswersCached, CacheSound
<1>6. ScreensSeen'
  BY <1>1, <1>2, <1>3 DEF TInv, ScreensSeen
<1> QED BY <1>2, <1>4, <1>5, <1>6 DEF TInv

(* What is recorded of a replay.                                           *)
LEMMA ReplayedFacts ==
  ASSUME seen \in Evidence, NEW answer, NEW gate \in BOOLEAN
  PROVE  /\ Replayed(answer, gate) \in Evidence
         /\ Replayed(answer, gate).solved = seen.solved
         /\ Replayed(answer, gate).screened = seen.screened
         /\ Replayed(answer, gate).replaysPass <=>
              (seen.replaysPass /\ answer.status = "passed")
         /\ Replayed(answer, gate).opens <=> (seen.opens \/ gate)
<1> DEFINE w == Replayed(answer, gate)
           x == (seen.replaysPass /\ answer.status = "passed")
           o == (seen.opens \/ gate)
           k == (seen.closes \/ ~gate)
<1>1. /\ seen.measured \in SUBSET Controls /\ seen.replayed \in BOOLEAN
      /\ seen.solved \in BOOLEAN /\ seen.screened \in BOOLEAN
      /\ seen.replaysPass \in BOOLEAN /\ seen.opens \in BOOLEAN /\ seen.closes \in BOOLEAN
      /\ seen = [measured |-> seen.measured, solved |-> seen.solved,
                 screened |-> seen.screened, replayed |-> seen.replayed,
                 replaysPass |-> seen.replaysPass, opens |-> seen.opens,
                 closes |-> seen.closes]
  BY DEF Evidence
<1>2. x \in BOOLEAN /\ o \in BOOLEAN /\ k \in BOOLEAN
  BY <1>1
<1>3. w = [seen EXCEPT !.replayed = TRUE, !.replaysPass = x, !.opens = o, !.closes = k]
  BY DEF Replayed
<1> HIDE DEF x, o, k, w
<1>4. w = [measured |-> seen.measured, solved |-> seen.solved, screened |-> seen.screened,
           replayed |-> TRUE, replaysPass |-> x, opens |-> o, closes |-> k]
  BY <1>1, <1>3
<1>5. w \in Evidence
  BY <1>1, <1>2, <1>4 DEF Evidence
<1>6. /\ w.solved = seen.solved /\ w.screened = seen.screened
      /\ w.replaysPass = x /\ w.opens = o
  BY <1>4
<1> QED BY <1>5, <1>6 DEF x, o, w

LEMMA SettleReplaySound == ASSUME TInv, SettleReplay PROVE TInv'
<1> DEFINE c == Control
           idle == IdleIndices(answers[c].award, Delivery(c))
<1>1. PICK a \in Outcomes(ReplayRequest(c)) :
        /\ Solve(ReplayRequest(c), a)
        /\ Close(c, idle, ReplayOpensGate(c, idle, a))
        /\ seen' = Replayed(a, ReplayOpensGate(c, idle, a))
  BY DEF SettleReplay
<1> DEFINE gate == ReplayOpensGate(c, idle, a)
           r == ReplayRequest(c)
<1>2. stage = "settle" /\ UNCHANGED <<base, available, effective, answers>>
  BY DEF SettleReplay
<1>3. idle \in SUBSET Participants /\ gate \in BOOLEAN
  BY DEF IdleIndices, ReplayOpensGate, GateTriggered
<1>4. r \in Requests
  <2>1. FulfillmentReplayRequest(effective[c].num, answers[c].award, Delivery(c))
          \in PowerVector
    BY <1>2, SettledFacts, ReplayRequestFacts
  <2> QED BY <2>1, WholeFacts DEF ReplayRequest
<1>5. /\ r \in DOMAIN cache' /\ cache'[r] = a
      /\ \A x \in DOMAIN cache : x \in DOMAIN cache' /\ cache'[x] = cache[x]
      /\ \A x \in DOMAIN cache' : x = r \/ x \in DOMAIN cache
      /\ CacheSound'
      /\ DOMAIN cache' \subseteq Requests
      /\ \A x \in DOMAIN cache' : cache'[x] \in Answers
  BY <1>1, <1>4, SolveFacts
<1> HIDE DEF idle, gate, r
<1>6. /\ interval' \in 1 .. Horizon /\ turn' \in DOMAIN Roster /\ stage' \in Stages
      /\ ceilings' \in [ExternalityControls -> PowerVector]
      /\ opened' \in SUBSET ExternalityControls
      /\ CeilingsWithin' /\ AskedWithin' /\ EqualTerms' /\ SettleOfFeedback'
      /\ \A x \in Answered' : x \in Answered
      /\ opened \subseteq opened'
      /\ gate => opened' # {}
  <2>1. Close(Control, idle, gate)
    BY <1>1 DEF gate
  <2> QED BY <1>2, <1>3, <2>1, CloseSound
<1>7. /\ seen' \in Evidence
      /\ seen'.solved = seen.solved /\ seen'.screened = seen.screened
      /\ seen'.replaysPass <=> (seen.replaysPass /\ a.status = "passed")
      /\ seen'.opens <=> (seen.opens \/ gate)
  <2>1. seen' = Replayed(a, gate) /\ seen \in Evidence
    BY <1>1 DEF gate, TInv, TrajectoryTypeOK
  <2> QED BY <1>3, <2>1, ReplayedFacts
<1>8. TrajectoryTypeOK'
  BY <1>2, <1>5, <1>6, <1>7 DEF TInv, TrajectoryTypeOK
<1>9. AnswersCached'
  BY <1>2, <1>5, <1>6 DEF TInv, AnswersCached
<1>10. ScreensSeen'
  <2>1. ScreensSeen
    BY DEF TInv
  <2>2. seen'.opens => opened' # {}
    BY <1>6, <1>7, <2>1 DEF ScreensSeen
  <2>3. seen'.solved /\ seen'.screened /\ seen'.replaysPass =>
          \A x \in DOMAIN cache' : cache'[x].status = "passed"
    BY <1>5, <1>7, <2>1 DEF ScreensSeen
  <2> QED BY <2>2, <2>3 DEF ScreensSeen
<1> QED BY <1>5, <1>6, <1>8, <1>9, <1>10 DEF TInv

-----------------------------------------------------------------------------
LEMMA TrajectoryInvariant == ASSUME TInv, [Next]_vars PROVE TInv'
<1>1. CASE Task
  BY <1>1, BeginIntervalSound, ReportSound, SettleFullSound, SettleReplaySound
  DEF Task, TaskStep
<1>2. CASE StartExperiment
  BY <1>2, FreshSound DEF StartExperiment
<1>3. CASE CannotAggregate \/ WriteResult \/ Interrupt
  <2>1. Nothing \in PowerVector /\ AtMost(Nothing, Capacity)
    BY BoundsAssumption, NothingFacts
  <2> QED BY <1>3, <2>1, FreshSound DEF CannotAggregate, WriteResult, Interrupt
<1>4. ASSUME UNCHANGED trajectory PROVE TInv'
  BY <1>4 DEF trajectory, TInv, TrajectoryTypeOK, CeilingsWithin, AskedWithin, EqualTerms,
     AnswersCached, Answered, CacheSound, ScreensSeen, SettleOfFeedback, Control
<1>5. CASE ReplaceSource \/ ExecuteMethods \/ FreezeDynamic \/ RunResponse
           \/ ChooseRequests \/ FreezeDesign \/ WriteTables \/ Summarise \/ AuditClosure
           \/ AuditDelivery \/ Export \/ UNCHANGED vars
  <2>1. UNCHANGED trajectory
    BY <1>5 DEF ReplaceSource, ExecuteMethods, FreezeDynamic, RunResponse, ChooseRequests,
       FreezeDesign, WriteTables, Summarise, AuditClosure, AuditDelivery, Export, vars
  <2> QED BY <1>4, <2>1
<1> QED BY <1>1, <1>2, <1>3, <1>5 DEF Next

-----------------------------------------------------------------------------
\* Every design is of one source, and so is what it was made from.
DesignOfOneSource ==
  design.dynamic = design.source /\ design.behaviour.source = design.source

\* No other command runs during an experiment, so what it compared still holds.
InputsHeld ==
  stage # "idle" =>
    design.source = source /\ design.behaviour = behaviour /\ execution = source

CompleteIsRemembered ==
  /\ result.complete => result.run \in complete
  /\ \A report \in {evidence, closure, delivery} : report.complete => report.run \in complete

\* A table can be told from that of its run only when the run was killed.
IsOf(table, run) == table = TableOf(run) \/ run \in unfinished

\* The tables that the result's experiment has written so far.
WrittenTablesAreOwn ==
  /\ writing \in {"nothing", "openTrajectories", "closeTrajectories"}
       => IsOf(tables.intervals, result.run)
  /\ writing = "nothing" => IsOf(tables.trajectories, result.run)

ReadTablesAreOwn ==
  \A report \in {evidence, closure} : \A t \in report.read : IsOf(t, report.run)

FilesInv ==
  /\ TypeOK
  /\ source <= commands + 1
  /\ DesignOfOneSource
  /\ InputsHeld
  /\ ResultIsOfOneSource
  /\ CompleteIsRemembered
  /\ WrittenTablesAreOwn
  /\ ReadTablesAreOwn
  /\ PackageMatchesItsRuns

LEMMA FilesInitially == ASSUME Init PROVE FilesInv
<1>1. TrajectoryTypeOK
  BY IdleSound DEF Init, TInv
<1>2. 0 \in Runs /\ 1 \in Versions
  BY CommandsAssumption DEF Runs, Versions
<1>3. /\ Deposit \in RequestFiles /\ DepositedDesign \in Designs
      /\ TableOf(0) \in Table /\ tables \in Tables
  BY <1>2 DEF Init, Deposit, DepositedDesign, RequestFiles, Designs, TableOf, Table, Tables
<1>4. {evidence, closure, delivery} \subseteq Reports
  BY <1>2, <1>3 DEF Init, DepositedReport, Reports
<1>5. result \in Results /\ package \in Packages
  BY <1>2, <1>3 DEF Init, Results, Packages, RowsOf
<1>6. TypeOK
  BY <1>1, <1>2, <1>3, <1>4, <1>5 DEF Init, TypeOK, Writing
<1>7. source <= commands + 1 /\ DesignOfOneSource /\ InputsHeld
  BY DEF Init, Idle, DesignOfOneSource, InputsHeld, Deposit, DepositedDesign
<1>8. ResultIsOfOneSource
  BY DEF Init, ResultIsOfOneSource, Deposit, DepositedDesign
<1>9. CompleteIsRemembered
  BY DEF Init, CompleteIsRemembered, DepositedReport
<1>10. WrittenTablesAreOwn /\ ReadTablesAreOwn
  BY DEF Init, WrittenTablesAreOwn, ReadTablesAreOwn, IsOf, DepositedReport
<1>11. PackageMatchesItsRuns
  BY DEF Init, PackageMatchesItsRuns, RowsOf
<1> QED BY <1>6, <1>7, <1>8, <1>9, <1>10, <1>11 DEF FilesInv

LEMMA CommandFacts ==
  ASSUME FilesInv, Command
  PROVE  /\ commands' \in Runs /\ commands' = commands + 1 /\ commands \in Nat
         /\ source + 1 \in Versions /\ source + 1 <= commands' + 1
         /\ source <= commands' + 1
         /\ source \in Versions
         /\ writing' = writing /\ complete' = complete /\ unfinished' = unfinished
         /\ stage = "idle" /\ writing = "nothing"
  BY CommandsAssumption DEF FilesInv, TypeOK, Runs, Versions, Command, history

(* A command that leaves the experiment and its reports alone.             *)
LEMMA InputCommand ==
  ASSUME FilesInv, Command, UNCHANGED <<trajectory, result, tables, reports>>,
         {source', execution', dynamic'} \subseteq Versions, source' <= commands' + 1,
         {response', behaviour'} \subseteq RequestFiles,
         design' \in Designs, DesignOfOneSource'
  PROVE  FilesInv'
<1>1. /\ commands' \in Runs /\ writing' = writing
      /\ complete' = complete /\ unfinished' = unfinished
      /\ stage = "idle" /\ writing = "nothing"
  BY CommandFacts
<1>2. UNCHANGED <<stage, result, tables, evidence, closure, delivery, package>>
  BY DEF trajectory, reports
<1>3. TrajectoryTypeOK'
  BY DEF FilesInv, TypeOK, TrajectoryTypeOK, trajectory
<1>4. TypeOK'
  BY <1>1, <1>2, <1>3 DEF FilesInv, TypeOK
<1>5. InputsHeld' /\ ResultIsOfOneSource' /\ CompleteIsRemembered'
  BY <1>1, <1>2 DEF FilesInv, InputsHeld, ResultIsOfOneSource, CompleteIsRemembered
<1>6. WrittenTablesAreOwn' /\ ReadTablesAreOwn' /\ PackageMatchesItsRuns'
  BY <1>1, <1>2 DEF FilesInv, WrittenTablesAreOwn, ReadTablesAreOwn, IsOf,
     PackageMatchesItsRuns
<1> QED BY <1>4, <1>5, <1>6 DEF FilesInv

LEMMA InputCommandsSound ==
  ASSUME FilesInv,
         ReplaceSource \/ ExecuteMethods \/ FreezeDynamic \/ RunResponse \/ ChooseRequests
           \/ FreezeDesign
  PROVE  FilesInv'
<1>0. /\ {source, execution, dynamic} \subseteq Versions
      /\ {response, behaviour} \subseteq RequestFiles
      /\ design \in Designs /\ DesignOfOneSource
  BY DEF FilesInv, TypeOK
<1>1. CASE ReplaceSource
  BY <1>0, <1>1, InputCommand, CommandFacts DEF ReplaceSource, DesignOfOneSource
<1>2. CASE ExecuteMethods
  BY <1>0, <1>2, InputCommand, CommandFacts DEF ExecuteMethods, DesignOfOneSource
<1>3. CASE FreezeDynamic
  BY <1>0, <1>3, InputCommand, CommandFacts DEF FreezeDynamic, DesignOfOneSource
<1>4. CASE RunResponse
  <2>1. response' \in RequestFiles
    BY <1>0, <1>4, CommandFacts DEF RunResponse, RequestFiles
  <2> QED BY <1>0, <1>4, <2>1, InputCommand, CommandFacts
          DEF RunResponse, DesignOfOneSource
<1>5. CASE ChooseRequests
  <2>1. behaviour' \in RequestFiles
    BY <1>0, <1>5 DEF ChooseRequests, RequestFiles
  <2> QED BY <1>0, <1>5, <2>1, InputCommand, CommandFacts
          DEF ChooseRequests, DesignOfOneSource
<1>6. CASE FreezeDesign
  <2>1. design' \in Designs /\ DesignOfOneSource'
    BY <1>0, <1>6 DEF FreezeDesign, Designs, DesignOfOneSource
  <2> QED BY <1>0, <1>6, <2>1, InputCommand, CommandFacts DEF FreezeDesign
<1> QED BY <1>1, <1>2, <1>3, <1>4, <1>5, <1>6

(* The steps of an experiment before its result is there.                  *)
LEMMA ExperimentSound ==
  ASSUME FilesInv, TrajectoryTypeOK',
         StartExperiment \/ Task \/ CannotAggregate \/ Interrupt
  PROVE  FilesInv'
<1>1. /\ UNCHANGED <<source, execution, dynamic, response, behaviour, design, result,
                     tables, evidence, closure, delivery, package, complete>>
      /\ commands' \in Runs /\ commands <= commands' /\ commands \in Nat
  BY CommandFacts DEF StartExperiment, Task, CannotAggregate, Interrupt, Command, inputs,
     reports, history, FilesInv, TypeOK, Runs
<1>2. writing' = "nothing" \/ stage' = "idle"
  <2>1. CASE StartExperiment
    BY <2>1, CommandFacts DEF StartExperiment
  <2>2. CASE Task
    BY <2>2 DEF Task, TaskStep, BeginInterval, Report, SettleFull, SettleReplay, FilesInv,
       TypeOK
  <2>3. CASE CannotAggregate \/ Interrupt
    BY <2>3 DEF CannotAggregate, Interrupt, Fresh
  <2> QED BY <2>1, <2>2, <2>3
<1>3. /\ writing' \in Writing
      /\ unfinished' \in SUBSET Runs /\ unfinished \subseteq unfinished'
      /\ \/ writing' = writing /\ unfinished' = unfinished
         \/ writing' = "nothing" /\ writing = "nothing" /\ unfinished' = unfinished
         \/ writing' = "nothing" /\ result.run \in unfinished'
  <2>1. /\ writing \in Writing /\ "nothing" \in Writing
        /\ unfinished \in SUBSET Runs /\ result.run \in Runs
    BY DEF FilesInv, TypeOK, Results, Writing
  <2>2. CASE StartExperiment
    BY <2>1, <2>2, CommandFacts DEF StartExperiment
  <2>3. CASE Task \/ CannotAggregate
    BY <2>1, <2>3 DEF Task, CannotAggregate, history
  <2>4. CASE Interrupt
    BY <2>1, <2>4 DEF Interrupt
  <2> QED BY <2>2, <2>3, <2>4
<1>4. TypeOK'
  BY <1>1, <1>2, <1>3 DEF FilesInv, TypeOK
<1>5. InputsHeld'
  <2>1. CASE StartExperiment
    BY <1>1, <2>1 DEF StartExperiment, InputsHeld
  <2>2. CASE Task
    BY <1>1, <2>2 DEF Task, TaskStep, BeginInterval, Report, SettleFull, SettleReplay,
       FilesInv, InputsHeld
  <2>3. CASE CannotAggregate \/ Interrupt
    BY <2>3 DEF CannotAggregate, Interrupt, Fresh, InputsHeld
  <2> QED BY <2>1, <2>2, <2>3
<1>6. source' <= commands' + 1
  BY <1>1, CommandsAssumption DEF FilesInv, TypeOK, Versions
<1>7. DesignOfOneSource' /\ ResultIsOfOneSource' /\ CompleteIsRemembered'
  BY <1>1 DEF FilesInv, DesignOfOneSource, ResultIsOfOneSource, CompleteIsRemembered
<1>8. WrittenTablesAreOwn'
  BY <1>1, <1>3 DEF FilesInv, WrittenTablesAreOwn, IsOf
<1>9. ReadTablesAreOwn' /\ PackageMatchesItsRuns'
  BY <1>1, <1>3 DEF FilesInv, ReadTablesAreOwn, IsOf, PackageMatchesItsRuns
<1> QED BY <1>4, <1>5, <1>6, <1>7, <1>8, <1>9 DEF FilesInv

LEMMA WriteResultSound ==
  ASSUME FilesInv, TrajectoryTypeOK', WriteResult PROVE FilesInv'
<1>1. /\ UNCHANGED <<source, execution, dynamic, response, behaviour, design, tables,
                     evidence, closure, delivery, package, unfinished, commands>>
      /\ writing' = "openIntervals" /\ stage' = "idle" /\ stage = "done"
  BY DEF WriteResult, Fresh, inputs, reports
<1>2. /\ result' = [run |-> commands, design |-> design, behaviour |-> behaviour,
                    source |-> source, execution |-> execution, evident |-> Evident,
                    complete |-> Verdict]
      /\ complete' = IF Verdict THEN complete \cup {commands} ELSE complete
  BY DEF WriteResult
<1>3. /\ source \in Versions /\ execution \in Versions /\ behaviour \in RequestFiles
      /\ design \in Designs /\ commands \in Runs
      /\ complete \in SUBSET Runs /\ unfinished \in SUBSET Runs
      /\ seen \in Evidence
  BY DEF FilesInv, TypeOK, TrajectoryTypeOK
<1>4. Evident \in BOOLEAN /\ Verdict \in BOOLEAN
  BY <1>3 DEF Evident, Verdict
<1> DEFINE e == Evident
           k == Verdict
<1> HIDE DEF e, k
<1>5. /\ result' \in Results /\ complete' \in SUBSET Runs
      /\ result'.complete => result'.run \in complete'
      /\ complete \subseteq complete'
      /\ result'.design = design /\ result'.behaviour = behaviour
      /\ result'.source = source /\ result'.execution = execution
  <2>1. result' = [run |-> commands, design |-> design, behaviour |-> behaviour,
                   source |-> source, execution |-> execution, evident |-> e,
                   complete |-> k]
        /\ complete' = IF k THEN complete \cup {commands} ELSE complete
    BY <1>2 DEF e, k
  <2>2. e \in BOOLEAN /\ k \in BOOLEAN
    BY <1>4 DEF e, k
  <2> QED BY <1>3, <2>1, <2>2 DEF Results
<1>6. TypeOK'
  BY <1>1, <1>3, <1>5 DEF FilesInv, TypeOK, Writing
<1>7. InputsHeld' /\ DesignOfOneSource' /\ source' <= commands' + 1
  BY <1>1 DEF FilesInv, InputsHeld, DesignOfOneSource
<1>8. ResultIsOfOneSource'
  BY <1>1, <1>5 DEF FilesInv, InputsHeld, DesignOfOneSource, ResultIsOfOneSource
<1>9. CompleteIsRemembered' /\ PackageMatchesItsRuns'
  BY <1>1, <1>5 DEF FilesInv, CompleteIsRemembered, PackageMatchesItsRuns
<1>10. WrittenTablesAreOwn' /\ ReadTablesAreOwn'
  BY <1>1 DEF FilesInv, WrittenTablesAreOwn, ReadTablesAreOwn, IsOf
<1> QED BY <1>6, <1>7, <1>8, <1>9, <1>10 DEF FilesInv

(* A table is opened in place and, when it is closed, is the result's own. *)
LEMMA WriteTablesSound == ASSUME FilesInv, WriteTables PROVE FilesInv'
<1>1. /\ UNCHANGED <<trajectory, stage, source, execution, dynamic, response, behaviour,
                     design, result, evidence, closure, delivery, package, complete,
                     unfinished, commands>>
  BY DEF WriteTables, inputs, reports, history, trajectory
<1>2. /\ tables \in Tables /\ result.run \in Runs /\ writing # "nothing"
      /\ stage = "idle"
  BY DEF FilesInv, TypeOK, Results, WriteTables
<1>3. /\ TableOf(result.run) \in Table
      /\ \A rows \in {"clipped", "short"} : [run |-> result.run, rows |-> rows] \in Table
  BY <1>2 DEF TableOf, Table
<1>4. ASSUME NEW t \in Table
      PROVE  /\ [tables EXCEPT !["intervals"] = t]
                  = [intervals |-> t, trajectories |-> tables.trajectories]
             /\ [tables EXCEPT !["trajectories"] = t]
                  = [intervals |-> tables.intervals, trajectories |-> t]
  <2>1. PICK i \in Table, j \in Table : tables = [intervals |-> i, trajectories |-> j]
    BY <1>2 DEF Tables
  <2>2. tables.intervals = i /\ tables.trajectories = j
    BY <2>1
  <2>3. [tables EXCEPT !["intervals"] = t] = [intervals |-> t, trajectories |-> j]
    BY <2>1
  <2>4. [tables EXCEPT !["trajectories"] = t] = [intervals |-> i, trajectories |-> t]
    BY <2>1
  <2> QED BY <2>2, <2>3, <2>4
<1>5. /\ tables' \in Tables /\ writing' \in Writing
      /\ WrittenTablesAreOwn'
  <2>1. CASE writing = "openIntervals"
    <3>1. PICK t \in Table : tables' = [tables EXCEPT !["intervals"] = t]
      BY <1>3, <2>1 DEF WriteTables, OpenTable
    <3>2. writing' = "closeIntervals"
      BY <2>1 DEF WriteTables
    <3> QED BY <1>2, <1>4, <3>1, <3>2 DEF Tables, Writing, WrittenTablesAreOwn
  <2>2. CASE writing = "closeIntervals"
    <3>1. tables' = [intervals |-> TableOf(result.run),
                     trajectories |-> tables.trajectories]
      BY <1>3, <1>4, <2>2 DEF WriteTables, CloseTable
    <3>2. writing' = "openTrajectories"
      BY <2>2 DEF WriteTables
    <3> QED BY <1>1, <1>2, <1>3, <3>1, <3>2
            DEF Tables, Writing, WrittenTablesAreOwn, IsOf, TableOf
  <2>3. CASE writing = "openTrajectories"
    <3>1. PICK t \in Table : tables' = [tables EXCEPT !["trajectories"] = t]
      BY <1>3, <2>3 DEF WriteTables, OpenTable
    <3>2. writing' = "closeTrajectories"
      BY <2>3 DEF WriteTables
    <3>3. IsOf(tables.intervals, result.run)
      BY <2>3 DEF FilesInv, WrittenTablesAreOwn
    <3> QED BY <1>1, <1>2, <1>4, <3>1, <3>2, <3>3
            DEF Tables, Writing, WrittenTablesAreOwn, IsOf, TableOf
  <2>4. CASE writing = "closeTrajectories"
    <3>1. tables' = [intervals |-> tables.intervals,
                     trajectories |-> TableOf(result.run)]
      BY <1>3, <1>4, <2>4 DEF WriteTables, CloseTable
    <3>2. writing' = "nothing"
      BY <2>4 DEF WriteTables
    <3>3. IsOf(tables.intervals, result.run)
      BY <2>4 DEF FilesInv, WrittenTablesAreOwn
    <3> QED BY <1>1, <1>2, <1>3, <3>1, <3>2, <3>3
            DEF Tables, Writing, WrittenTablesAreOwn, IsOf, TableOf
  <2> QED BY <2>1, <2>2, <2>3, <2>4 DEF WriteTables
<1>6. TypeOK'
  <2>1. TrajectoryTypeOK'
    BY <1>1 DEF FilesInv, TypeOK, TrajectoryTypeOK, trajectory
  <2> QED BY <1>1, <1>2, <1>5, <2>1 DEF FilesInv, TypeOK
<1>7. source' <= commands' + 1 /\ DesignOfOneSource' /\ InputsHeld' /\ ResultIsOfOneSource'
  BY <1>1 DEF FilesInv, DesignOfOneSource, InputsHeld, ResultIsOfOneSource
<1>8. CompleteIsRemembered' /\ ReadTablesAreOwn' /\ PackageMatchesItsRuns'
  BY <1>1 DEF FilesInv, CompleteIsRemembered, ReadTablesAreOwn, IsOf, PackageMatchesItsRuns
<1> QED BY <1>5, <1>6, <1>7, <1>8 DEF FilesInv

(* The commands that read an experiment: what each may write in its file.  *)
LEMMA ReadingCommand ==
  ASSUME FilesInv, Command,
         UNCHANGED <<trajectory, inputs, result, tables>>,
         {evidence', closure', delivery'} \subseteq Reports, package' \in Packages,
         CompleteIsRemembered', ReadTablesAreOwn', PackageMatchesItsRuns'
  PROVE  FilesInv'
<1>1. /\ commands' \in Runs /\ source <= commands' + 1 /\ writing' = writing
      /\ complete' = complete /\ unfinished' = unfinished
  BY CommandFacts
<1>2. UNCHANGED <<source, execution, dynamic, response, behaviour, design, stage>>
  BY DEF inputs, trajectory
<1>3. TypeOK'
  <2>1. TrajectoryTypeOK'
    BY DEF FilesInv, TypeOK, TrajectoryTypeOK, trajectory
  <2> QED BY <1>1, <1>2, <2>1 DEF FilesInv, TypeOK
<1>4. /\ source' <= commands' + 1 /\ DesignOfOneSource' /\ InputsHeld'
      /\ ResultIsOfOneSource'
  BY <1>1, <1>2 DEF FilesInv, DesignOfOneSource, InputsHeld, ResultIsOfOneSource
<1>5. WrittenTablesAreOwn'
  BY <1>1 DEF FilesInv, WrittenTablesAreOwn, IsOf
<1> QED BY <1>3, <1>4, <1>5 DEF FilesInv

LEMMA ReportsSound ==
  ASSUME FilesInv,
         Summarise \/ AuditClosure \/ AuditDelivery \/ Export
  PROVE  FilesInv'
<1>1. /\ Command /\ UNCHANGED <<trajectory, inputs, result, tables>>
      /\ complete' = complete /\ unfinished' = unfinished
      /\ result.complete /\ result.run \in complete
  <2>1. Command /\ UNCHANGED <<trajectory, inputs, result, tables>> /\ result.complete
    BY DEF Summarise, AuditClosure, AuditDelivery, Export
  <2> QED BY <2>1, CommandFacts DEF FilesInv, CompleteIsRemembered
<1>2. /\ tables \in Tables /\ {evidence, closure, delivery} \subseteq Reports
      /\ package \in Packages /\ result.run \in Runs
      /\ CompleteIsRemembered /\ ReadTablesAreOwn /\ PackageMatchesItsRuns
      /\ tables.intervals \in Table /\ tables.trajectories \in Table
  BY DEF FilesInv, TypeOK, Results, Tables
<1>3. IsOf(tables.intervals, result.run) /\ IsOf(tables.trajectories, result.run)
  BY <1>1, CommandFacts DEF FilesInv, WrittenTablesAreOwn
<1>4. ASSUME NEW read \in SUBSET Table, NEW ok \in BOOLEAN
      PROVE  /\ ReportOf(read, ok) \in Reports
             /\ ReportOf(read, ok).run = result.run
             /\ ReportOf(read, ok).read = read
  BY <1>2, <1>4 DEF ReportOf, Reports
<1>5. CASE Summarise
  <2>1. PICK ok \in BOOLEAN :
          evidence' = ReportOf({tables.intervals, tables.trajectories}, ok)
    BY <1>5 DEF Summarise, Counted
  <2>2. UNCHANGED <<closure, delivery, package>>
    BY <1>5 DEF Summarise
  <2>3. CompleteIsRemembered' /\ ReadTablesAreOwn' /\ PackageMatchesItsRuns'
    BY <1>1, <1>2, <1>3, <1>4, <2>1, <2>2
    DEF CompleteIsRemembered, ReadTablesAreOwn, IsOf, PackageMatchesItsRuns
  <2> QED BY <1>1, <1>2, <1>4, <2>1, <2>2, <2>3, ReadingCommand
<1>6. CASE AuditClosure
  <2>1. PICK ok \in BOOLEAN : closure' = ReportOf({tables.trajectories}, ok)
    BY <1>6 DEF AuditClosure, SameChain
  <2>2. UNCHANGED <<evidence, delivery, package>>
    BY <1>6 DEF AuditClosure
  <2>3. CompleteIsRemembered' /\ ReadTablesAreOwn' /\ PackageMatchesItsRuns'
    BY <1>1, <1>2, <1>3, <1>4, <2>1, <2>2
    DEF CompleteIsRemembered, ReadTablesAreOwn, IsOf, PackageMatchesItsRuns
  <2> QED BY <1>1, <1>2, <1>4, <2>1, <2>2, <2>3, ReadingCommand
<1>7. CASE AuditDelivery
  <2>1. PICK ok \in BOOLEAN : delivery' = ReportOf({}, ok)
    BY <1>7 DEF AuditDelivery
  <2>2. UNCHANGED <<evidence, closure, package>>
    BY <1>7 DEF AuditDelivery
  <2>3. CompleteIsRemembered' /\ ReadTablesAreOwn' /\ PackageMatchesItsRuns'
    BY <1>1, <1>2, <1>4, <2>1, <2>2
    DEF CompleteIsRemembered, ReadTablesAreOwn, IsOf, PackageMatchesItsRuns
  <2> QED BY <1>1, <1>2, <1>4, <2>1, <2>2, <2>3, ReadingCommand
<1>8. CASE Export
  <2>1. /\ package' = Packed
        /\ evidence.complete /\ closure.complete /\ delivery.complete
        /\ UNCHANGED <<evidence, closure, delivery>>
    BY <1>8 DEF Export
  <2>2. /\ {evidence.run, closure.run, delivery.run} \subseteq Runs
        /\ evidence.read \subseteq Table /\ closure.read \subseteq Table
    BY <1>2 DEF Reports
  <2>3. Packed \in Packages
    BY <1>2, <2>2 DEF Packed, Packages, RowsOf
  <2>4. {result.run, evidence.run, closure.run, delivery.run} \subseteq complete
    BY <1>1, <1>2, <2>1 DEF CompleteIsRemembered
  <2>5. \A r \in Packed.rows : IsOf(r.table, r.run)
    BY <1>2, <1>3 DEF Packed, RowsOf, ReadTablesAreOwn
  <2>6. /\ Packed.result = result.run /\ Packed.evidence = evidence.run
        /\ Packed.closure = closure.run /\ Packed.delivery = delivery.run
    BY DEF Packed
  <2>7. PackageMatchesItsRuns'
    BY <1>1, <2>1, <2>4, <2>5, <2>6 DEF PackageMatchesItsRuns, IsOf
  <2>8. CompleteIsRemembered' /\ ReadTablesAreOwn'
    BY <1>1, <1>2, <2>1 DEF CompleteIsRemembered, ReadTablesAreOwn, IsOf
  <2> QED BY <1>1, <1>2, <2>1, <2>3, <2>7, <2>8, ReadingCommand
<1> QED BY <1>5, <1>6, <1>7, <1>8

LEMMA FilesStutter == ASSUME FilesInv, UNCHANGED vars PROVE FilesInv'
<1>1. /\ UNCHANGED <<trajectory, stage, source, execution, dynamic, response, behaviour,
                     design, result, tables, evidence, closure, delivery, package,
                     writing, complete, unfinished, commands>>
  BY DEF vars, inputs, reports, history, trajectory
<1>2. TypeOK'
  <2>1. TrajectoryTypeOK'
    BY <1>1 DEF FilesInv, TypeOK, TrajectoryTypeOK, trajectory
  <2> QED BY <1>1, <2>1 DEF FilesInv, TypeOK
<1>3. source' <= commands' + 1 /\ DesignOfOneSource' /\ InputsHeld' /\ ResultIsOfOneSource'
  BY <1>1 DEF FilesInv, DesignOfOneSource, InputsHeld, ResultIsOfOneSource
<1>4. CompleteIsRemembered' /\ WrittenTablesAreOwn' /\ ReadTablesAreOwn'
      /\ PackageMatchesItsRuns'
  BY <1>1 DEF FilesInv, CompleteIsRemembered, WrittenTablesAreOwn, ReadTablesAreOwn, IsOf,
     PackageMatchesItsRuns
<1> QED BY <1>2, <1>3, <1>4 DEF FilesInv

-----------------------------------------------------------------------------
(* What the study keeps: the invariant of a task and that of the files.    *)
THEOREM StudyInvariant == Spec => [](TInv /\ FilesInv)
<1>1. Init => TInv /\ FilesInv
  BY IdleSound, FilesInitially DEF Init
<1>2. TInv /\ FilesInv /\ [Next]_vars => TInv' /\ FilesInv'
  <2> SUFFICES ASSUME TInv, FilesInv, [Next]_vars PROVE TInv' /\ FilesInv'
    OBVIOUS
  <2>1. TInv' /\ TrajectoryTypeOK'
    BY TrajectoryInvariant DEF TInv
  <2>2. FilesInv'
    BY <2>1, InputCommandsSound, ExperimentSound, WriteResultSound, WriteTablesSound,
       ReportsSound, FilesStutter DEF Next
  <2> QED BY <2>1, <2>2
<1> QED BY <1>1, <1>2, PTL DEF Spec

(* The files, the task in progress and the verdicts keep their types.      *)
THEOREM StudyTypes == Spec => []TypeOK
<1>1. FilesInv => TypeOK
  BY DEF FilesInv
<1> QED BY <1>1, StudyInvariant, PTL

(* Controls whose gate has never opened receive the open-loop answers, for *)
(* any number of participants, capacity, horizon and gain.                 *)
THEOREM PairedControlsKept == Spec => []PairedControls
<1>1. TInv => PairedControls
  <2> SUFFICES ASSUME TInv PROVE PairedControls
    OBVIOUS
  <2>1. ASSUME NEW c \in Answered
        PROVE  /\ stage \in {"report", "settle", "done"}
               /\ NoFeedback \in Answered
    <3>1. turn \in 1 .. 4 /\ stage \in Stages
      BY RosterFacts DEF TInv, TrajectoryTypeOK
    <3>2. stage \in {"report", "settle", "done"}
      BY <2>1, <3>1 DEF Answered, Stages
    <3>3. PICK i \in 1 .. IF stage = "report" THEN turn - 1 ELSE turn : c = Roster[i]
      BY <2>1, <3>2 DEF Answered
    <3>4. 1 \in 1 .. IF stage = "report" THEN turn - 1 ELSE turn
      BY <3>1, <3>3
    <3> QED BY <3>2, <3>4, RosterFacts DEF Answered
  <2>2. ASSUME NEW c \in Answered, effective[c] = Whole(base)
        PROVE  answers[c] = answers[NoFeedback]
    <3>1. effective[NoFeedback] = Whole(base) /\ NoFeedback \in Answered
      BY <2>1 DEF TInv, EqualTerms
    <3> QED BY <2>2, <3>1 DEF TInv, AnswersCached
  <2>3. ASSUME NEW c \in Answered \cap (ExternalityControls \ opened)
        PROVE  answers[c] = answers[NoFeedback]
    BY <2>1, <2>2 DEF TInv, EqualTerms
  <2>4. ASSUME Uniform \in Answered, Primary \notin opened
        PROVE  answers[Uniform] = answers[NoFeedback]
    BY <2>1, <2>2, <2>4 DEF TInv, EqualTerms
  <2> QED BY <2>3, <2>4 DEF PairedControls
<1> QED BY <1>1, StudyInvariant, PTL

(* A COMPLETE verdict covers every answer in the cache, those to replays   *)
(* and to other controls too.                                              *)
THEOREM VerdictCoversAnswers == Spec => []CompleteMeansScreened
<1>1. TInv => CompleteMeansScreened
  BY DEF TInv, ScreensSeen, CompleteMeansScreened, Verdict, Evident
<1> QED BY <1>1, StudyInvariant, PTL

(* A result, COMPLETE or BLOCKED, on the deposited design or on one frozen *)
(* since, is of one source, however many commands replaced its files.      *)
THEOREM OneSource == Spec => []ResultIsOfOneSource
<1>1. FilesInv => ResultIsOfOneSource
  BY DEF FilesInv
<1> QED BY <1>1, StudyInvariant, PTL

(* Every document of the figure package is of an experiment that was       *)
(* COMPLETE, and every table packed with it is that experiment's and whole *)
(* unless that experiment was killed before it had written its tables.     *)
THEOREM PackageIsGrounded == Spec => []PackageMatchesItsRuns
<1>1. FilesInv => PackageMatchesItsRuns
  BY DEF FilesInv
<1> QED BY <1>1, StudyInvariant, PTL

\* The deposited design is the only one whose assertions are all False, and a
\* result is complete exactly when it is evident and its design is that one.
DepositedOnly ==
  /\ design.excluded => design = DepositedDesign
  /\ result.design.excluded => result.design = DepositedDesign
  /\ result.complete <=> result.evident /\ result.design.excluded

(***************************************************************************)
(* How far the finding reaches that an experiment is blocked by its own    *)
(* design: a result is COMPLETE when all that it recorded passes and it    *)
(* ran on the deposited design, and never on a design that _freeze_design  *)
(* has written; hence never on an envelope other than the deposited one.   *)
(***************************************************************************)
OnlyDepositedDesignCompletes ==
  /\ result.complete => result.design = DepositedDesign /\ result.source = 1
  /\ result.evident /\ result.design = DepositedDesign => result.complete

LEMMA WrittenDesign ==
  ASSUME FilesInv, DepositedOnly, WriteResult PROVE DepositedOnly'
<1>1. design' = design /\ design.excluded \in BOOLEAN /\ Evident \in BOOLEAN
  BY DEF WriteResult, inputs, FilesInv, TypeOK, Designs, TrajectoryTypeOK, Evidence, Evident
<1>2. result' = [run |-> commands, design |-> design, behaviour |-> behaviour,
                 source |-> source, execution |-> execution, evident |-> Evident,
                 complete |-> Evident /\ design.excluded]
  BY DEF WriteResult, Verdict
<1> DEFINE e == Evident
           k == Evident /\ design.excluded
<1>3. k <=> e /\ design.excluded
  OBVIOUS
<1>4. result' = [run |-> commands, design |-> design, behaviour |-> behaviour,
                 source |-> source, execution |-> execution, evident |-> e,
                 complete |-> k]
  BY <1>2
<1> HIDE DEF e, k
<1>5. result'.design = design /\ result'.evident = e /\ result'.complete = k
  BY <1>4
<1>6. design.excluded => design = DepositedDesign
  BY DEF DepositedOnly
<1> QED BY <1>1, <1>3, <1>5, <1>6, Zenon DEF DepositedOnly

(* No experiment on a design that the present code freezes is COMPLETE,    *)
(* and whatever blocks one on the deposited design was recorded in it.     *)
THEOREM NoFrozenDesignCompletes == Spec => []OnlyDepositedDesignCompletes
<1>1. Init => DepositedOnly
  BY DEF Init, DepositedOnly, DepositedDesign
<1>2. FilesInv /\ DepositedOnly /\ [Next]_vars => DepositedOnly'
  <2> SUFFICES ASSUME FilesInv, DepositedOnly, [Next]_vars PROVE DepositedOnly'
    OBVIOUS
  <2>1. CASE FreezeDesign
    <3>1. design'.excluded = FALSE /\ result' = result
      BY <2>1 DEF FreezeDesign
    <3> QED BY <3>1 DEF DepositedOnly
  <2>2. CASE WriteResult
    BY <2>2, WrittenDesign
  <2>3. CASE ~FreezeDesign /\ ~WriteResult
    <3>1. design' = design /\ result' = result
      BY <2>3 DEF Next, vars, inputs, ReplaceSource, ExecuteMethods, FreezeDynamic,
         RunResponse, ChooseRequests, StartExperiment, Task, CannotAggregate, WriteTables,
         Interrupt, Summarise, AuditClosure, AuditDelivery, Export
    <3> QED BY <3>1 DEF DepositedOnly
  <2> QED BY <2>1, <2>2, <2>3
<1>3. FilesInv /\ DepositedOnly => OnlyDepositedDesignCompletes
  BY DEF FilesInv, ResultIsOfOneSource, DepositedOnly, OnlyDepositedDesignCompletes,
     DepositedDesign
<1> QED BY <1>1, <1>2, <1>3, StudyInvariant, PTL DEF Spec

-----------------------------------------------------------------------------
(***************************************************************************)
(* Each feedback control implements AccessPromise.  Report is Meter for    *)
(* the control that goes on to settle, settling is Close, a killed         *)
(* experiment closes an open interval at full access, any other fresh      *)
(* start is Restore, and everything else is a stutter.                     *)
(***************************************************************************)
Vectors == [Participants -> 0 .. MaxUnits]

Metering(c) ==
  /\ ~Open(c) /\ Open(c)'
  /\ Delivered(c)' \in Vectors
  /\ Unused(c)' \in SUBSET Participants
  /\ Scarce(c)' \in BOOLEAN
  /\ \A p \in Participants : Delivered(c)'[p] <= ceilings[c][p]
  /\ \A p \in Unused(c)' : Delivered(c)'[p] < ceilings[c][p]
  /\ ceilings'[c] = ceilings[c]

Closing(c) ==
  /\ Open(c) /\ ~Open(c)'
  /\ ceilings'[c] \in Vectors
  /\ \A p \in Participants :
       /\ Delivered(c)[p] <= ceilings'[c][p]
       /\ ceilings'[c][p] <= Capacity[p]
       /\ ceilings'[c][p] < ceilings[c][p] => Scarce(c) /\ p \in Unused(c)

Restoring(c) == ~Open(c) /\ ~Open(c)' /\ ceilings'[c] = Capacity

Unmoved(c) == ~Open(c) /\ ~Open(c)' /\ ceilings'[c] = ceilings[c]

SettleBounds ==
  /\ Delivery(Control) \in PowerVector
  /\ AtMost(Delivery(Control), ceilings[Control])
  /\ answers[Control].award \in PowerVector
  /\ AtMost(answers[Control].award, effective[Control].num)
  /\ effective[Control].num \in PowerVector
  /\ AtMost(effective[Control].num, ceilings[Control])
  /\ ceilings[Control] \in PowerVector

LEMMA InBounds == TInv /\ stage = "settle" => SettleBounds
BY SettledFacts DEF SettleBounds

LEMMA InBoundsNext == (TInv /\ stage = "settle" => SettleBounds)'
BY InBounds, PTL

(* An award that leaves something unused is below the ceiling.             *)
LEMMA IdleBelowCeiling ==
  ASSUME NEW x \in PowerVector, NEW y \in PowerVector, NEW r \in PowerVector,
         NEW k \in PowerVector, AtMost(x, r), AtMost(r, k), NEW p \in IdleIndices(x, y)
  PROVE  p \in Participants /\ y[p] < k[p]
<1>1. p \in Participants /\ x[p] - y[p] > Tolerance
  BY DEF IdleIndices
<1>2. x[p] \in Nat /\ y[p] \in Nat /\ r[p] \in Nat /\ k[p] \in Nat /\ Tolerance \in Nat
  BY <1>1, VectorIsNatural, BoundsAssumption
<1>3. x[p] <= r[p] /\ r[p] <= k[p]
  BY <1>1 DEF AtMost
<1> QED BY <1>1, <1>2, <1>3

LEMMA ReportMeters ==
  ASSUME TInv, TInv', Report, NEW c \in ExternalityControls
  PROVE  Metering(c) \/ Unmoved(c)
<1>1. /\ stage = "report" /\ ~Open(c)
      /\ UNCHANGED <<ceilings, effective>>
  BY DEF Report, Open
<1>2. CASE ~Open(c)'
  BY <1>1, <1>2 DEF Unmoved
<1>3. CASE Open(c)'
  <2>1. stage' = "settle" /\ Control' = c
    BY <1>3 DEF Open
  <2>2. SettleBounds'
    BY <2>1, InBoundsNext
  <2>3. /\ Delivered(c)' = Delivery(c)'
        /\ Unused(c)' = IdleIndices(answers[c].award, Delivery(c))'
    BY <1>3 DEF Delivered, Unused
  <2>4. /\ Delivery(c)' \in PowerVector /\ AtMost(Delivery(c)', ceilings[c])
        /\ answers'[c].award \in PowerVector
        /\ AtMost(answers'[c].award, effective[c].num)
        /\ effective[c].num \in PowerVector
        /\ AtMost(effective[c].num, ceilings[c])
        /\ ceilings[c] \in PowerVector
    BY <1>1, <2>1, <2>2 DEF SettleBounds, Delivery, Control
  <2>5. \A p \in IdleIndices(answers'[c].award, Delivery(c)') :
          p \in Participants /\ Delivery(c)'[p] < ceilings[c][p]
    BY <2>4, IdleBelowCeiling
  <2>6. Unused(c)' = IdleIndices(answers'[c].award, Delivery(c)')
    BY <2>3 DEF IdleIndices
  <2>7. Scarce(c)' \in BOOLEAN
    BY <1>3 DEF Scarce
  <2> QED BY <1>1, <1>3, <2>3, <2>4, <2>5, <2>6, <2>7
          DEF Metering, AtMost, PowerVector, Powers, Vectors
<1> QED BY <1>2, <1>3

(* A gate that opens was opened by an award below its request.             *)
LEMMA OpenGateIsScarce ==
  ASSUME TInv, stage = "settle", NEW a \in Outcomes(ReplayRequest(Control)),
         ReplayOpensGate(Control, IdleIndices(answers[Control].award, Delivery(Control)), a)
  PROVE  Scarce(Control)
<1> DEFINE c == Control
           x == answers[c].award
           idle == IdleIndices(x, Delivery(c))
           xr == IF a = Failed THEN x ELSE a.award
           r == FulfillmentReplayRequest(effective[c].num, x, Delivery(c))
<1>1. /\ x \in PowerVector /\ effective[c].num \in PowerVector
      /\ AtMost(x, effective[c].num) /\ Delivery(c) \in PowerVector
  BY SettledFacts
<1>2. r \in PowerVector /\ AtMost(r, effective[c].num)
  BY <1>1, ReplayRequestFacts
<1>3. a.award \in PowerVector /\ AtMost(a.award, r)
  <2>1. ReplayRequest(c) = Whole(r)
    BY DEF ReplayRequest
  <2>2. Whole(r) \in Requests /\ Whole(r).num = r /\ Whole(r).den = 1
    BY <1>2, WholeFacts
  <2>3. a \in Outcomes(Whole(r))
    BY <2>1
  <2> HIDE DEF r, c
  <2> QED BY <2>2, <2>3, OutcomeFacts
<1>4. xr \in PowerVector
  BY <1>1, <1>3
<1>5. ~(FSum(OutsiderGain(x, xr, idle)) <= Tolerance)
  <2>1. (a.status = "passed") \in BOOLEAN
    OBVIOUS
  <2>2. GateTriggered(GateReason(x, Delivery(c), xr, MeteredDelivery(xr, available), idle,
                                 a.status = "passed"))
    BY DEF ReplayOpensGate
  <2> HIDE DEF x, xr, idle, c
  <2> QED BY <2>1, <2>2, OpenGate
<1>6. PICK q \in Participants : x[q] < xr[q]
  <2> HIDE DEF x, xr, idle, c
  <2> QED BY <1>1, <1>4, <1>5, GainNeedsOutsider
<1>7. x[q] < a.award[q]
  <2>1. x[q] \in Nat
    BY <1>1, VectorIsNatural
  <2> QED BY <1>6, <2>1
<1>8. x[q] < effective[c].num[q]
  <2>1. /\ x[q] \in Nat /\ a.award[q] \in Nat /\ r[q] \in Nat
        /\ effective[c].num[q] \in Nat
    BY <1>1, <1>2, <1>3, VectorIsNatural
  <2>2. a.award[q] <= r[q] /\ r[q] <= effective[c].num[q]
    BY <1>2, <1>3 DEF AtMost
  <2> HIDE DEF r, x
  <2> QED BY <1>7, <2>1, <2>2
<1> QED BY <1>8 DEF Scarce, Open

LEMMA SettleCloses ==
  ASSUME TInv, NEW c \in ExternalityControls, SettleFull \/ SettleReplay
  PROVE  Closing(c) \/ Unmoved(c)
<1>1. stage = "settle"
  BY DEF SettleFull, SettleReplay
<1>2. PICK gate \in BOOLEAN :
        \E idle \in SUBSET Participants :
          /\ Close(Control, idle, gate)
          /\ gate => /\ Scarce(Control)
                     /\ idle = IdleIndices(answers[Control].award, Delivery(Control))
  <2>1. CASE SettleFull
    BY <2>1 DEF SettleFull
  <2>2. CASE SettleReplay
    <3> DEFINE i == IdleIndices(answers[Control].award, Delivery(Control))
    <3>1. PICK a \in Outcomes(ReplayRequest(Control)) :
            Close(Control, i, ReplayOpensGate(Control, i, a))
      BY <2>2 DEF SettleReplay
    <3>2. i \in SUBSET Participants /\ ReplayOpensGate(Control, i, a) \in BOOLEAN
      BY DEF IdleIndices, ReplayOpensGate, GateTriggered
    <3>3. ReplayOpensGate(Control, i, a) => Scarce(Control)
      BY <1>1, <3>1, OpenGateIsScarce
    <3> HIDE DEF i
    <3>4. PICK g \in BOOLEAN : g = ReplayOpensGate(Control, i, a)
      BY <3>2
    <3>5. Close(Control, i, g) /\ (g => Scarce(Control))
      BY <3>1, <3>3, <3>4
    <3> QED BY <3>2, <3>5 DEF i
  <2> QED BY <2>1, <2>2
<1>3. PICK idle \in SUBSET Participants :
        /\ Close(Control, idle, gate)
        /\ gate => /\ Scarce(Control)
                   /\ idle = IdleIndices(answers[Control].award, Delivery(Control))
  BY <1>2
<1>4. PICK next \in Updated(Control, idle, gate) :
        ceilings' = [ceilings EXCEPT ![Control] = next]
  BY <1>3 DEF Close
<1>5. stage' # "settle"
  BY <1>3, AdvanceFacts DEF Close
<1>6. ceilings \in [ExternalityControls -> PowerVector]
  BY DEF TInv, TrajectoryTypeOK
<1>7. CASE c = Control
  <2>1. ceilings'[c] = next /\ Open(c) /\ ~Open(c)'
    BY <1>1, <1>4, <1>5, <1>6, <1>7 DEF Open
  <2>2. /\ next \in PowerVector /\ AtMost(next, Capacity)
        /\ AtMost(Delivery(c), next)
        /\ \A p \in Participants : next[p] < ceilings[c][p] => gate /\ p \in idle
    BY <1>1, <1>4, <1>7, UpdatedFacts
  <2>3. Delivered(c) = Delivery(c)
        /\ Unused(c) = IdleIndices(answers[c].award, Delivery(c))
    BY <2>1 DEF Delivered, Unused
  <2> QED BY <1>3, <1>7, <2>1, <2>2, <2>3
          DEF Closing, Vectors, PowerVector, Powers, AtMost
<1>8. CASE c # Control
  <2>1. ceilings'[c] = ceilings[c]
    BY <1>4, <1>6, <1>8
  <2> QED BY <1>5, <1>8, <2>1 DEF Unmoved, Open
<1> QED BY <1>7, <1>8

(* A fresh start gives full access, whatever it interrupts.                *)
LEMMA FreshRestores ==
  ASSUME TInv, NEW c \in ExternalityControls, NEW b, NEW s \in {"idle", "begin"},
         Fresh(b, s)
  PROVE  Closing(c) \/ Restoring(c)
<1>1. ceilings'[c] = Capacity /\ ~Open(c)'
  BY DEF Fresh, Open
<1>2. CASE ~Open(c)
  BY <1>1, <1>2 DEF Restoring
<1>3. CASE Open(c)
  <2>1. stage = "settle" /\ Control = c
    BY <1>3 DEF Open
  <2>2. /\ Delivered(c) = Delivery(c) /\ Delivery(c) \in PowerVector
        /\ AtMost(Delivery(c), ceilings[c]) /\ AtMost(ceilings[c], Capacity)
        /\ ceilings[c] \in PowerVector /\ Capacity \in PowerVector
    BY <1>3, <2>1, SettledFacts, BoundsAssumption DEF Delivered
  <2>3. ASSUME NEW p \in Participants
        PROVE  Delivery(c)[p] <= Capacity[p] /\ ~(Capacity[p] < ceilings[c][p])
    <3>1. /\ Delivery(c)[p] \in Nat /\ ceilings[c][p] \in Nat /\ Capacity[p] \in Nat
          /\ Delivery(c)[p] <= ceilings[c][p] /\ ceilings[c][p] <= Capacity[p]
      BY <2>2, VectorIsNatural DEF AtMost
    <3> QED BY <3>1
  <2>4. ASSUME NEW p \in Participants PROVE Capacity[p] <= Capacity[p]
    BY <2>2, VectorIsNatural
  <2> QED BY <1>1, <1>3, <2>2, <2>3, <2>4
          DEF Closing, Vectors, PowerVector, Powers
<1> QED BY <1>2, <1>3

LEMMA StepKeepsPromise ==
  ASSUME TInv, TInv', [Next]_vars, NEW c \in ExternalityControls
  PROVE  Metering(c) \/ Closing(c) \/ Restoring(c) \/ Unmoved(c) \/ UNCHANGED trajectory
<1>1. CASE Task
  <2>1. CASE BeginInterval
    BY <2>1 DEF BeginInterval, Unmoved, Open
  <2>2. CASE Report
    BY <2>2, ReportMeters
  <2>3. CASE SettleFull \/ SettleReplay
    BY <2>3, SettleCloses
  <2> QED BY <1>1, <2>1, <2>2, <2>3 DEF Task, TaskStep
<1>2. CASE StartExperiment
  BY <1>2, FreshRestores DEF StartExperiment
<1>3. CASE CannotAggregate \/ WriteResult \/ Interrupt
  BY <1>3, FreshRestores DEF CannotAggregate, WriteResult, Interrupt
<1>5. CASE ReplaceSource \/ ExecuteMethods \/ FreezeDynamic \/ RunResponse
           \/ ChooseRequests \/ FreezeDesign \/ WriteTables \/ Summarise \/ AuditClosure
           \/ AuditDelivery \/ Export \/ UNCHANGED vars
  BY <1>5 DEF ReplaceSource, ExecuteMethods, FreezeDynamic, RunResponse, ChooseRequests,
     FreezeDesign, WriteTables, Summarise, AuditClosure, AuditDelivery, Export, vars
<1> QED BY <1>1, <1>2, <1>3, <1>5 DEF Next

LEMMA ClosedFacts ==
  ASSUME NEW c, ~Open(c)
  PROVE  Delivered(c) = Nothing /\ Unused(c) = {} /\ Scarce(c) = FALSE /\ Open(c) = FALSE
BY DEF Delivered, Unused, Scarce, Open

LEMMA ClosedNext ==
  ASSUME NEW c, ~Open(c)'
  PROVE  Delivered(c)' = Nothing /\ Unused(c)' = {} /\ Scarce(c)' = FALSE
         /\ Open(c)' = FALSE
BY DEF Delivered, Unused, Scarce, Open

LEMMA UnchangedFacts ==
  ASSUME NEW c, UNCHANGED trajectory
  PROVE  /\ Delivered(c)' = Delivered(c) /\ Unused(c)' = Unused(c)
         /\ Scarce(c)' = Scarce(c) /\ Open(c)' = Open(c) /\ ceilings'[c] = ceilings[c]
BY DEF trajectory, Delivered, Unused, Scarce, Open, Delivery, Control, IdleIndices

(* The first gain keeps the promise.                                       *)
LEMMA PrimaryStep ==
  ASSUME TInv, TInv', [Next]_vars
  PROVE  [PrimaryPromise!Next]_(PrimaryPromise!vars)
<1>1. Primary \in ExternalityControls
  BY DEF ExternalityControls
<1>2. CASE Metering(Primary)
  BY <1>2 DEF Metering, Vectors, PrimaryPromise!Next, PrimaryPromise!Meter,
     PrimaryPromise!Vectors
<1>3. CASE Closing(Primary)
  <2>1. /\ Delivered(Primary)' = Nothing /\ Unused(Primary)' = {}
        /\ Scarce(Primary)' = FALSE /\ Open(Primary)' = FALSE
    BY <1>3, ClosedNext DEF Closing
  <2> QED BY <1>3, <2>1 DEF Closing, Vectors, PrimaryPromise!Next, PrimaryPromise!Close,
          PrimaryPromise!Vectors, PrimaryPromise!Lowered, PrimaryPromise!Nothing, Nothing
<1>4. CASE Restoring(Primary)
  <2>1. /\ Delivered(Primary)' = Delivered(Primary) /\ Unused(Primary)' = Unused(Primary)
        /\ Scarce(Primary)' = Scarce(Primary) /\ Open(Primary)' = Open(Primary)
    BY <1>4, ClosedFacts, ClosedNext DEF Restoring
  <2> QED BY <1>4, <2>1 DEF Restoring, PrimaryPromise!Next, PrimaryPromise!Restore
<1>5. CASE Unmoved(Primary)
  <2>1. /\ Delivered(Primary)' = Delivered(Primary) /\ Unused(Primary)' = Unused(Primary)
        /\ Scarce(Primary)' = Scarce(Primary) /\ Open(Primary)' = Open(Primary)
    BY <1>5, ClosedFacts, ClosedNext DEF Unmoved
  <2> QED BY <1>5, <2>1 DEF Unmoved, PrimaryPromise!vars
<1>6. CASE UNCHANGED trajectory
  BY <1>6, UnchangedFacts DEF PrimaryPromise!vars
<1> QED BY <1>1, <1>2, <1>3, <1>4, <1>5, <1>6, StepKeepsPromise

(* So does the second.                                                     *)
LEMMA FullStep ==
  ASSUME TInv, TInv', [Next]_vars
  PROVE  [FullPromise!Next]_(FullPromise!vars)
<1>1. FullGain \in ExternalityControls
  BY DEF ExternalityControls
<1>2. CASE Metering(FullGain)
  BY <1>2 DEF Metering, Vectors, FullPromise!Next, FullPromise!Meter,
     FullPromise!Vectors
<1>3. CASE Closing(FullGain)
  <2>1. /\ Delivered(FullGain)' = Nothing /\ Unused(FullGain)' = {}
        /\ Scarce(FullGain)' = FALSE /\ Open(FullGain)' = FALSE
    BY <1>3, ClosedNext DEF Closing
  <2> QED BY <1>3, <2>1 DEF Closing, Vectors, FullPromise!Next, FullPromise!Close,
          FullPromise!Vectors, FullPromise!Lowered, FullPromise!Nothing, Nothing
<1>4. CASE Restoring(FullGain)
  <2>1. /\ Delivered(FullGain)' = Delivered(FullGain)
        /\ Unused(FullGain)' = Unused(FullGain)
        /\ Scarce(FullGain)' = Scarce(FullGain) /\ Open(FullGain)' = Open(FullGain)
    BY <1>4, ClosedFacts, ClosedNext DEF Restoring
  <2> QED BY <1>4, <2>1 DEF Restoring, FullPromise!Next, FullPromise!Restore
<1>5. CASE Unmoved(FullGain)
  <2>1. /\ Delivered(FullGain)' = Delivered(FullGain)
        /\ Unused(FullGain)' = Unused(FullGain)
        /\ Scarce(FullGain)' = Scarce(FullGain) /\ Open(FullGain)' = Open(FullGain)
    BY <1>5, ClosedFacts, ClosedNext DEF Unmoved
  <2> QED BY <1>5, <2>1 DEF Unmoved, FullPromise!vars
<1>6. CASE UNCHANGED trajectory
  BY <1>6, UnchangedFacts DEF FullPromise!vars
<1> QED BY <1>1, <1>2, <1>3, <1>4, <1>5, <1>6, StepKeepsPromise

LEMMA PromiseInitially == ASSUME Init PROVE PrimaryPromise!Init /\ FullPromise!Init
<1>1. /\ ceilings = [c \in ExternalityControls |-> Capacity]
      /\ \A c \in Controls : ~Open(c)
      /\ Primary \in ExternalityControls /\ FullGain \in ExternalityControls
      /\ Primary \in Controls /\ FullGain \in Controls
  BY DEF Init, Idle, Open, ExternalityControls, Controls
<1> QED BY <1>1, ClosedFacts DEF PrimaryPromise!Init, PrimaryPromise!Nothing,
        FullPromise!Init, FullPromise!Nothing, Nothing

(* Both gains keep the promise of AccessPromise in every study.            *)
THEOREM ControlsKeepPromise == Spec => KeepsPromise
<1>1. Spec => []TInv
  BY StudyInvariant, PTL
<1>2. Init => PrimaryPromise!Init /\ FullPromise!Init
  BY PromiseInitially
<1>3. TInv /\ TInv' /\ [Next]_vars => [PrimaryPromise!Next]_(PrimaryPromise!vars)
  BY PrimaryStep
<1>4. TInv /\ TInv' /\ [Next]_vars => [FullPromise!Next]_(FullPromise!vars)
  BY FullStep
<1> QED BY <1>1, <1>2, <1>3, <1>4, PTL
        DEF Spec, KeepsPromise, PrimaryPromise!Spec, FullPromise!Spec
=============================================================================
