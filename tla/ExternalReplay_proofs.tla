------------------------ MODULE ExternalReplay_proofs ------------------------
(***************************************************************************)
(* Proofs about the external replay (archive 151).  First the ECF loop of  *)
(* _run_day, for every set of participants, capacity, tolerance, smoothing *)
(* weight, day length and telemetry setting; then the run around the days  *)
(* that main() makes, and its outputs.                                     *)
(***************************************************************************)
EXTENDS FeedbackDay, ExternalReplayRun, AccessFeedback_proofs

-----------------------------------------------------------------------------
(***************************************************************************)
(* The inductive invariant: the types, the nesting of the powers, and what *)
(* the stages of the loop add to them.                                     *)
(***************************************************************************)
Between == stage \in {"authorise", "dayDone"}

LoopInv ==
  /\ stage # "dayDone" => interval < IntervalsPerDay
  /\ interval = 0 => previous = NoPrevious
  /\ replayValid => base
  /\ Between => /\ admitted = Nothing
                /\ award = Nothing
                /\ delivery = Nothing
                /\ ~replayValid

IInv == TypeOK /\ AccessNested /\ LoopInv

LEMMA InitIInv == Init => IInv
<1> SUFFICES ASSUME Init PROVE IInv
  OBVIOUS
<1>1. Capacity \in PowerVector /\ AtMost(Capacity, Capacity)
  BY BoundsAssumption, VectorIsNatural DEF AtMost
<1>2. TypeOK
  <2>1. interval \in 0 .. IntervalsPerDay
    BY DayAssumption DEF Init
  <2>2. previous \in PowerVector \cup {NoPrevious}
    BY DEF Init
  <2> QED BY <1>1, <2>1, <2>2, NothingFacts DEF Init, TypeOK, Stages
<1>3. AccessNested
  BY <1>1, NothingFacts, BoundsAssumption DEF Init, AccessNested, Idle
<1>4. LoopInv
  BY DayAssumption DEF Init, LoopInv, Between
<1> QED BY <1>2, <1>3, <1>4 DEF IInv

LEMMA AuthoriseStep ==
  ASSUME IInv, Authorise PROVE IInv'
<1>1. PICK raw \in PowerVector : admitted' = ApplyAccessCeiling(raw, ceiling)
  BY DEF Authorise, RawRequests
<1>2. /\ ceiling \in PowerVector /\ AtMost(ceiling, Capacity)
      /\ admitted = Nothing /\ award = Nothing /\ delivery = Nothing
      /\ replayAward \in PowerVector /\ AtMost(replayAward, admitted)
  BY DEF Authorise, IInv, TypeOK, AccessNested, LoopInv, Between
<1>3. admitted' \in PowerVector /\ AtMost(admitted', ceiling)
  BY <1>1, <1>2, AdmittedFacts
<1>4. award' \in PowerVector /\ AtMost(award', admitted')
  BY <1>3, AllocationFacts DEF Authorise
<1>5. available' \in PowerVector
  BY DEF Authorise
<1>6. /\ delivery' \in PowerVector
      /\ AtMost(delivery', award') /\ AtMost(delivery', available')
  BY <1>4, <1>5, VectorIsNatural, DeliveryFacts DEF Authorise
<1>7. replayAward' = Nothing
  <2>1. replayAward' = replayAward
    BY DEF Authorise, replay
  <2>2. ASSUME NEW p \in Participants PROVE replayAward[p] = 0
    <3>1. replayAward[p] \in Nat
      BY <1>2, VectorIsNatural
    <3>2. replayAward[p] <= 0
      BY <1>2 DEF AtMost, Nothing
    <3> QED BY <3>1, <3>2
  <2>3. replayAward = [p \in Participants |-> replayAward[p]]
    BY <1>2 DEF PowerVector
  <2> QED BY <2>1, <2>2, <2>3 DEF Nothing
<1>8. TypeOK'
  BY <1>2, <1>3, <1>4, <1>5, <1>6
  DEF Authorise, IInv, TypeOK, Stages, replay
<1>9. AccessNested'
  <2>1. Idle' \subseteq Participants
    BY DEF Idle, IdleIndices
  <2>2. \A p \in Participants : Nothing[p] <= delivery'[p]
    BY <1>6, VectorIsNatural, BoundsAssumption DEF Nothing
  <2>3. ceiling' = ceiling
    BY DEF Authorise
  <2> QED BY <1>2, <1>3, <1>4, <1>6, <1>7, <2>1, <2>2, <2>3, NothingFacts
      DEF AccessNested
<1>10. LoopInv'
  <2>1. ~replayValid'
    BY DEF Authorise, replay, IInv, LoopInv, Between
  <2> QED BY <2>1 DEF Authorise, IInv, LoopInv, Between
<1> QED BY <1>8, <1>9, <1>10 DEF IInv

LEMMA ReplayStep ==
  ASSUME IInv, Replay PROVE IInv'
<1>1. /\ admitted \in PowerVector /\ award \in PowerVector
      /\ delivery \in PowerVector /\ base \in BOOLEAN
  BY DEF IInv, TypeOK
<1> DEFINE request == FulfillmentReplayRequest(admitted, award, delivery)
<1>2. /\ request \in PowerVector /\ AtMost(request, admitted)
      /\ \A p \in Idle : request[p] <= delivery[p]
  BY <1>1, ReplayRequestFacts DEF Idle
<1>3. replayAward' \in PowerVector /\ AtMost(replayAward', request)
  BY <1>1, <1>2, AllocationFacts DEF Replay
<1> HIDE DEF request
<1>4. AtMost(replayAward', admitted)
  BY <1>1, <1>2, <1>3, Transitive
<1>5. \A p \in Idle : replayAward'[p] <= delivery[p]
  BY <1>1, <1>2, <1>3, VectorIsNatural DEF AtMost, Idle, IdleIndices
<1>6. UNCHANGED <<setting, interval, ceiling, previous, base, admitted, award,
                  available, delivery, reason>>
  BY DEF Replay, outcome
<1>7. TypeOK'
  BY <1>3, <1>6 DEF Replay, IInv, TypeOK, Stages
<1>8. AccessNested'
  <2>1. Idle' = Idle
    BY <1>6 DEF Idle
  <2> QED BY <1>4, <1>5, <1>6, <2>1 DEF IInv, AccessNested
<1>9. LoopInv'
  BY <1>6 DEF Replay, IInv, LoopInv, Between
<1> QED BY <1>7, <1>8, <1>9 DEF IInv

(* What closing an interval does to the ceilings. *)
LEMMA SettleCeilings ==
  ASSUME IInv, Settle
  PROVE  /\ ceiling' \in PowerVector
         /\ AtMost(ceiling', Capacity)
         /\ AtMost(delivery, ceiling')
         /\ \A p \in Participants : ceiling'[p] < ceiling[p] =>
              GateTriggered(reason') /\ p \in Idle
<1>1. /\ ceiling \in PowerVector /\ delivery \in PowerVector
      /\ award \in PowerVector /\ admitted \in PowerVector
      /\ AtMost(ceiling, Capacity)
      /\ AtMost(delivery, award) /\ AtMost(award, admitted)
      /\ AtMost(admitted, ceiling)
  BY DEF IInv, TypeOK, AccessNested
<1>2. AtMost(delivery, ceiling)
  BY <1>1, Transitive
<1>3. Idle \in SUBSET Participants /\ GateTriggered(reason') \in BOOLEAN
  BY DEF Idle, IdleIndices, GateTriggered
<1>4. ceiling' \in
        UpdatedCeilings(ceiling, delivery, Idle, GateTriggered(reason'))
  BY DEF Settle
<1> QED BY <1>1, <1>2, <1>3, <1>4, UpdatedCeilingFacts

LEMMA SettleStep ==
  ASSUME IInv, Settle PROVE IInv'
<1>1. ceiling' \in PowerVector /\ AtMost(ceiling', Capacity)
  BY SettleCeilings
<1>2. reason' \in GateReasons
  BY DEF Settle, GateReason, GateReasons
<1>3. interval \in 0 .. IntervalsPerDay /\ interval < IntervalsPerDay
      /\ IntervalsPerDay \in Nat \ {0}
  BY DayAssumption DEF Settle, IInv, TypeOK, LoopInv
<1>4. interval' \in 0 .. IntervalsPerDay /\ interval' # 0
      /\ (interval' # IntervalsPerDay => interval' < IntervalsPerDay)
  BY <1>3 DEF Settle
<1>5. previous' \in PowerVector \cup {NoPrevious}
  BY DEF Settle, IInv, TypeOK
<1>6. TypeOK'
  BY <1>1, <1>2, <1>4, <1>5, NothingFacts DEF Settle, IInv, TypeOK, Stages
<1>7. AccessNested'
  BY <1>1, NothingFacts DEF Settle, AccessNested, Idle
<1>8. LoopInv'
  BY <1>4 DEF Settle, LoopInv, Between
<1> QED BY <1>6, <1>7, <1>8 DEF IInv

LEMMA NextDayStep ==
  ASSUME IInv, NextDay PROVE IInv'
<1>1. UNCHANGED <<setting, base, admitted, award, available, delivery,
                  replayAward, replayValid>>
  BY DEF NextDay, outcome, replay
<1>2. ceiling' \in PowerVector /\ AtMost(ceiling', Capacity)
  <2>1. AtMost(Capacity, Capacity)
    BY BoundsAssumption, VectorIsNatural DEF AtMost
  <2> QED BY <2>1, BoundsAssumption DEF NextDay, IInv, TypeOK, AccessNested
<1>3. interval' \in 0 .. IntervalsPerDay /\ interval' < IntervalsPerDay
  BY DayAssumption DEF NextDay
<1>4. TypeOK'
  BY <1>1, <1>2, <1>3 DEF NextDay, IInv, TypeOK, Stages
<1>5. AccessNested'
  <2>1. Idle' = Idle
    BY <1>1 DEF Idle
  <2>2. admitted' = Nothing
    BY <1>1 DEF NextDay, IInv, LoopInv, Between
  <2> QED BY <1>1, <1>2, <2>1, <2>2, NothingFacts DEF IInv, AccessNested
<1>6. LoopInv'
  BY <1>1, <1>3 DEF NextDay, IInv, LoopInv, Between
<1> QED BY <1>4, <1>5, <1>6 DEF IInv

LEMMA StutterStep ==
  ASSUME IInv, UNCHANGED vars PROVE IInv'
BY DEF vars, outcome, replay, IInv, TypeOK, AccessNested, Idle, LoopInv, Between

LEMMA Inductive == IInv /\ [Next]_vars => IInv'
BY AuthoriseStep, ReplayStep, SettleStep, NextDayStep, StutterStep DEF Next

(* The loop never leaves its inductive invariant. *)
THEOREM Invariant == Spec => []IInv
BY InitIInv, Inductive, PTL DEF Spec

(* Every variable keeps its type. *)
THEOREM TypeCorrect == Spec => []TypeOK
BY Invariant, PTL DEF IInv

(* Every power of an interval stays below the one it was cut from. *)
THEOREM AccessIsNested == Spec => []AccessNested
BY Invariant, PTL DEF IInv

-----------------------------------------------------------------------------
(***************************************************************************)
(* Action properties of the feedback rule.                                 *)
(***************************************************************************)

(* The replayed delivery that Settle assesses. *)
LEMMA ReplayDeliveryFacts ==
  ASSUME IInv, NEW dropped \in DropoutMasks(setting)
  PROVE  /\ ReplayDelivery(dropped) \in PowerVector
         /\ Conservative(setting) =>
              AtMost(ReplayDelivery(dropped), TrueReplayDelivery)
         /\ setting.mode = "LAG_ONE_INTERVAL" /\ previous = NoPrevious =>
              AtMost(ReplayDelivery(dropped), delivery)
<1> DEFINE signal ==
             AvailabilitySignal(setting, available, delivery, previous, dropped)
<1>1. /\ setting \in Settings /\ available \in PowerVector
      /\ delivery \in PowerVector /\ replayAward \in PowerVector
      /\ previous \in PowerVector \cup {NoPrevious}
      /\ AtMost(delivery, available)
  BY DayAssumption DEF IInv, TypeOK, AccessNested
<1>2. dropped \in SUBSET Participants
  BY DEF DropoutMasks
<1>3. /\ \A p \in Participants : signal[p] \in Nat
      /\ Conservative(setting) => AtMost(signal, available)
      /\ setting.mode = "LAG_ONE_INTERVAL" /\ previous = NoPrevious =>
           signal = delivery
  BY <1>1, <1>2, SignalFacts
<1>4. ReplayDelivery(dropped) = MeteredDelivery(replayAward, signal)
  BY DEF ReplayDelivery
<1> HIDE DEF signal
<1>5. /\ ReplayDelivery(dropped) \in PowerVector
      /\ AtMost(ReplayDelivery(dropped), signal)
  BY <1>1, <1>3, <1>4, DeliveryFacts
<1>6. ASSUME Conservative(setting), NEW p \in Participants
      PROVE  ReplayDelivery(dropped)[p] <= TrueReplayDelivery[p]
  <2>1. /\ replayAward[p] \in Nat /\ signal[p] \in Nat
        /\ available[p] \in Nat /\ signal[p] <= available[p]
    BY <1>1, <1>3, <1>6, VectorIsNatural DEF AtMost
  <2> QED BY <1>4, <2>1
      DEF TrueReplayDelivery, MeteredDelivery, Lesser, NonNegative
<1> QED BY <1>3, <1>5, <1>6 DEF AtMost

LEMMA SettleRestricts ==
  ASSUME IInv, Settle, NEW p \in Participants, ceiling'[p] < ceiling[p]
  PROVE  /\ stage = "settle" /\ base /\ replayValid
         /\ p \in Idle
         /\ \E q \in Participants : Displaced(q)
<1>1. GateTriggered(reason') /\ p \in Idle
  BY SettleCeilings
<1>2. PICK dropped \in DropoutMasks(setting) :
        reason' = GateReason(award, delivery, replayAward,
                             ReplayDelivery(dropped), Idle, replayValid)
  BY DEF Settle
<1>3. /\ award \in PowerVector /\ admitted \in PowerVector
      /\ replayAward \in PowerVector /\ replayValid \in BOOLEAN
      /\ AtMost(replayAward, admitted)
  BY DEF IInv, TypeOK, AccessNested
<1>4. /\ replayValid
      /\ ~(FSum(OutsiderGain(award, replayAward, Idle)) <= Tolerance)
  BY <1>1, <1>2, <1>3, OpenGate
<1>5. PICK q \in Participants : q \notin Idle /\ award[q] < replayAward[q]
  BY <1>3, <1>4, GainNeedsOutsider
<1>6. award[q] < admitted[q]
  BY <1>3, <1>5, VectorIsNatural DEF AtMost
<1>7. Displaced(q)
  BY <1>5, <1>6 DEF Displaced
<1>8. stage = "settle" /\ base
  BY <1>4 DEF Settle, IInv, LoopInv
<1> QED BY <1>1, <1>4, <1>7, <1>8

(* Only closing an interval can lower a ceiling. *)
LEMMA OnlySettleLowers ==
  ASSUME IInv, [Next]_vars, ~Settle, NEW p \in Participants
  PROVE  ~(ceiling'[p] < ceiling[p])
<1>1. ceiling[p] \in Nat /\ Capacity[p] \in Nat /\ ceiling[p] <= Capacity[p]
  BY VectorIsNatural, BoundsAssumption DEF IInv, TypeOK, AccessNested, AtMost
<1>2. ceiling' = ceiling \/ ceiling' = Capacity
  BY DEF Next, vars, Authorise, Replay, NextDay
<1> QED BY <1>1, <1>2

(* A ceiling falls only for an idle participant whose award displaced the  *)
(* usable access of somebody else.                                         *)
THEOREM RestrictionIsEarned == Spec => RestrictionNeedsDisplacement
<1>1. IInv /\ [Next]_vars =>
        [\A p \in Participants : ceiling'[p] < ceiling[p] =>
           /\ stage = "settle" /\ base /\ replayValid
           /\ p \in Idle
           /\ \E q \in Participants : Displaced(q)]_vars
  BY SettleRestricts, OnlySettleLowers
<1> QED BY <1>1, Invariant, PTL DEF Spec, RestrictionNeedsDisplacement

(* A ceiling is never moved below what was just delivered. *)
THEOREM DeliveryStaysCovered == Spec => CeilingCoversDelivery
<1>1. IInv /\ [Next]_vars =>
        [stage = "settle" => AtMost(delivery, ceiling')]_vars
  <2> SUFFICES ASSUME IInv, Next, stage = "settle"
               PROVE  AtMost(delivery, ceiling')
    OBVIOUS
  <2>1. Settle
    BY DEF Next, Authorise, Replay, NextDay
  <2> QED BY <2>1, SettleCeilings
<1> QED BY <1>1, Invariant, PTL DEF Spec, CeilingCoversDelivery

(* With a conservative telemetry signal an open gate is a real recovery.   *)
THEOREM GateIsSound == Spec => GateMeansRecovery
<1>1. IInv /\ [Next]_vars =>
        [stage = "settle" /\ Conservative(setting) /\ GateTriggered(reason')
           => FSum(TrueReplayDelivery) - FSum(delivery) > Tolerance]_vars
  <2> SUFFICES ASSUME IInv, Next, stage = "settle", Conservative(setting),
                      GateTriggered(reason')
               PROVE  FSum(TrueReplayDelivery) - FSum(delivery) > Tolerance
    OBVIOUS
  <2>1. Settle
    BY DEF Next, Authorise, Replay, NextDay
  <2>2. PICK dropped \in DropoutMasks(setting) :
          reason' = GateReason(award, delivery, replayAward,
                               ReplayDelivery(dropped), Idle, replayValid)
    BY <2>1 DEF Settle
  <2>3. /\ ReplayDelivery(dropped) \in PowerVector
        /\ AtMost(ReplayDelivery(dropped), TrueReplayDelivery)
    BY <2>2, ReplayDeliveryFacts
  <2>4. TrueReplayDelivery \in PowerVector /\ delivery \in PowerVector
    BY DeliveryFacts, VectorIsNatural DEF TrueReplayDelivery, IInv, TypeOK
  <2>5. ~(FSum(ReplayDelivery(dropped)) - FSum(delivery) <= Tolerance)
    BY <2>2, OpenGate DEF IInv, TypeOK
  <2>6. /\ FSum(ReplayDelivery(dropped)) <= FSum(TrueReplayDelivery)
        /\ FSum(ReplayDelivery(dropped)) \in Int
        /\ FSum(TrueReplayDelivery) \in Int /\ FSum(delivery) \in Int
    BY <2>3, <2>4, FSumAssumption DEF AtMost
  <2> QED BY <2>5, <2>6, BoundsAssumption
<1> QED BY <1>1, Invariant, PTL DEF Spec, GateMeansRecovery

(* A lagged signal cannot open the gate in the first interval of a day.    *)
THEOREM LagStaysWithinDay == Spec => LagDoesNotCrossDays
<1>1. IInv /\ [Next]_vars =>
        [stage = "settle" /\ interval = 0
           /\ setting.mode = "LAG_ONE_INTERVAL" => ~GateTriggered(reason')]_vars
  <2> SUFFICES ASSUME IInv, Next, stage = "settle", interval = 0,
                      setting.mode = "LAG_ONE_INTERVAL",
                      GateTriggered(reason')
               PROVE  FALSE
    OBVIOUS
  <2>1. Settle
    BY DEF Next, Authorise, Replay, NextDay
  <2>2. PICK dropped \in DropoutMasks(setting) :
          reason' = GateReason(award, delivery, replayAward,
                               ReplayDelivery(dropped), Idle, replayValid)
    BY <2>1 DEF Settle
  <2>3. /\ ReplayDelivery(dropped) \in PowerVector
        /\ AtMost(ReplayDelivery(dropped), delivery)
    BY <2>2, ReplayDeliveryFacts DEF IInv, LoopInv
  <2>4. delivery \in PowerVector /\ replayValid \in BOOLEAN
    BY DEF IInv, TypeOK
  <2>5. ~(FSum(OutsiderGain(delivery, ReplayDelivery(dropped), Idle))
            <= Tolerance)
    BY <2>2, <2>4, OpenGate
  <2>6. PICK q \in Participants : delivery[q] < ReplayDelivery(dropped)[q]
    BY <2>3, <2>4, <2>5, GainNeedsOutsider
  <2> QED BY <2>3, <2>4, <2>6, VectorIsNatural DEF AtMost
<1> QED BY <1>1, Invariant, PTL DEF Spec, LagDoesNotCrossDays

-----------------------------------------------------------------------------
(***************************************************************************)
(* The loop implements AccessPromise: Authorise is Meter, Settle is Close, *)
(* NextDay is Restore or a stutter, Replay is a stutter.                   *)
(***************************************************************************)

LEMMA PromiseInit == Init => Promise!Init
BY NothingFacts DEF Init, Promise!Init, Promise!Nothing, Nothing, Idle

LEMMA AuthoriseMeters ==
  ASSUME IInv, IInv', Authorise PROVE Promise!Meter
<1>1. /\ delivery' \in PowerVector /\ award' \in PowerVector
      /\ admitted' \in PowerVector /\ ceiling' \in PowerVector
      /\ AtMost(delivery', award') /\ AtMost(award', admitted')
      /\ AtMost(admitted', ceiling') /\ ceiling' = ceiling
  BY DEF IInv, TypeOK, AccessNested, Authorise
<1>2. ASSUME NEW p \in Participants
      PROVE  /\ delivery'[p] <= ceiling[p]
             /\ p \in Idle' => delivery'[p] < ceiling[p]
  <2>1. /\ delivery'[p] \in Nat /\ award'[p] \in Nat /\ admitted'[p] \in Nat
        /\ ceiling[p] \in Nat /\ delivery'[p] <= award'[p]
        /\ award'[p] <= admitted'[p] /\ admitted'[p] <= ceiling[p]
    BY <1>1, VectorIsNatural DEF AtMost
  <2>2. p \in Idle' => award'[p] - delivery'[p] > Tolerance
    BY DEF Idle, IdleIndices
  <2> QED BY <2>1, <2>2, BoundsAssumption
<1>3. Idle' \in SUBSET Participants
  BY DEF Idle, IdleIndices
<1>4. stage = "authorise" /\ stage' = "replay"
  BY DEF Authorise
<1>5. (award # admitted)' \in BOOLEAN
  OBVIOUS
<1>6. delivery' \in Promise!Vectors
  BY <1>1 DEF Promise!Vectors, PowerVector, Powers
<1> QED BY <1>1, <1>2, <1>3, <1>4, <1>5, <1>6 DEF Promise!Meter

LEMMA SettleCloses ==
  ASSUME IInv, Settle PROVE Promise!Close
<1>1. /\ ceiling' \in PowerVector /\ AtMost(ceiling', Capacity)
      /\ AtMost(delivery, ceiling')
  BY SettleCeilings
<1>2. ASSUME NEW p \in Participants, ceiling'[p] < ceiling[p]
      PROVE  award # admitted /\ p \in Idle
  <2>1. PICK q \in Participants : Displaced(q)
    BY <1>2, SettleRestricts
  <2>2. award[q] \in Nat /\ admitted[q] \in Nat
    BY VectorIsNatural DEF IInv, TypeOK
  <2> QED BY <1>2, <2>1, <2>2, SettleCeilings DEF Displaced
<1>3. /\ stage = "settle" /\ stage' \in {"dayDone", "authorise"}
      /\ delivery' = Nothing /\ award' = Nothing /\ admitted' = Nothing
  BY DEF Settle
<1>4. Idle' = {}
  BY <1>3, NothingFacts DEF Idle
<1>5. ceiling' \in Promise!Vectors
  BY <1>1 DEF Promise!Vectors, PowerVector, Powers
<1> QED BY <1>1, <1>2, <1>3, <1>4, <1>5
    DEF Promise!Close, Promise!Lowered, Promise!Nothing, Nothing, AtMost

LEMMA ReplayStutters ==
  ASSUME IInv, Replay PROVE UNCHANGED Promise!vars
BY DEF Replay, outcome, Idle, Promise!vars

LEMMA NextDayRestores ==
  ASSUME IInv, NextDay PROVE Promise!Restore \/ UNCHANGED Promise!vars
BY DEF NextDay, outcome, Idle, Promise!Restore, Promise!vars

LEMMA StutterStutters ==
  ASSUME UNCHANGED vars PROVE UNCHANGED Promise!vars
BY DEF vars, outcome, Idle, Promise!vars

(* Ceilings are lowered only as AccessPromise allows. *)
THEOREM LoopKeepsPromise == Spec => KeepsPromise
<1>1. IInv /\ IInv' /\ [Next]_vars => [Promise!Next]_(Promise!vars)
  BY AuthoriseMeters, SettleCloses, ReplayStutters, NextDayRestores,
     StutterStutters DEF Next, Promise!Next
<1> QED BY <1>1, PromiseInit, Invariant, PTL
    DEF Spec, KeepsPromise, Promise!Spec

-----------------------------------------------------------------------------
(***************************************************************************)
(* The step of CeilingRecovers, whose fairness is beyond this prover: with *)
(* the gate closed no ceiling falls, a ceiling that has recovered stays    *)
(* so, and closing an interval raises every other one.                     *)
(***************************************************************************)
Gap(p) == Capacity[p] - ceiling[p]

RecoveryAdvances ==
  [][~GateTriggered(reason') => \A p \in Participants :
       /\ ceiling[p] <= ceiling'[p]
       /\ Gap(p) \in RoundingBand => Gap(p)' \in RoundingBand
       /\ stage = "settle" /\ Gap(p) \notin RoundingBand =>
            ceiling[p] < ceiling'[p]]_vars

LEMMA SettleRecovers ==
  ASSUME IInv, Settle, ~GateTriggered(reason'), NEW p \in Participants,
         Gap(p) \notin RoundingBand
  PROVE  ceiling[p] < ceiling'[p]
<1>1. /\ ceiling[p] \in Nat /\ Capacity[p] \in Nat /\ MaxUnits \in Nat
      /\ ceiling[p] <= Capacity[p] /\ Capacity[p] <= MaxUnits
  BY VectorIsNatural, BoundsAssumption DEF IInv, TypeOK, AccessNested, AtMost, Powers
<1>2. Gap(p) \in Powers /\ Gap(p) \in Nat /\ Capacity[p] = ceiling[p] + Gap(p)
  BY <1>1 DEF Gap, Powers
<1>3. BetaNum * Gap(p) >= BetaDen
  <2>1. ~(BetaNum * Gap(p) < BetaDen)
    BY <1>2 DEF RoundingBand
  <2>2. BetaNum * Gap(p) \in Int /\ BetaDen \in Int
    BY <1>2, BetaAssumption
  <2> QED BY <2>1, <2>2
<1>4. ceiling'[p] \in BlendedCeilings(ceiling[p], Capacity[p], Capacity[p])
  <2>1. CeilingTarget(p, delivery, Idle, GateTriggered(reason')) = Capacity[p]
    BY DEF CeilingTarget
  <2> QED BY <2>1 DEF Settle, UpdatedCeilings
<1>5. ceiling'[p] \in
        BlendedCeilings(ceiling[p], ceiling[p] + Gap(p), ceiling[p] + Gap(p))
  BY <1>2, <1>4
<1> QED BY <1>1, <1>2, <1>3, <1>5, BlendRecovers

(* A gap that does not grow stays within what rounding may keep.           *)
LEMMA BandKept ==
  ASSUME NEW g \in RoundingBand, NEW h \in Nat, h <= g
  PROVE  h \in RoundingBand
<1>1. /\ g \in Nat /\ g \in Powers /\ BetaNum \in Nat /\ BetaDen \in Nat
      /\ MaxUnits \in Nat /\ BetaNum * g < BetaDen
  BY BetaAssumption, BoundsAssumption DEF RoundingBand, Powers
<1>2. BetaNum * h <= BetaNum * g
  BY <1>1, ProductMonotone
<1>3. BetaNum * h \in Nat /\ BetaNum * g \in Nat
  BY <1>1
<1> QED BY <1>1, <1>2, <1>3 DEF RoundingBand, Powers

(* While the gate stays closed every ceiling returns step by step to the   *)
(* registered capacity, for every smoothing weight and either day reset.   *)
THEOREM ClosedGateRecovers == Spec => RecoveryAdvances
<1>1. IInv /\ IInv' /\ [Next]_vars =>
        [~GateTriggered(reason') => \A p \in Participants :
           /\ ceiling[p] <= ceiling'[p]
           /\ Gap(p) \in RoundingBand => Gap(p)' \in RoundingBand
           /\ stage = "settle" /\ Gap(p) \notin RoundingBand =>
                ceiling[p] < ceiling'[p]]_vars
  <2> SUFFICES ASSUME IInv, IInv', Next, ~GateTriggered(reason'),
                      NEW p \in Participants
               PROVE  /\ ceiling[p] <= ceiling'[p]
                      /\ Gap(p) \in RoundingBand => Gap(p)' \in RoundingBand
                      /\ stage = "settle" /\ Gap(p) \notin RoundingBand =>
                           ceiling[p] < ceiling'[p]
    OBVIOUS
  <2>1. ~(ceiling'[p] < ceiling[p])
    BY SettleCeilings, OnlySettleLowers
  <2>2. /\ ceiling[p] \in Nat /\ ceiling'[p] \in Nat /\ Capacity[p] \in Nat
        /\ ceiling[p] <= Capacity[p] /\ ceiling'[p] <= Capacity[p]
    BY VectorIsNatural, BoundsAssumption DEF IInv, TypeOK, AccessNested, AtMost
  <2>3. ceiling[p] <= ceiling'[p]
    BY <2>1, <2>2
  <2>4. Gap(p) \in Nat /\ Gap(p)' \in Nat /\ Gap(p)' <= Gap(p)
    BY <2>2, <2>3 DEF Gap
  <2>5. stage = "settle" /\ Gap(p) \notin RoundingBand => ceiling[p] < ceiling'[p]
    BY SettleRecovers DEF Next, Authorise, Replay, NextDay
  <2>6. Gap(p) \in RoundingBand => Gap(p)' \in RoundingBand
    <3> DEFINE g == Gap(p)
               h == Gap(p)'
    <3>1. g \in RoundingBand /\ h \in Nat /\ h <= g => h \in RoundingBand
      <4> HIDE DEF g, h
      <4> QED BY BandKept
    <3> QED BY <3>1, <2>4
  <2> QED BY <2>3, <2>5, <2>6
<1> QED BY <1>1, Invariant, PTL DEF Spec, RecoveryAdvances

-----------------------------------------------------------------------------
(***************************************************************************)
(* main() of the same program: the run around the days and its outputs,    *)
(* for every set of days, every setting and any number of invocations.     *)
(*                                                                         *)
(* The inductive invariant.  A manifest's own content is of one run unless *)
(* a resume wrote it, whatever has become of the files since; and while an *)
(* invocation that solves is writing, what it has closed is its table of   *)
(* all its days.                                                           *)
(***************************************************************************)
OneRunOf(i, d, s) ==
  /\ i.state = "whole" /\ d.state = "whole"
  /\ i.content = d.content
  /\ s.content.setting = d.content.setting
  /\ d.content.rows = IF s.content.full THEN Days ELSE FirstDays

ManifestSound ==
  /\ manifest = [state |-> manifest.state, content |-> manifest.content]
  /\ manifest.state = "whole" /\ ~manifest.content.summary.content.resumed =>
       OneRunOf(manifest.content.intervals, manifest.content.days,
                manifest.content.summary)

TableWriting == {"openIntervals", "closeIntervals", "openDays", "closeDays"}
SummaryWriting == {"openSummary", "closeSummary"}
ManifestWriting == {"openManifest", "closeManifest"}

RunTable == [setting |-> args.setting, rows |-> Eligible]

WritingSound ==
  /\ phase \in {"solve"} \cup TableWriting => ~args.resume
  /\ phase \in TableWriting => table = RunTable
  /\ phase \in SummaryWriting \cup ManifestWriting /\ ~args.resume =>
       /\ intervals = [state |-> "whole", content |-> RunTable]
       /\ days = [state |-> "whole", content |-> RunTable]
  /\ phase \in {"openDays", "closeDays"} =>
       intervals = [state |-> "whole", content |-> RunTable]
  /\ phase \in ManifestWriting =>
       summary.content = [setting |-> args.setting, full |-> ~args.limit,
                          resumed |-> args.resume]

BundleInv == TablesAreComplete /\ ManifestSound /\ WritingSound

(* The rows of an invocation's table are the days of its scope.            *)
LEMMA RunTableFacts ==
  /\ RunTable.setting = args.setting
  /\ RunTable.rows = Eligible
  /\ Eligible = IF args.limit THEN FirstDays ELSE Days
BY DEF RunTable, Eligible

LEMMA InitBundle == RunInit => BundleInv
<1> SUFFICES ASSUME RunInit PROVE BundleInv
  OBVIOUS
<1>1. PICK s \in RunSettings :
        /\ intervals = NoTableFile(s) /\ days = NoTableFile(s)
        /\ manifest = NoManifest(s) /\ phase = "idle"
  BY DEF RunInit
<1>2. /\ intervals.state # "whole" /\ days.state # "whole"
      /\ manifest.state # "whole"
      /\ manifest = [state |-> manifest.state, content |-> manifest.content]
  BY <1>1 DEF NoTableFile, NoManifest
<1> QED BY <1>1, <1>2
    DEF BundleInv, TablesAreComplete, ManifestSound, WritingSound,
        TableWriting, SummaryWriting, ManifestWriting

(* A step that leaves the outputs alone keeps their part of the invariant. *)
LEMMA DiskUntouched ==
  ASSUME BundleInv, UNCHANGED disk, WritingSound' PROVE BundleInv'
BY DEF BundleInv, disk, TablesAreComplete, ManifestSound, OneRunOf

LEMMA StartBundle ==
  ASSUME BundleInv, NEW a \in Arguments, SolveStart(a) \/ ResumeStart(a)
  PROVE  BundleInv'
<1>1. UNCHANGED disk
  BY DEF SolveStart, ResumeStart, Start
<1>2. \/ phase' = "solve" /\ ~args'.resume
      \/ phase' = "openSummary" /\ args'.resume
  BY DEF SolveStart, ResumeStart, Start
<1>3. WritingSound'
  BY <1>2 DEF WritingSound, TableWriting, SummaryWriting, ManifestWriting
<1> QED BY <1>1, <1>3, DiskUntouched

LEMMA RunDayBundle ==
  ASSUME BundleInv, NEW d \in Days, RunDay(d) PROVE BundleInv'
<1>1. UNCHANGED disk /\ phase = "solve" /\ UNCHANGED <<phase, args>>
  BY DEF RunDay
<1>2. WritingSound'
  BY <1>1
  DEF BundleInv, WritingSound, TableWriting, SummaryWriting, ManifestWriting
<1> QED BY <1>1, <1>2, DiskUntouched

LEMMA CollectBundle == ASSUME BundleInv, Collect PROVE BundleInv'
<1>1. /\ UNCHANGED disk /\ UNCHANGED args
      /\ phase = "solve" /\ phase' = "openIntervals"
      /\ table' = RunTable
  BY DEF Collect, RunTable
<1>2. RunTable' = RunTable
  BY <1>1 DEF RunTable, Eligible
<1>3. WritingSound'
  BY <1>1, <1>2
  DEF BundleInv, WritingSound, TableWriting, SummaryWriting, ManifestWriting
<1> QED BY <1>1, <1>3, DiskUntouched

LEMMA IntervalsBundle == ASSUME BundleInv, WriteIntervals PROVE BundleInv'
<1>1. /\ UNCHANGED <<days, summary, manifest, args, table>>
      /\ RunTable' = RunTable
  BY DEF WriteIntervals, RunTable, Eligible
<1>2. CASE phase = "openIntervals" /\ intervals' \in Torn /\ phase' = "closeIntervals"
  <2>1. intervals'.state = "torn"
    BY <1>2 DEF Torn
  <2> QED BY <1>1, <1>2, <2>1
      DEF BundleInv, TablesAreComplete, ManifestSound, OneRunOf, WritingSound,
          TableWriting, SummaryWriting, ManifestWriting
<1>3. CASE phase = "closeIntervals" /\ intervals' = WholeTable /\ phase' = "openDays"
  <2>1. intervals' = [state |-> "whole", content |-> RunTable] /\ table = RunTable
    BY <1>3 DEF BundleInv, WritingSound, TableWriting, WholeTable
  <2>2. TablesAreComplete'
    BY <1>1, <2>1, RunTableFacts DEF BundleInv, TablesAreComplete
  <2>3. ManifestSound'
    BY <1>1 DEF BundleInv, ManifestSound, OneRunOf
  <2>4. WritingSound'
    BY <1>1, <1>3, <2>1
    DEF BundleInv, WritingSound, TableWriting, SummaryWriting, ManifestWriting
  <2> QED BY <2>2, <2>3, <2>4 DEF BundleInv
<1> QED BY <1>2, <1>3 DEF WriteIntervals

LEMMA DaysBundle == ASSUME BundleInv, WriteDays PROVE BundleInv'
<1>1. /\ UNCHANGED <<intervals, summary, manifest, args, table>>
      /\ RunTable' = RunTable
  BY DEF WriteDays, RunTable, Eligible
<1>2. CASE phase = "openDays" /\ days' \in Torn /\ phase' = "closeDays"
  <2>1. days'.state = "torn"
    BY <1>2 DEF Torn
  <2> QED BY <1>1, <1>2, <2>1
      DEF BundleInv, TablesAreComplete, ManifestSound, OneRunOf, WritingSound,
          TableWriting, SummaryWriting, ManifestWriting
<1>3. CASE phase = "closeDays" /\ days' = WholeTable /\ phase' = "openSummary"
  <2>1. days' = [state |-> "whole", content |-> RunTable] /\ table = RunTable
    BY <1>3 DEF BundleInv, WritingSound, TableWriting, WholeTable
  <2>2. TablesAreComplete'
    BY <1>1, <2>1, RunTableFacts DEF BundleInv, TablesAreComplete
  <2>3. ManifestSound'
    BY <1>1 DEF BundleInv, ManifestSound, OneRunOf
  <2>4. WritingSound'
    BY <1>1, <1>3, <2>1
    DEF BundleInv, WritingSound, TableWriting, SummaryWriting, ManifestWriting
  <2> QED BY <2>2, <2>3, <2>4 DEF BundleInv
<1> QED BY <1>2, <1>3 DEF WriteDays

LEMMA SummaryBundle == ASSUME BundleInv, WriteSummary PROVE BundleInv'
<1>1. /\ UNCHANGED <<intervals, days, manifest, args>>
      /\ RunTable' = RunTable
  BY DEF WriteSummary, RunTable, Eligible
<1>2. TablesAreComplete' /\ ManifestSound'
  BY <1>1 DEF BundleInv, TablesAreComplete, ManifestSound, OneRunOf
<1>3. CASE phase = "openSummary" /\ phase' = "closeSummary"
  BY <1>1, <1>2, <1>3
  DEF BundleInv, WritingSound, TableWriting, SummaryWriting, ManifestWriting
<1>4. CASE /\ phase = "closeSummary" /\ phase' = "openManifest"
           /\ summary' = [state |-> "whole",
                content |-> [setting |-> args.setting, full |-> RunScope,
                             resumed |-> args.resume]]
  <2>1. summary'.content = [setting |-> args.setting, full |-> ~args.limit,
                            resumed |-> args.resume]
    BY <1>4 DEF RunScope
  <2> QED BY <1>1, <1>2, <1>4, <2>1
      DEF BundleInv, WritingSound, TableWriting, SummaryWriting, ManifestWriting
<1> QED BY <1>3, <1>4 DEF WriteSummary

LEMMA ManifestBundle == ASSUME BundleInv, WriteManifest PROVE BundleInv'
<1>1. /\ UNCHANGED <<intervals, days, summary, args>>
      /\ RunTable' = RunTable
  BY DEF WriteManifest, RunTable, Eligible
<1>2. TablesAreComplete'
  BY <1>1 DEF BundleInv, TablesAreComplete
<1>3. CASE /\ phase = "openManifest" /\ phase' = "closeManifest"
           /\ manifest' = [manifest EXCEPT !.state = "torn"]
  <2>1. /\ manifest' = [state |-> "torn", content |-> manifest.content]
        /\ manifest'.state = "torn" /\ manifest'.content = manifest.content
    BY <1>3 DEF BundleInv, ManifestSound
  <2> QED BY <1>1, <1>2, <1>3, <2>1
      DEF BundleInv, ManifestSound, WritingSound, TableWriting, SummaryWriting,
          ManifestWriting
<1>4. CASE /\ phase = "closeManifest" /\ phase' = "idle"
           /\ manifest' = [state |-> "whole",
                content |-> [intervals |-> intervals, days |-> days,
                             summary |-> summary]]
  <2>1. /\ manifest'.content.intervals = intervals
        /\ manifest'.content.days = days
        /\ manifest'.content.summary = summary
    BY <1>4
  <2>2. manifest' = [state |-> manifest'.state, content |-> manifest'.content]
    BY <1>4
  <2>3. /\ summary.content.resumed = args.resume
        /\ summary.content.setting = args.setting
        /\ summary.content.full = ~args.limit
    BY <1>4 DEF BundleInv, WritingSound, ManifestWriting
  <2>4. ASSUME ~args.resume PROVE OneRunOf(intervals, days, summary)
    <3>1. /\ intervals = [state |-> "whole", content |-> RunTable]
          /\ days = [state |-> "whole", content |-> RunTable]
      BY <1>4, <2>4 DEF BundleInv, WritingSound, ManifestWriting
    <3> QED BY <2>3, <3>1, RunTableFacts DEF OneRunOf
  <2>5. ManifestSound'
    BY <2>1, <2>2, <2>3, <2>4 DEF ManifestSound, OneRunOf
  <2> QED BY <1>1, <1>2, <1>4, <2>5
      DEF BundleInv, WritingSound, TableWriting, SummaryWriting, ManifestWriting
<1> QED BY <1>3, <1>4 DEF WriteManifest

LEMMA StopBundle == ASSUME BundleInv, Stop PROVE BundleInv'
<1>1. UNCHANGED disk /\ phase' = "idle"
  BY DEF Stop
<1>2. WritingSound'
  BY <1>1 DEF WritingSound, TableWriting, SummaryWriting, ManifestWriting
<1> QED BY <1>1, <1>2, DiskUntouched

LEMMA StillBundle == ASSUME BundleInv, UNCHANGED runVars PROVE BundleInv'
BY DEF runVars, disk, BundleInv, TablesAreComplete, ManifestSound, OneRunOf,
       WritingSound, RunTable, Eligible

LEMMA BundleInductive == BundleInv /\ [RunNext]_runVars => BundleInv'
BY StartBundle, RunDayBundle, CollectBundle, IntervalsBundle, DaysBundle,
   SummaryBundle, ManifestBundle, StopBundle, StillBundle DEF RunNext

(* Closed tables are complete, manifests tell of one run, and an           *)
(* invocation writes what it has solved.                                   *)
THEOREM BundleInvariant == RunSpec => []BundleInv
BY InitBundle, BundleInductive, PTL DEF RunSpec

(* A closed table has every day its run was asked for.                     *)
THEOREM ClosedTablesAreComplete == RunSpec => []TablesAreComplete
BY BundleInvariant, PTL DEF BundleInv

(* A bundle that verifies and was not finalized by a resume is of one run, *)
(* with the scope and settings that its summary states.                    *)
THEOREM VerifiedBundlesAreOneRun == RunSpec => []VerifiedBundleIsOneRun
<1>1. BundleInv => VerifiedBundleIsOneRun
  BY DEF BundleInv, ManifestSound, OneRunOf, VerifiedBundleIsOneRun,
         BundleVerifies, OneRun
<1> QED BY <1>1, BundleInvariant, PTL
-----------------------------------------------------------------------------
(***************************************************************************)
(* What --resume-summary would have to look at.  The code accepts any two  *)
(* tables whose controls are paired, and ResumeFinalizesCompleteRun fails; *)
(* it holds when a resume is given the closed tables of a full run under   *)
(* its own settings.                                                       *)
(***************************************************************************)
FullTable(s) == [state |-> "whole", content |-> [setting |-> s, rows |-> Days]]

ResumesFullTables ==
  \A a \in Arguments : ResumeStart(a) =>
    intervals = FullTable(a.setting) /\ days = FullTable(a.setting)

ResumeSound ==
  /\ phase \in SummaryWriting \cup ManifestWriting =>
       /\ intervals = [state |-> "whole", content |-> RunTable]
       /\ days = [state |-> "whole", content |-> RunTable]
  /\ manifest.state = "whole" =>
       OneRunOf(manifest.content.intervals, manifest.content.days,
                manifest.content.summary)

(* The resume itself: the tables it finds are those it would have solved.  *)
LEMMA ResumeStartSound ==
  ASSUME ResumeSound, ResumesFullTables, NEW a \in Arguments, ResumeStart(a)
  PROVE  ResumeSound'
<1>1. UNCHANGED disk /\ args' = a /\ ~a.limit
  BY DEF ResumeStart, Start
<1>2. intervals = FullTable(a.setting) /\ days = FullTable(a.setting)
  BY DEF ResumesFullTables
<1>3. RunTable' = [setting |-> a.setting, rows |-> Days]
  BY <1>1 DEF RunTable, Eligible
<1> QED BY <1>1, <1>2, <1>3 DEF ResumeSound, FullTable, disk, OneRunOf

LEMMA WritingKeepsSound ==
  ASSUME BundleInv, ResumeSound, WriteDays \/ WriteSummary \/ WriteManifest
  PROVE  ResumeSound'
<1>1. UNCHANGED args /\ RunTable' = RunTable
  BY DEF WriteDays, WriteSummary, WriteManifest, RunTable, Eligible
<1>2. CASE WriteDays
  <2>1. UNCHANGED <<manifest, intervals>>
    BY <1>2 DEF WriteDays
  <2>2. CASE phase' = "closeDays"
    BY <2>1, <2>2 DEF ResumeSound, SummaryWriting, ManifestWriting, OneRunOf
  <2>3. CASE phase = "closeDays" /\ days' = WholeTable
    <3>1. /\ intervals = [state |-> "whole", content |-> RunTable]
          /\ table = RunTable
      BY <2>3 DEF BundleInv, WritingSound, TableWriting
    <3> QED BY <1>1, <2>1, <2>3, <3>1 DEF ResumeSound, WholeTable, OneRunOf
  <2> QED BY <1>2, <2>2, <2>3 DEF WriteDays
<1>3. CASE WriteSummary
  <2>1. /\ UNCHANGED <<manifest, intervals, days>>
        /\ phase \in SummaryWriting
    BY <1>3 DEF WriteSummary, SummaryWriting
  <2> QED BY <1>1, <2>1 DEF ResumeSound, OneRunOf
<1>4. CASE WriteManifest
  <2>1. UNCHANGED <<intervals, days, summary>> /\ phase \in ManifestWriting
    BY <1>4 DEF WriteManifest, ManifestWriting
  <2>2. /\ intervals = [state |-> "whole", content |-> RunTable]
        /\ days = [state |-> "whole", content |-> RunTable]
    BY <2>1 DEF ResumeSound
  <2>3. manifest'.state = "whole" =>
          OneRunOf(manifest'.content.intervals, manifest'.content.days,
                   manifest'.content.summary)
    <3>1. CASE phase = "openManifest" /\ manifest' = [manifest EXCEPT !.state = "torn"]
      <4>1. manifest'.state = "torn"
        BY <3>1 DEF BundleInv, ManifestSound
      <4> QED BY <4>1
    <3>2. CASE manifest' = [state |-> "whole",
                 content |-> [intervals |-> intervals, days |-> days,
                              summary |-> summary]]
      <4>1. /\ summary.content.setting = args.setting
            /\ summary.content.full = ~args.limit
        BY <2>1 DEF BundleInv, WritingSound
      <4>2. OneRunOf(intervals, days, summary)
        BY <2>2, <4>1, RunTableFacts DEF OneRunOf
      <4> QED BY <3>2, <4>2
    <3> QED BY <1>4, <3>1, <3>2 DEF WriteManifest
  <2> QED BY <1>1, <2>1, <2>2, <2>3 DEF ResumeSound, OneRunOf
<1> QED BY <1>2, <1>3, <1>4

LEMMA ResumeInductive ==
  BundleInv /\ ResumeSound /\ [RunNext]_runVars /\ [ResumesFullTables]_runVars
    => ResumeSound'
<1> SUFFICES ASSUME BundleInv, ResumeSound, [RunNext]_runVars,
                    [ResumesFullTables]_runVars
             PROVE  ResumeSound'
  OBVIOUS
<1>1. CASE UNCHANGED runVars
  BY <1>1 DEF runVars, disk, ResumeSound, RunTable, Eligible, OneRunOf
<1>2. ASSUME NEW a \in Arguments, ResumeStart(a), ResumesFullTables
      PROVE  ResumeSound'
  BY <1>2, ResumeStartSound
<1>3. CASE WriteDays \/ WriteSummary \/ WriteManifest
  BY <1>3, WritingKeepsSound
<1>4. ASSUME \/ \E a \in Arguments : SolveStart(a)
             \/ \E d \in Days : RunDay(d)
             \/ Collect \/ WriteIntervals \/ Stop
      PROVE  ResumeSound'
  <2>1. /\ UNCHANGED manifest
        /\ phase' \in {"solve", "openIntervals", "closeIntervals", "openDays", "idle"}
    BY <1>4 DEF SolveStart, Start, RunDay, Collect, WriteIntervals, Stop, disk
  <2> QED BY <2>1 DEF ResumeSound, SummaryWriting, ManifestWriting, OneRunOf
<1> QED BY <1>1, <1>2, <1>3, <1>4 DEF RunNext

(* If every resume is given the tables of a full run under its own         *)
(* settings, a bundle that it finalizes and that verifies is that run.     *)
THEOREM CarefulResumeFinalizesCompleteRun ==
  RunSpec /\ [][ResumesFullTables]_runVars => []ResumeFinalizesCompleteRun
<1>1. RunInit => ResumeSound
  BY DEF RunInit, ResumeSound, SummaryWriting, ManifestWriting, NoManifest
<1>2. ResumeSound => ResumeFinalizesCompleteRun
  BY DEF ResumeSound, OneRunOf, ResumeFinalizesCompleteRun, BundleVerifies,
         OneRun
<1> QED BY <1>1, <1>2, ResumeInductive, BundleInvariant, PTL DEF RunSpec
=============================================================================
