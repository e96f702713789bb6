------------------------ MODULE BoundedRecord_proofs ------------------------
(***************************************************************************)
(* Proofs about the record-driven loop for every set of participants,      *)
(* capacity, tolerance, smoothing weight, day length and set of cases.     *)
(***************************************************************************)
EXTENDS BoundedRecord, AccessFeedback_proofs

(***************************************************************************)
(* assess_bounded_record.                                                  *)
(***************************************************************************)

LEMMA QualifiedFacts ==
  ASSUME NEW x, NEW y, NEW xr, NEW h, NEW radius, NEW valid \in BOOLEAN,
         GateTriggered(AssessBoundedRecord(x, y, xr, h, radius, valid))
  PROVE  LET low == MeteredDelivery(xr, LowerAvailability(y, h, radius))
             idle == IdleIndices(x, y)
         IN  /\ ~(\E p \in Participants : y[p] > x[p])
             /\ idle # {} /\ valid
             /\ ~(FSum(OutsiderGain(x, xr, idle)) <= Tolerance)
             /\ ~(FSum(OutsiderGain(y, low, idle)) <= Tolerance)
             /\ ~(FSum(low) - FSum(y) <= Tolerance)
<1> DEFINE low == MeteredDelivery(xr, LowerAvailability(y, h, radius))
           gate == GateReason(x, y, xr, low, IdleIndices(x, y), valid)
<1>1. /\ ~(\E p \in Participants : y[p] > x[p])
      /\ AssessBoundedRecord(x, y, xr, h, radius, valid) = gate
  BY DEF AssessBoundedRecord, GateTriggered
<1>2. GateTriggered(gate)
  BY <1>1
<1> QED BY <1>1, <1>2, OpenGate

(* A record within its radius allows no more than the true availability,   *)
(* and a delivery no larger than that availability stays below it.         *)
LEMMA LowerFacts ==
  ASSUME NEW y \in PowerVector, NEW a \in PowerVector, AtMost(y, a),
         NEW h \in [Participants -> Nat], NEW radius \in PowerVector
  PROVE  /\ \A p \in Participants : LowerAvailability(y, h, radius)[p] \in Nat
         /\ (\A p \in Participants : h[p] - radius[p] <= a[p]) =>
              AtMost(LowerAvailability(y, h, radius), a)
<1>1. ASSUME NEW p \in Participants
      PROVE  /\ LowerAvailability(y, h, radius)[p] \in Nat
             /\ h[p] - radius[p] <= a[p] =>
                  LowerAvailability(y, h, radius)[p] <= a[p]
  <2>1. /\ y[p] \in Nat /\ a[p] \in Nat /\ h[p] \in Nat /\ radius[p] \in Nat
        /\ y[p] <= a[p]
    BY VectorIsNatural DEF AtMost
  <2> QED BY <2>1 DEF LowerAvailability
<1> QED BY <1>1 DEF AtMost

(* Metering against less availability yields no more delivery. *)
LEMMA MeteringMonotone ==
  ASSUME NEW x \in PowerVector, NEW low, NEW high,
         \A p \in Participants : low[p] \in Nat /\ high[p] \in Nat,
         AtMost(low, high)
  PROVE  AtMost(MeteredDelivery(x, low), MeteredDelivery(x, high))
<1>1. ASSUME NEW p \in Participants
      PROVE  MeteredDelivery(x, low)[p] <= MeteredDelivery(x, high)[p]
  <2>1. /\ x[p] \in Nat /\ low[p] \in Nat /\ high[p] \in Nat
        /\ low[p] <= high[p]
    BY VectorIsNatural DEF AtMost
  <2> QED BY <2>1 DEF MeteredDelivery, Lesser, NonNegative
<1> QED BY <1>1 DEF AtMost

LEMMA GainMonotone ==
  ASSUME NEW y \in PowerVector, NEW v \in PowerVector, NEW w \in PowerVector,
         NEW idle, AtMost(v, w)
  PROVE  /\ OutsiderGain(y, v, idle) \in PowerVector
         /\ OutsiderGain(y, w, idle) \in PowerVector
         /\ AtMost(OutsiderGain(y, v, idle), OutsiderGain(y, w, idle))
<1>1. ASSUME NEW p \in Participants
      PROVE  /\ OutsiderGain(y, v, idle)[p] \in Powers
             /\ OutsiderGain(y, w, idle)[p] \in Powers
             /\ OutsiderGain(y, v, idle)[p] <= OutsiderGain(y, w, idle)[p]
  <2>1. /\ y[p] \in Nat /\ v[p] \in Nat /\ w[p] \in Nat /\ v[p] <= w[p]
        /\ v[p] <= MaxUnits /\ w[p] <= MaxUnits /\ MaxUnits \in Nat
    BY VectorIsNatural, BoundsAssumption DEF AtMost, Powers
  <2> QED BY <2>1 DEF OutsiderGain, NonNegative, Powers
<1> QED BY <1>1 DEF AtMost, PowerVector, OutsiderGain

(* What a record within its radius qualifies for, the truth qualifies for. *)
LEMMA LowerBoundImpliesTruth ==
  ASSUME NEW x \in PowerVector, NEW y \in PowerVector,
         NEW xr \in PowerVector, NEW a \in PowerVector, AtMost(y, a),
         NEW h \in [Participants -> Nat], NEW radius \in PowerVector,
         \A p \in Participants : h[p] - radius[p] <= a[p],
         NEW valid \in BOOLEAN,
         GateTriggered(AssessBoundedRecord(x, y, xr, h, radius, valid))
  PROVE  /\ GateTriggered(
              AssessBoundedRecord(x, y, xr, a, Nothing, valid))
         /\ FSum(MeteredDelivery(xr, a)) - FSum(y) > Tolerance
<1> DEFINE lower == LowerAvailability(y, h, radius)
           low == MeteredDelivery(xr, lower)
           true == MeteredDelivery(xr, a)
           idle == IdleIndices(x, y)
<1>1. /\ ~(\E p \in Participants : y[p] > x[p])
      /\ idle # {} /\ valid
      /\ ~(FSum(OutsiderGain(x, xr, idle)) <= Tolerance)
      /\ ~(FSum(OutsiderGain(y, low, idle)) <= Tolerance)
      /\ ~(FSum(low) - FSum(y) <= Tolerance)
  BY QualifiedFacts
<1>2. /\ \A p \in Participants : lower[p] \in Nat
      /\ AtMost(lower, a)
  BY LowerFacts
<1>3. \A p \in Participants : a[p] \in Nat /\ y[p] \in Nat /\ y[p] <= a[p]
  BY VectorIsNatural DEF AtMost
<1>4. LowerAvailability(y, a, Nothing) = a
  <2>1. ASSUME NEW p \in Participants
        PROVE  (IF a[p] - Nothing[p] < y[p]
                  THEN y[p] ELSE a[p] - Nothing[p]) = a[p]
    BY <1>3 DEF Nothing
  <2>2. a = [p \in Participants |-> a[p]]
    BY DEF PowerVector
  <2> QED BY <2>1, <2>2 DEF LowerAvailability
<1>5. ~(\E p \in Participants : a[p] + Nothing[p] < y[p])
  BY <1>3 DEF Nothing
<1> HIDE DEF lower
<1>6. low \in PowerVector /\ true \in PowerVector /\ AtMost(low, true)
  BY <1>2, <1>3, DeliveryFacts, MeteringMonotone
<1> HIDE DEF low, true, idle
<1>7. /\ OutsiderGain(y, low, idle) \in PowerVector
      /\ OutsiderGain(y, true, idle) \in PowerVector
      /\ AtMost(OutsiderGain(y, low, idle), OutsiderGain(y, true, idle))
  BY <1>6, GainMonotone
<1>8. /\ FSum(OutsiderGain(y, low, idle)) \in Int
      /\ FSum(OutsiderGain(y, true, idle)) \in Int
      /\ FSum(OutsiderGain(y, low, idle)) <= FSum(OutsiderGain(y, true, idle))
      /\ FSum(low) \in Int /\ FSum(true) \in Int /\ FSum(y) \in Int
      /\ FSum(low) <= FSum(true)
  BY <1>6, <1>7, FSumAssumption DEF AtMost
<1>9. /\ ~(FSum(OutsiderGain(y, true, idle)) <= Tolerance)
      /\ ~(FSum(true) - FSum(y) <= Tolerance)
      /\ FSum(true) - FSum(y) > Tolerance
  BY <1>1, <1>8, BoundsAssumption
<1>10. AssessBoundedRecord(x, y, xr, a, Nothing, valid)
         = GateReason(x, y, xr, true, idle, valid)
  BY <1>1, <1>4, <1>5 DEF AssessBoundedRecord, true, idle
<1>11. GateReason(x, y, xr, true, idle, valid)
         = "RECOVERABLE_ALLOCATION_EXTERNALITY"
  BY <1>1, <1>9 DEF GateReason
<1> QED BY <1>9, <1>10, <1>11 DEF GateTriggered, true

-----------------------------------------------------------------------------
(***************************************************************************)
(* The inductive invariant: types, the nesting of the powers, and how far  *)
(* the record of a completed interval may be from the truth.               *)
(***************************************************************************)
Nested ==
  /\ AtMost(ceiling, Capacity)
  /\ AtMost(request, ceiling)
  /\ AtMost(award, request)
  /\ AtMost(delivery, award)
  /\ AtMost(delivery, available)
  /\ AtMost(replayAward, request)

RecordInv ==
  \A p \in Participants :
    /\ delivery[p] <= record[p]
    /\ record[p] - case.radius[p] <= available[p]
    /\ case.sign # 1 => record[p] <= available[p]
    /\ p \in importing => available[p] = 0

Fresh ==
  /\ request = Nothing
  /\ award = Nothing
  /\ delivery = Nothing
  /\ replayAward = Nothing

LoopInv ==
  /\ stage # "dayDone" => interval < IntervalsPerDay
  /\ stage \notin {"screen", "decide"} => Fresh
  /\ stage = "screen" => replayAward = Nothing

IInv == TypeOK /\ Nested /\ RecordInv /\ LoopInv /\ OnlyOverstatementStops

LEMMA CaseFacts ==
  ASSUME TypeOK
  PROVE  /\ case.sign \in Signs /\ case.radius \in PowerVector
         /\ case.mode \in Modes
         /\ case.sign = 0 => case.radius = Nothing
         /\ UsedRadius \in PowerVector
BY RecordAssumption, NothingFacts DEF TypeOK, UsedRadius

LEMMA InitIInv == Init => IInv
<1> SUFFICES ASSUME Init PROVE IInv
  OBVIOUS
<1>1. Capacity \in PowerVector /\ AtMost(Capacity, Capacity)
  BY BoundsAssumption, VectorIsNatural DEF AtMost
<1>2. Nothing \in [Participants -> Nat]
  BY DEF Nothing
<1>3. TypeOK
  <2>1. interval \in 0 .. IntervalsPerDay
    BY RecordAssumption DEF Init
  <2> QED BY <1>1, <1>2, <2>1, NothingFacts DEF Init, TypeOK, Stages
<1>4. Nested
  BY <1>1, NothingFacts, BoundsAssumption DEF Init, Nested
<1>5. RecordInv
  <2>1. case.radius \in PowerVector
    BY <1>3, CaseFacts
  <2> SUFFICES ASSUME NEW p \in Participants
               PROVE  /\ delivery[p] <= record[p]
                      /\ record[p] - case.radius[p] <= available[p]
                      /\ case.sign # 1 => record[p] <= available[p]
                      /\ p \in importing => available[p] = 0
    BY DEF RecordInv
  <2>2. case.radius[p] \in Nat
    BY <2>1, VectorIsNatural
  <2>3. delivery[p] = 0 /\ record[p] = 0 /\ available[p] = 0
    BY DEF Init, Nothing
  <2> QED BY <2>2, <2>3
<1>6. LoopInv /\ OnlyOverstatementStops
  BY RecordAssumption DEF Init, LoopInv, Fresh, OnlyOverstatementStops
<1> QED BY <1>3, <1>4, <1>5, <1>6 DEF IInv

(* The record that an interval leaves behind. *)
LEMMA RecordFacts ==
  ASSUME NEW y \in PowerVector, NEW a \in PowerVector, AtMost(y, a),
         NEW c \in Cases
  PROVE  /\ RecordOf(y, a, c) \in [Participants -> Nat]
         /\ \A p \in Participants :
              /\ y[p] <= RecordOf(y, a, c)[p]
              /\ RecordOf(y, a, c)[p] - c.radius[p] <= a[p]
              /\ c.sign # 1 => RecordOf(y, a, c)[p] <= a[p]
<1>1. /\ c.sign \in {-1, 0, 1} /\ c.radius \in PowerVector
      /\ c.sign = 0 => c.radius = Nothing
  BY RecordAssumption DEF Signs
<1>2. ASSUME NEW p \in Participants
      PROVE  /\ RecordOf(y, a, c)[p] \in Nat
             /\ y[p] <= RecordOf(y, a, c)[p]
             /\ RecordOf(y, a, c)[p] - c.radius[p] <= a[p]
             /\ c.sign # 1 => RecordOf(y, a, c)[p] <= a[p]
  <2>1. /\ y[p] \in Nat /\ a[p] \in Nat /\ c.radius[p] \in Nat /\ y[p] <= a[p]
    BY <1>1, VectorIsNatural DEF AtMost
  <2>2. CASE c.sign = 1
    BY <2>1, <2>2 DEF RecordOf
  <2>3. CASE c.sign = -1
    BY <2>1, <2>3 DEF RecordOf
  <2>4. CASE c.sign = 0
    BY <2>1, <2>4 DEF RecordOf
  <2> QED BY <1>1, <2>2, <2>3, <2>4
<1> QED BY <1>2 DEF RecordOf

LEMMA CompleteStep ==
  ASSUME IInv, Complete PROVE IInv'
<1>1. PICK raw \in PowerVector : request' = ApplyAccessCeiling(raw, ceiling)
  BY DEF Complete
<1>2. /\ ceiling \in PowerVector /\ AtMost(ceiling, Capacity)
      /\ replayAward = Nothing /\ case \in Cases
  BY DEF Complete, IInv, TypeOK, Nested, LoopInv, Fresh
<1>3. request' \in PowerVector /\ AtMost(request', ceiling)
  BY <1>1, <1>2, AdmittedFacts
<1>4. award' \in PowerVector /\ AtMost(award', request')
  BY <1>3, AllocationFacts DEF Complete
<1>5. available' \in PowerVector
  BY DEF Complete
<1>6. /\ delivery' \in PowerVector
      /\ AtMost(delivery', award') /\ AtMost(delivery', available')
  BY <1>4, <1>5, VectorIsNatural, DeliveryFacts DEF Complete
<1>7. /\ record' \in [Participants -> Nat]
      /\ \A p \in Participants :
           /\ delivery'[p] <= record'[p]
           /\ record'[p] - case.radius[p] <= available'[p]
           /\ case.sign # 1 => record'[p] <= available'[p]
  <2>1. record' = RecordOf(delivery', available', case)
    BY DEF Complete
  <2> QED BY <1>2, <1>5, <1>6, <2>1, RecordFacts
<1>8. UNCHANGED <<case, interval, ceiling, replayAward, physical, reason>>
  BY DEF Complete
<1>9. base' \in BOOLEAN /\ importing' \in SUBSET Participants
      /\ \A p \in importing' : available'[p] = 0
  BY DEF Complete
<1>10. TypeOK'
  BY <1>3, <1>4, <1>5, <1>6, <1>7, <1>8, <1>9 DEF Complete, IInv, TypeOK, Stages
<1>11. Nested'
  BY <1>2, <1>3, <1>4, <1>6, <1>8, NothingFacts DEF Nested
<1>12. RecordInv'
  BY <1>7, <1>8, <1>9 DEF RecordInv
<1>13. LoopInv' /\ OnlyOverstatementStops'
  BY <1>2, <1>8 DEF Complete, IInv, LoopInv, Fresh, OnlyOverstatementStops
<1> QED BY <1>10, <1>11, <1>12, <1>13 DEF IInv

LEMMA ScreenStep ==
  ASSUME IInv, Screen PROVE IInv'
<1>1. /\ request \in PowerVector /\ award \in PowerVector
      /\ delivery \in PowerVector /\ base \in BOOLEAN
  BY DEF IInv, TypeOK
<1> DEFINE capped == FulfillmentReplayRequest(request, award, delivery)
<1>2. capped \in PowerVector /\ AtMost(capped, request)
  BY <1>1, ReplayRequestFacts
<1>3. replayAward' \in PowerVector /\ AtMost(replayAward', capped)
  BY <1>1, <1>2, AllocationFacts DEF Screen, ReplayAllocations
<1> HIDE DEF capped
<1>4. AtMost(replayAward', request)
  BY <1>1, <1>2, <1>3, Transitive
<1>5. UNCHANGED <<case, interval, ceiling, base, request, award, importing,
                  available, delivery, record, reason>>
  BY DEF Screen, completed
<1>6. TypeOK'
  BY <1>3, <1>5 DEF Screen, IInv, TypeOK, Stages
<1>7. Nested' /\ RecordInv'
  BY <1>4, <1>5 DEF IInv, Nested, RecordInv
<1>8. LoopInv' /\ OnlyOverstatementStops'
  BY <1>5 DEF Screen, IInv, LoopInv, Fresh, OnlyOverstatementStops
<1> QED BY <1>6, <1>7, <1>8 DEF IInv

(* Once the vectors of an interval are forgotten, only the ceiling is left *)
(* to check.                                                               *)
LEMMA ForgottenFacts ==
  ASSUME IInv, Forgotten, case' = case,
         ceiling' \in PowerVector, AtMost(ceiling', Capacity)
  PROVE  Nested' /\ RecordInv' /\ Fresh'
<1>1. case.radius \in PowerVector
  BY CaseFacts DEF IInv
<1>2. Nested' /\ Fresh'
  BY NothingFacts DEF Forgotten, Nested, Fresh
<1>3. RecordInv'
  <2> SUFFICES ASSUME NEW p \in Participants
               PROVE  /\ delivery'[p] <= record'[p]
                      /\ record'[p] - case'.radius[p] <= available'[p]
                      /\ case'.sign # 1 => record'[p] <= available'[p]
                      /\ p \in importing' => available'[p] = 0
    BY DEF RecordInv
  <2>1. case'.radius[p] \in Nat
    BY <1>1, VectorIsNatural
  <2>2. delivery'[p] = 0 /\ record'[p] = 0 /\ available'[p] = 0
    BY DEF Forgotten, Nothing
  <2> QED BY <2>1, <2>2
<1> QED BY <1>2, <1>3

(* A participant that imports has no availability, so that only a record   *)
(* above the truth can make it export.                                     *)
LEMMA ConflictStep ==
  ASSUME IInv, Conflict PROVE IInv'
<1>1. UNCHANGED <<case, interval, ceiling>>
  BY DEF Conflict
<1>2. ceiling' \in PowerVector /\ AtMost(ceiling', Capacity)
  BY <1>1 DEF IInv, TypeOK, Nested
<1>3. Nested' /\ RecordInv' /\ Fresh'
  BY <1>1, <1>2, ForgottenFacts DEF Conflict
<1>4. case.sign = 1
  <2>1. PICK p \in Participants : p \in importing /\ record[p] > 0
    BY DEF Conflict, Conflicting, IInv, TypeOK
  <2>2. available[p] = 0 /\ record[p] \in Nat
    BY <2>1 DEF IInv, RecordInv, TypeOK
  <2>3. ~(record[p] <= available[p])
    BY <2>1, <2>2
  <2> QED BY <2>3 DEF IInv, RecordInv
<1>5. Nothing \in [Participants -> Nat]
  BY DEF Nothing
<1>6. TypeOK'
  BY <1>1, <1>2, <1>5, NothingFacts
  DEF Conflict, Forgotten, IInv, TypeOK, Stages
<1>7. LoopInv' /\ OnlyOverstatementStops'
  BY <1>1, <1>3, <1>4
  DEF Conflict, Forgotten, IInv, LoopInv, OnlyOverstatementStops
<1> QED BY <1>3, <1>6, <1>7 DEF IInv

(* The record of a completed interval is never rejected. *)
LEMMA NeverRejected ==
  ASSUME IInv
  PROVE  Assessment \in GateReasons /\ ~Rejected
<1>1. ASSUME NEW p \in Participants PROVE ~(delivery[p] > award[p])
  BY VectorIsNatural DEF IInv, TypeOK, Nested, AtMost
<1>2. ASSUME NEW p \in Participants
      PROVE  ~(record[p] + UsedRadius[p] < delivery[p])
  <2>1. /\ record[p] \in Nat /\ UsedRadius[p] \in Nat /\ delivery[p] \in Nat
        /\ delivery[p] <= record[p]
    BY VectorIsNatural, CaseFacts DEF IInv, TypeOK, RecordInv
  <2> QED BY <2>1
<1>3. Assessment \in GateReasons
  BY <1>1, <1>2 DEF Assessment, AssessBoundedRecord, GateReason, GateReasons
<1> QED BY <1>3 DEF Rejected, Rejections, GateReasons

(* What a decision does to the ceilings. *)
LEMMA DecideCeilings ==
  ASSUME IInv, Decide
  PROVE  /\ ceiling' \in PowerVector
         /\ AtMost(ceiling', Capacity)
         /\ AtMost(delivery, ceiling')
         /\ \A p \in Participants : ceiling'[p] < ceiling[p] =>
              GateTriggered(Assessment) /\ p \in Idle
<1>1. /\ ceiling \in PowerVector /\ delivery \in PowerVector
      /\ award \in PowerVector /\ request \in PowerVector
      /\ AtMost(ceiling, Capacity)
      /\ AtMost(delivery, award) /\ AtMost(award, request)
      /\ AtMost(request, ceiling)
  BY DEF IInv, TypeOK, Nested
<1>2. AtMost(delivery, ceiling)
  BY <1>1, Transitive
<1>3. Idle \in SUBSET Participants /\ GateTriggered(Assessment) \in BOOLEAN
  BY DEF Idle, IdleIndices, GateTriggered
<1>4. ceiling' \in
        UpdatedCeilings(ceiling, delivery, Idle, GateTriggered(Assessment))
  BY NeverRejected DEF Decide
<1> QED BY <1>1, <1>2, <1>3, <1>4, UpdatedCeilingFacts

LEMMA DecideStep ==
  ASSUME IInv, Decide PROVE IInv'
<1>1. ceiling' \in PowerVector /\ AtMost(ceiling', Capacity)
  BY DecideCeilings
<1>2. Forgotten /\ case' = case
  BY DEF Decide
<1>3. Nested' /\ RecordInv' /\ Fresh'
  BY <1>1, <1>2, ForgottenFacts
<1>4. /\ reason' = Assessment /\ interval' = interval + 1
      /\ stage' = IF interval' = IntervalsPerDay THEN "dayDone" ELSE "complete"
  BY NeverRejected DEF Decide
<1>5. /\ interval \in 0 .. IntervalsPerDay /\ interval < IntervalsPerDay
      /\ IntervalsPerDay \in Nat \ {0}
  BY RecordAssumption DEF Decide, IInv, TypeOK, LoopInv
<1>6. interval' \in 0 .. IntervalsPerDay
      /\ (interval' # IntervalsPerDay => interval' < IntervalsPerDay)
  BY <1>4, <1>5
<1>7. Nothing \in [Participants -> Nat]
  BY DEF Nothing
<1>8. TypeOK'
  BY <1>1, <1>2, <1>4, <1>6, <1>7, NothingFacts, NeverRejected
  DEF Forgotten, IInv, TypeOK, Stages
<1>9. LoopInv' /\ OnlyOverstatementStops'
  BY <1>2, <1>3, <1>4, <1>6 DEF Forgotten, LoopInv, OnlyOverstatementStops
<1> QED BY <1>3, <1>8, <1>9 DEF IInv

LEMMA NextDayStep ==
  ASSUME IInv, NextDay PROVE IInv'
<1>1. UNCHANGED <<case, base, request, award, importing, available, delivery,
                  record, replayAward, physical>>
  BY DEF NextDay, completed
<1>2. ceiling' = Capacity /\ Capacity \in PowerVector
      /\ AtMost(Capacity, Capacity)
  BY BoundsAssumption, VectorIsNatural DEF NextDay, AtMost
<1>3. interval' \in 0 .. IntervalsPerDay /\ interval' < IntervalsPerDay
  BY RecordAssumption DEF NextDay
<1>4. TypeOK'
  BY <1>1, <1>2, <1>3 DEF NextDay, IInv, TypeOK, Stages
<1>5. Fresh
  BY DEF NextDay, IInv, LoopInv
<1>6. Nested' /\ RecordInv'
  BY <1>1, <1>2, <1>5, NothingFacts DEF IInv, Nested, RecordInv, Fresh
<1>7. LoopInv' /\ OnlyOverstatementStops'
  BY <1>1, <1>3, <1>5 DEF NextDay, IInv, LoopInv, Fresh, OnlyOverstatementStops
<1> QED BY <1>4, <1>6, <1>7 DEF IInv

LEMMA StutterStep ==
  ASSUME IInv, UNCHANGED vars PROVE IInv'
BY DEF vars, completed, IInv, TypeOK, Nested, RecordInv, LoopInv, Fresh,
       OnlyOverstatementStops

LEMMA Inductive == IInv /\ [Next]_vars => IInv'
BY CompleteStep, ScreenStep, ConflictStep, DecideStep, NextDayStep, StutterStep
DEF Next

(* The loop never leaves its inductive invariant. *)
THEOREM RecordInvariant == Spec => []IInv
BY InitIInv, Inductive, PTL DEF Spec

(* Every variable keeps its type. *)
THEOREM RecordTypeCorrect == Spec => []TypeOK
BY RecordInvariant, PTL DEF IInv

(* A task stops only in a case that overstates availability. *)
THEOREM StopsAreExplained == Spec => []OnlyOverstatementStops
BY RecordInvariant, PTL DEF IInv

(* The truth of what a record within its radius qualifies for. *)
LEMMA Sound == IInv => LowerBoundIsSound
<1> SUFFICES ASSUME IInv, Qualifies(record, case.radius)
             PROVE  Qualifies(available, Nothing)
  BY DEF LowerBoundIsSound
<1>1. /\ award \in PowerVector /\ delivery \in PowerVector
      /\ replayAward \in PowerVector /\ available \in PowerVector
      /\ record \in [Participants -> Nat] /\ case.radius \in PowerVector
      /\ AtMost(delivery, available)
      /\ \A p \in Participants : record[p] - case.radius[p] <= available[p]
  BY CaseFacts DEF IInv, TypeOK, Nested, RecordInv
<1> QED BY <1>1, LowerBoundImpliesTruth DEF Qualifies

(* The assertion after every decision never fails. *)
THEOREM LowerBoundsAreSound == Spec => []LowerBoundIsSound
BY RecordInvariant, Sound, PTL

-----------------------------------------------------------------------------
LEMMA DecideRestricts ==
  ASSUME IInv, Decide, NEW p \in Participants, ceiling'[p] < ceiling[p]
  PROVE  /\ stage = "decide" /\ physical /\ p \in Idle
         /\ \E q \in Participants : award[q] < request[q]
         /\ Trustworthy =>
              FSum(TrueReplayDelivery) - FSum(delivery) > Tolerance
<1>1. GateTriggered(Assessment) /\ p \in Idle
  BY DecideCeilings
<1>2. /\ award \in PowerVector /\ delivery \in PowerVector
      /\ replayAward \in PowerVector /\ available \in PowerVector
      /\ request \in PowerVector /\ physical \in BOOLEAN
      /\ record \in [Participants -> Nat] /\ UsedRadius \in PowerVector
      /\ AtMost(delivery, available) /\ AtMost(replayAward, request)
  BY CaseFacts DEF IInv, TypeOK, Nested
<1>3. /\ physical
      /\ ~(FSum(OutsiderGain(award, replayAward, Idle)) <= Tolerance)
  BY <1>1, <1>2, QualifiedFacts DEF Assessment, Idle
<1>4. \E q \in Participants : award[q] < request[q]
  <2>1. PICK q \in Participants : q \notin Idle /\ award[q] < replayAward[q]
    BY <1>2, <1>3, GainNeedsOutsider
  <2>2. award[q] < request[q]
    BY <1>2, <2>1, VectorIsNatural DEF AtMost
  <2> QED BY <2>2
<1>5. ASSUME Trustworthy
      PROVE  FSum(TrueReplayDelivery) - FSum(delivery) > Tolerance
  <2>1. ASSUME NEW q \in Participants
        PROVE  record[q] - UsedRadius[q] <= available[q]
    <3>1. CASE case.mode = "LOWER_BOUND"
      BY <3>1 DEF UsedRadius, IInv, RecordInv
    <3>2. CASE case.mode # "LOWER_BOUND"
      <4>1. record[q] <= available[q] /\ UsedRadius[q] = 0
        BY <1>5, <3>2 DEF Trustworthy, UsedRadius, Nothing, IInv, RecordInv
      <4>2. record[q] \in Nat /\ available[q] \in Nat
        BY <1>2, VectorIsNatural
      <4> QED BY <4>1, <4>2
    <3> QED BY <3>1, <3>2
  <2> QED BY <1>1, <1>2, <2>1, LowerBoundImpliesTruth
      DEF Assessment, TrueReplayDelivery
<1>6. stage = "decide"
  BY DEF Decide
<1> QED BY <1>1, <1>3, <1>4, <1>5, <1>6

LEMMA OnlyDecideLowers ==
  ASSUME IInv, [Next]_vars, ~Decide, NEW p \in Participants
  PROVE  ~(ceiling'[p] < ceiling[p])
<1>1. ceiling[p] \in Nat /\ Capacity[p] \in Nat /\ ceiling[p] <= Capacity[p]
  BY VectorIsNatural, BoundsAssumption DEF IInv, TypeOK, Nested, AtMost
<1>2. ceiling' = ceiling \/ ceiling' = Capacity
  BY DEF Next, vars, Complete, Screen, Conflict, NextDay
<1> QED BY <1>1, <1>2

(* A ceiling falls only for an idle award, after a passed screen, and on a *)
(* bounded or understating record only for a real recovery.                *)
THEOREM RestrictionIsReal == Spec => RestrictionRecoversTruth
<1>1. IInv /\ [Next]_vars =>
        [\A p \in Participants : ceiling'[p] < ceiling[p] =>
           /\ stage = "decide" /\ physical /\ p \in Idle
           /\ Trustworthy =>
                FSum(TrueReplayDelivery) - FSum(delivery) > Tolerance]_vars
  BY DecideRestricts, OnlyDecideLowers
<1> QED BY <1>1, RecordInvariant, PTL DEF Spec, RestrictionRecoversTruth

-----------------------------------------------------------------------------
(***************************************************************************)
(* The loop implements AccessPromise: Complete is Meter, Decide and        *)
(* Conflict are Close, NextDay is Restore, Screen is a stutter.            *)
(***************************************************************************)

LEMMA PromiseInit == Init => Promise!Init
BY NothingFacts DEF Init, Promise!Init, Promise!Nothing, Nothing, Idle

LEMMA CompleteMeters ==
  ASSUME IInv, IInv', Complete PROVE Promise!Meter
<1>1. /\ delivery' \in PowerVector /\ award' \in PowerVector
      /\ request' \in PowerVector /\ ceiling' \in PowerVector
      /\ AtMost(delivery', award') /\ AtMost(award', request')
      /\ AtMost(request', ceiling') /\ ceiling' = ceiling
  BY DEF IInv, TypeOK, Nested, Complete
<1>2. ASSUME NEW p \in Participants
      PROVE  /\ delivery'[p] <= ceiling[p]
             /\ p \in Idle' => delivery'[p] < ceiling[p]
  <2>1. /\ delivery'[p] \in Nat /\ award'[p] \in Nat /\ request'[p] \in Nat
        /\ ceiling[p] \in Nat /\ delivery'[p] <= award'[p]
        /\ award'[p] <= request'[p] /\ request'[p] <= ceiling[p]
    BY <1>1, VectorIsNatural DEF AtMost
  <2>2. p \in Idle' => award'[p] - delivery'[p] > Tolerance
    BY DEF Idle, IdleIndices
  <2> QED BY <2>1, <2>2, BoundsAssumption
<1>3. Idle' \in SUBSET Participants
  BY DEF Idle, IdleIndices
<1>4. stage = "complete" /\ stage' = "screen"
  BY DEF Complete
<1>5. (award # request)' \in BOOLEAN
  OBVIOUS
<1>6. delivery' \in Promise!Vectors
  BY <1>1 DEF Promise!Vectors, PowerVector, Powers
<1> QED BY <1>1, <1>2, <1>3, <1>4, <1>5, <1>6 DEF Promise!Meter

(* An interval closes when it is decided, or when its task stops. *)
LEMMA ClosingFacts ==
  ASSUME IInv, Forgotten,
         stage \in {"screen", "decide"}, stage' \notin {"screen", "decide"},
         ceiling' \in PowerVector, AtMost(ceiling', Capacity),
         AtMost(delivery, ceiling'),
         \A p \in Participants : ceiling'[p] < ceiling[p] =>
           award # request /\ p \in Idle
  PROVE  Promise!Close
<1>1. /\ delivery' = Nothing /\ award' = Nothing /\ request' = Nothing
  BY DEF Forgotten
<1>2. Idle' = {}
  BY <1>1, NothingFacts DEF Idle
<1>3. ceiling' \in Promise!Vectors
  BY DEF Promise!Vectors, PowerVector, Powers
<1> QED BY <1>1, <1>2, <1>3
    DEF Promise!Close, Promise!Lowered, Promise!Nothing, Nothing, AtMost

LEMMA DecideCloses ==
  ASSUME IInv, Decide PROVE Promise!Close
<1>1. ASSUME NEW p \in Participants, ceiling'[p] < ceiling[p]
      PROVE  award # request /\ p \in Idle
  <2>1. /\ p \in Idle
        /\ \E q \in Participants : award[q] < request[q]
    BY <1>1, DecideRestricts
  <2>2. PICK q \in Participants : award[q] < request[q]
    BY <2>1
  <2>3. award[q] \in Nat /\ request[q] \in Nat
    BY VectorIsNatural DEF IInv, TypeOK
  <2> QED BY <2>1, <2>2, <2>3
<1>2. /\ stage = "decide" /\ stage' \in {"dayDone", "complete"} /\ Forgotten
  BY NeverRejected DEF Decide
<1> QED BY <1>1, <1>2, DecideCeilings, ClosingFacts

LEMMA ConflictCloses ==
  ASSUME IInv, Conflict PROVE Promise!Close
<1>1. /\ ceiling' = ceiling /\ stage = "screen" /\ stage' = "stopped"
      /\ Forgotten
  BY DEF Conflict
<1>2. /\ ceiling \in PowerVector /\ delivery \in PowerVector
      /\ award \in PowerVector /\ request \in PowerVector
      /\ AtMost(ceiling, Capacity)
      /\ AtMost(delivery, award) /\ AtMost(award, request)
      /\ AtMost(request, ceiling)
  BY DEF IInv, TypeOK, Nested
<1>3. AtMost(delivery, ceiling)
  BY <1>2, Transitive
<1>4. ASSUME NEW p \in Participants PROVE ~(ceiling'[p] < ceiling[p])
  BY <1>1, <1>2, VectorIsNatural
<1> QED BY <1>1, <1>2, <1>3, <1>4, ClosingFacts

LEMMA ScreenStutters ==
  ASSUME IInv, Screen PROVE UNCHANGED Promise!vars
BY DEF Screen, completed, Idle, Promise!vars

LEMMA NextDayRestores ==
  ASSUME IInv, NextDay PROVE Promise!Restore
BY DEF NextDay, completed, Idle, Promise!Restore

LEMMA StutterStutters ==
  ASSUME UNCHANGED vars PROVE UNCHANGED Promise!vars
BY DEF vars, completed, Idle, Promise!vars

(* Ceilings are lowered only as AccessPromise allows. *)
THEOREM RecordKeepsPromise == Spec => KeepsPromise
<1>1. IInv /\ IInv' /\ [Next]_vars => [Promise!Next]_(Promise!vars)
  BY CompleteMeters, DecideCloses, ConflictCloses, ScreenStutters,
     NextDayRestores, StutterStutters DEF Next, Promise!Next
<1> QED BY <1>1, PromiseInit, RecordInvariant, PTL
    DEF Spec, KeepsPromise, Promise!Spec
=============================================================================
