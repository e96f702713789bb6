------------------------ MODULE AccessFeedback_proofs -----------------------
(***************************************************************************)
(* Facts about the feedback functions for every set of participants,       *)
(* capacity, tolerance, smoothing weight and telemetry setting.            *)
(***************************************************************************)
EXTENDS AccessFeedback, TLAPS

(* A product is monotone in its second factor. *)
LEMMA ProductMonotone ==
  ASSUME NEW n \in Nat, NEW a \in Nat, NEW b \in Nat, a <= b
  PROVE  n * a <= n * b
<1> DEFINE d == b - a
<1>1. d \in Nat /\ b = a + d
  OBVIOUS
<1>2. n * (a + d) = n * a + n * d
  BY <1>1
<1>3. n * d \in Nat
  BY <1>1
<1> QED BY <1>1, <1>2, <1>3

(* An allocation at a scale of at most one is no larger than the request.  *)
LEMMA ScaledBounds ==
  ASSUME NEW n \in Nat \ {0}, NEW k \in 0 .. n, NEW r \in Nat
  PROVE  (k * r) \div n \in 0 .. r
<1> DEFINE q == (k * r) \div n
<1>1. k * r \in Nat
  OBVIOUS
<1>2. q \in Nat /\ n * q <= k * r
  BY <1>1
<1>3. k * r <= n * r
  BY ProductMonotone
<1>4. ASSUME q > r PROVE FALSE
  <2>1. n * (r + 1) <= n * q
    BY <1>2, <1>4, ProductMonotone
  <2>2. n * (r + 1) = n * r + n
    OBVIOUS
  <2> QED BY <1>1, <1>2, <1>3, <2>1, <2>2
<1> QED BY <1>2, <1>4

(***************************************************************************)
(* update_access_ceiling.                                                  *)
(***************************************************************************)

(* Whatever lies below both the previous ceiling and its target lies below *)
(* the blended ceiling, however the blend is rounded.                      *)
LEMMA BlendAbove ==
  ASSUME NEW prior \in Nat, NEW target \in Nat, NEW capacity \in Nat,
         NEW low \in Nat, low <= prior, low <= target,
         NEW c \in BlendedCeilings(prior, target, capacity)
  PROVE  low <= c
<1> DEFINE keep == BetaDen - BetaNum
           exact == keep * prior + BetaNum * target
<1>1. BetaNum \in Nat /\ BetaDen \in Nat \ {0} /\ keep \in Nat
  BY BetaAssumption
<1>2. c \in Nat /\ exact - BetaDen * c < BetaDen
  BY <1>1 DEF BlendedCeilings
<1>3. keep * low <= keep * prior /\ BetaNum * low <= BetaNum * target
  BY <1>1, ProductMonotone
<1>4. keep * low + BetaNum * low = BetaDen * low
  BY <1>1
<1>5. BetaDen * low <= exact
  BY <1>1, <1>3, <1>4
<1>6. ASSUME c < low PROVE FALSE
  <2>1. BetaDen * (c + 1) <= BetaDen * low
    BY <1>1, <1>2, <1>6, ProductMonotone
  <2>2. BetaDen * (c + 1) = BetaDen * c + BetaDen
    BY <1>1, <1>2
  <2>3. BetaDen * c \in Nat /\ BetaDen * low \in Nat /\ exact \in Nat
    BY <1>1, <1>2
  <2> HIDE DEF exact
  <2> QED BY <1>1, <1>2, <1>5, <2>1, <2>2, <2>3
<1> QED BY <1>2, <1>6

(* Blending towards the capacity raises a ceiling, unless the gap is one    *)
(* that rounding may keep.                                                 *)
LEMMA BlendRecovers ==
  ASSUME NEW prior \in Nat, NEW gap \in Nat,
         NEW c \in BlendedCeilings(prior, prior + gap, prior + gap),
         BetaNum * gap >= BetaDen
  PROVE  prior < c
<1> DEFINE keep == BetaDen - BetaNum
           exact == keep * prior + BetaNum * (prior + gap)
<1>1. BetaNum \in Nat /\ BetaDen \in Nat \ {0} /\ keep \in Nat
  BY BetaAssumption
<1>2. c \in Nat /\ exact - BetaDen * c < BetaDen
  BY <1>1 DEF BlendedCeilings
<1>3. exact = BetaDen * prior + BetaNum * gap
  BY <1>1
<1>4. ASSUME c <= prior PROVE FALSE
  <2>1. BetaDen * c <= BetaDen * prior
    BY <1>1, <1>2, <1>4, ProductMonotone
  <2>2. BetaDen * c \in Nat /\ BetaDen * prior \in Nat /\ BetaNum * gap \in Nat
    BY <1>1, <1>2
  <2> HIDE DEF exact
  <2> QED BY <1>1, <1>2, <1>3, <2>1, <2>2
<1> QED BY <1>2, <1>4

LEMMA UpdatedCeilingFacts ==
  ASSUME NEW before \in PowerVector, NEW y \in PowerVector,
         NEW idle \in SUBSET Participants, NEW gate \in BOOLEAN,
         AtMost(before, Capacity), AtMost(y, before),
         NEW after \in UpdatedCeilings(before, y, idle, gate)
  PROVE  /\ after \in PowerVector
         /\ AtMost(after, Capacity)
         /\ AtMost(y, after)
         /\ \A p \in Participants :
              after[p] < before[p] => gate /\ p \in idle
<1> DEFINE blended == [p \in Participants |->
             BlendedCeilings(before[p], CeilingTarget(p, y, idle, gate),
                             Capacity[p])]
<1>0. /\ after \in [Participants -> UNION {blended[p] : p \in Participants}]
      /\ \A p \in Participants : after[p] \in blended[p]
  BY DEF UpdatedCeilings
<1>1. after \in PowerVector
  <2>1. \A p \in Participants : 0 .. Capacity[p] \subseteq Powers
    BY BoundsAssumption DEF PowerVector, Powers
  <2>2. \A p \in Participants : blended[p] \subseteq 0 .. Capacity[p]
    BY DEF BlendedCeilings
  <2> HIDE DEF blended
  <2> QED BY <1>0, <2>1, <2>2 DEF PowerVector
<1>2. ASSUME NEW p \in Participants
      PROVE  /\ after[p] <= Capacity[p]
             /\ y[p] <= after[p]
             /\ after[p] < before[p] => gate /\ p \in idle
  <2> DEFINE target == CeilingTarget(p, y, idle, gate)
  <2>1. /\ before[p] \in Nat /\ y[p] \in Nat /\ Capacity[p] \in Nat
        /\ after[p] \in Nat
        /\ y[p] <= before[p] /\ before[p] <= Capacity[p]
    BY <1>1, BoundsAssumption DEF PowerVector, Powers, AtMost
  <2>2. target \in Nat /\ y[p] <= target
    BY <2>1 DEF CeilingTarget, Lesser, NonNegative
  <2>3. ~(gate /\ p \in idle) => before[p] <= target
    BY <2>1 DEF CeilingTarget
  <2> HIDE DEF target
  <2>4. after[p] \in BlendedCeilings(before[p], target, Capacity[p])
    BY <1>0 DEF target
  <2>5. after[p] <= Capacity[p]
    BY <2>1, <2>4 DEF BlendedCeilings
  <2>6. y[p] <= after[p]
    BY <2>1, <2>2, <2>4, BlendAbove
  <2>7. ~(gate /\ p \in idle) => before[p] <= after[p]
    BY <2>1, <2>2, <2>3, <2>4, BlendAbove
  <2> QED BY <2>1, <2>5, <2>6, <2>7
<1> QED BY <1>1, <1>2 DEF AtMost

(***************************************************************************)
(* assess_replay.                                                          *)
(***************************************************************************)

LEMMA OpenGate ==
  ASSUME NEW x, NEW y, NEW xr, NEW yr, NEW idle, NEW valid \in BOOLEAN,
         GateTriggered(GateReason(x, y, xr, yr, idle, valid))
  PROVE  /\ idle # {} /\ valid
         /\ ~(FSum(OutsiderGain(x, xr, idle)) <= Tolerance)
         /\ ~(FSum(OutsiderGain(y, yr, idle)) <= Tolerance)
         /\ ~(FSum(yr) - FSum(y) <= Tolerance)
BY DEF GateTriggered, GateReason

(* A gain that exceeds the tolerance is made by some outsider. *)
LEMMA GainNeedsOutsider ==
  ASSUME NEW v \in PowerVector, NEW w \in PowerVector, NEW idle,
         ~(FSum(OutsiderGain(v, w, idle)) <= Tolerance)
  PROVE  \E q \in Participants : q \notin idle /\ v[q] < w[q]
<1> SUFFICES ASSUME \A q \in Participants : q \in idle \/ ~(v[q] < w[q])
             PROVE  FALSE
  OBVIOUS
<1>1. ASSUME NEW p \in Participants
      PROVE  OutsiderGain(v, w, idle)[p] = 0
  BY <1>1 DEF OutsiderGain, NonNegative, PowerVector, Powers
<1>2. OutsiderGain(v, w, idle) = Nothing
  BY <1>1 DEF OutsiderGain, Nothing
<1> QED BY <1>2, FSumAssumption, BoundsAssumption

(***************************************************************************)
(* The operators of one interval.                                          *)
(***************************************************************************)

LEMMA VectorIsNatural ==
  ASSUME NEW v \in PowerVector, NEW p \in Participants
  PROVE  v[p] \in Powers /\ v[p] \in Nat
BY BoundsAssumption DEF PowerVector, Powers

LEMMA AdmittedFacts ==
  ASSUME NEW r \in PowerVector, NEW c \in PowerVector
  PROVE  /\ ApplyAccessCeiling(r, c) \in PowerVector
         /\ AtMost(ApplyAccessCeiling(r, c), c)
<1>1. ASSUME NEW p \in Participants
      PROVE  ApplyAccessCeiling(r, c)[p] \in Powers
             /\ ApplyAccessCeiling(r, c)[p] <= c[p]
  BY VectorIsNatural, BoundsAssumption, r[p] \in Nat, c[p] \in Nat,
     Capacity[p] \in Nat
  DEF ApplyAccessCeiling, Lesser, NonNegative, PowerVector, Powers
<1> QED BY <1>1 DEF AtMost, PowerVector, ApplyAccessCeiling

LEMMA AllocationFacts ==
  ASSUME NEW r \in PowerVector, NEW valid \in BOOLEAN,
         NEW x \in Allocations(r, valid)
  PROVE  x \in PowerVector /\ AtMost(x, r)
<1>1. CASE valid
  <2>1. PICK k \in 0 .. ScaleSteps : x = Scaled(r, k)
    BY <1>1 DEF Allocations
  <2>2. ASSUME NEW p \in Participants
        PROVE  x[p] \in Powers /\ x[p] <= r[p]
    <3>1. r[p] \in Nat /\ r[p] <= MaxUnits /\ MaxUnits \in Nat
      BY VectorIsNatural, BoundsAssumption DEF Powers
    <3>2. (k * r[p]) \div ScaleSteps \in 0 .. r[p]
      BY <3>1, ScaledBounds, BoundsAssumption
    <3> QED BY <2>1, <3>1, <3>2 DEF Scaled, Powers
  <2>3. x = [p \in Participants |-> x[p]]
    BY <2>1 DEF Scaled
  <2> QED BY <2>2, <2>3 DEF AtMost, PowerVector
<1>2. CASE ~valid
  <2>1. x = Nothing
    BY <1>2 DEF Allocations
  <2>2. ASSUME NEW p \in Participants
        PROVE  x[p] \in Powers /\ x[p] <= r[p]
    BY <2>1, VectorIsNatural, BoundsAssumption DEF Nothing, Powers
  <2> QED BY <2>1, <2>2 DEF AtMost, PowerVector, Nothing
<1> QED BY <1>1, <1>2

LEMMA DeliveryFacts ==
  ASSUME NEW x \in PowerVector, NEW a,
         \A p \in Participants : a[p] \in Nat
  PROVE  /\ MeteredDelivery(x, a) \in PowerVector
         /\ AtMost(MeteredDelivery(x, a), x)
         /\ AtMost(MeteredDelivery(x, a), a)
<1>1. ASSUME NEW p \in Participants
      PROVE  /\ MeteredDelivery(x, a)[p] \in Powers
             /\ MeteredDelivery(x, a)[p] <= x[p]
             /\ MeteredDelivery(x, a)[p] <= a[p]
  BY VectorIsNatural, BoundsAssumption
  DEF MeteredDelivery, Lesser, NonNegative, Powers
<1> QED BY <1>1 DEF AtMost, PowerVector, MeteredDelivery

LEMMA ReplayRequestFacts ==
  ASSUME NEW r \in PowerVector, NEW x \in PowerVector, NEW y \in PowerVector
  PROVE  /\ FulfillmentReplayRequest(r, x, y) \in PowerVector
         /\ AtMost(FulfillmentReplayRequest(r, x, y), r)
         /\ \A p \in IdleIndices(x, y) :
              FulfillmentReplayRequest(r, x, y)[p] <= y[p]
<1>1. ASSUME NEW p \in Participants
      PROVE  /\ FulfillmentReplayRequest(r, x, y)[p] \in Powers
             /\ FulfillmentReplayRequest(r, x, y)[p] <= r[p]
             /\ p \in IdleIndices(x, y) =>
                  FulfillmentReplayRequest(r, x, y)[p] <= y[p]
  BY VectorIsNatural, BoundsAssumption
  DEF FulfillmentReplayRequest, Lesser, NonNegative, Powers
<1> QED BY <1>1 DEF AtMost, PowerVector, FulfillmentReplayRequest, IdleIndices

(* A multiple of at most one, rounded down, does not exceed the value.     *)
LEMMA FractionBounds ==
  ASSUME NEW n \in Nat, NEW d \in Nat \ {0}, NEW a \in Nat
  PROVE  /\ (n * a) \div d \in Nat
         /\ n <= d => (n * a) \div d <= a
<1>1. n * a \in Nat
  OBVIOUS
<1>2. (n * a) \div d \in Nat
  BY <1>1
<1>3. ASSUME n <= d PROVE (n * a) \div d <= a
  BY <1>3, ScaledBounds
<1> QED BY <1>2, <1>3

LEMMA SignalFacts ==
  ASSUME NEW s \in Settings, NEW a \in PowerVector, NEW y \in PowerVector,
         NEW last \in PowerVector \cup {NoPrevious},
         NEW dropped \in SUBSET Participants,
         AtMost(y, a)
  PROVE  /\ \A p \in Participants :
              AvailabilitySignal(s, a, y, last, dropped)[p] \in Nat
         /\ Conservative(s) =>
              AtMost(AvailabilitySignal(s, a, y, last, dropped), a)
         /\ s.mode = "LAG_ONE_INTERVAL" /\ last = NoPrevious =>
              AvailabilitySignal(s, a, y, last, dropped) = y
<1> DEFINE candidate == SignalCandidate(s, a, y, last, dropped)
           signal == AvailabilitySignal(s, a, y, last, dropped)
<1>1. /\ s.mode \in TelemetryModes
      /\ s.num \in Nat /\ s.den \in Nat \ {0}
  BY DEF Settings
<1>2. ASSUME NEW p \in Participants
      PROVE  /\ candidate[p] \in Nat
             /\ Conservative(s) => candidate[p] <= a[p]
             /\ s.mode = "LAG_ONE_INTERVAL" /\ last = NoPrevious =>
                  candidate[p] = y[p]
  <2>1. a[p] \in Nat /\ y[p] \in Nat /\ y[p] <= a[p]
    BY VectorIsNatural DEF AtMost
  <2>2. last # NoPrevious => last[p] \in Nat
    BY VectorIsNatural
  <2>3. /\ (s.num * a[p]) \div s.den \in Nat
        /\ s.num <= s.den => (s.num * a[p]) \div s.den <= a[p]
    BY <1>1, <2>1, FractionBounds
  <2>4. CASE s.mode = "EXACT"
    BY <2>1, <2>4 DEF SignalCandidate
  <2>5. CASE s.mode = "MULTIPLICATIVE"
    <3>1. candidate[p] = (s.num * a[p]) \div s.den
      BY <2>5 DEF SignalCandidate
    <3>2. Conservative(s) => s.num <= s.den
      BY <2>5 DEF Conservative
    <3> QED BY <2>3, <2>5, <3>1, <3>2
  <2>6. CASE s.mode = "LAG_ONE_INTERVAL"
    <3>1. candidate[p] = IF last = NoPrevious THEN y[p] ELSE last[p]
      BY <2>6 DEF SignalCandidate
    <3>2. ~Conservative(s)
      BY <2>6 DEF Conservative
    <3> QED BY <2>1, <2>2, <3>1, <3>2
  <2>7. CASE s.mode = "DETERMINISTIC_DROPOUT"
    BY <2>1, <2>7 DEF SignalCandidate
  <2> QED BY <1>1, <2>4, <2>5, <2>6, <2>7 DEF TelemetryModes
<1>3. ASSUME NEW p \in Participants
      PROVE  signal[p] = IF candidate[p] < y[p] THEN y[p] ELSE candidate[p]
  BY DEF AvailabilitySignal
<1>4. ASSUME NEW p \in Participants
      PROVE  /\ signal[p] \in Nat
             /\ Conservative(s) => signal[p] <= a[p]
             /\ s.mode = "LAG_ONE_INTERVAL" /\ last = NoPrevious =>
                  signal[p] = y[p]
  <2>1. y[p] \in Nat /\ y[p] <= a[p]
    BY VectorIsNatural DEF AtMost
  <2> HIDE DEF candidate, signal
  <2> QED BY <1>2, <1>3, <2>1
<1>5. s.mode = "LAG_ONE_INTERVAL" /\ last = NoPrevious => signal = y
  <2>1. signal = [p \in Participants |-> signal[p]]
    BY DEF AvailabilitySignal
  <2>2. y = [p \in Participants |-> y[p]]
    BY DEF PowerVector
  <2> HIDE DEF signal
  <2> QED BY <1>4, <2>1, <2>2
<1> QED BY <1>4, <1>5 DEF AtMost

LEMMA NothingFacts ==
  /\ Nothing \in PowerVector
  /\ \A v \in PowerVector : AtMost(Nothing, v)
  /\ AtMost(Nothing, Nothing)
  /\ IdleIndices(Nothing, Nothing) = {}
  /\ FSum(Nothing) = 0
BY VectorIsNatural, BoundsAssumption, FSumAssumption
DEF Nothing, PowerVector, Powers, AtMost, IdleIndices

LEMMA Transitive ==
  ASSUME NEW u \in PowerVector, NEW v \in PowerVector, NEW w \in PowerVector,
         AtMost(u, v), AtMost(v, w)
  PROVE  AtMost(u, w)
<1>1. ASSUME NEW p \in Participants PROVE u[p] <= w[p]
  <2>1. u[p] \in Nat /\ v[p] \in Nat /\ w[p] \in Nat
    BY VectorIsNatural
  <2> QED BY <2>1 DEF AtMost
<1> QED BY <1>1 DEF AtMost
=============================================================================
