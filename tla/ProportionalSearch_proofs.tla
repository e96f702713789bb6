---------------------- MODULE ProportionalSearch_proofs ----------------------
(***************************************************************************)
(* Proofs about the proportional search, for every network, resolution,  *)
(* tolerance and iteration budget.                                         *)
(***************************************************************************)
EXTENDS ProportionalSearch, FiniteSetTheorems, WellFoundedInduction, TLAPS

(***************************************************************************)
(* The bracket of the bisection: its lower end passes and is the scale     *)
(* whose screen is kept, its upper end fails, and nothing strictly inside  *)
(* has been solved.                                                        *)
(***************************************************************************)
Bracket ==
  /\ BasePasses /\ ~emptyRequest
  /\ lower < upper
  /\ lower \in passing /\ upper \notin passing
  /\ screened = lower
  /\ lower \in tested
  /\ \A s \in tested : s <= lower \/ upper <= s

StageInv ==
  /\ stage \in {"loadOnly", "zeroExport"} => tested = {}
  /\ stage = "fullRequest" =>
       BasePasses /\ ~emptyRequest /\ tested = {0}
  /\ stage = "bisect" => Bracket
  /\ Done => /\ status = Optimal => BasePasses
             /\ status # Optimal => ~BasePasses
  /\ ~Done => status = Pending
  /\ stage \in {"loadOnly", "zeroExport", "fullRequest"} => iteration = 0

SInv ==
  /\ TypeOK
  /\ LimitIsStrict => passing \subseteq physical
  /\ StageInv
  /\ GrantWasScreened
  /\ FlowsCountSolves
  /\ stage = "loadOnly" => flows = 0

LEMMA ScalesFinite ==
  ASSUME NEW S \in SUBSET Scales
  PROVE  IsFiniteSet(S) /\ Cardinality(S) \in Nat
<1>1. IsFiniteSet(Scales)
  BY FS_Interval, SearchAssumption DEF Scales
<1> QED BY <1>1, FS_Subset, FS_CardinalityType

(* A solve of a scale not tested before keeps the count exact. *)
LEMMA SolveCounts ==
  ASSUME NEW s \in Scales, tested \in SUBSET Scales, s \notin tested, Solve(s),
         flows = 1 + Cardinality(tested)
  PROVE  flows' = 1 + Cardinality(tested') /\ flows' \in Nat
<1>1. IsFiniteSet(tested) /\ Cardinality(tested) \in Nat
  BY ScalesFinite
<1>2. Cardinality(tested \cup {s}) = Cardinality(tested) + 1
  BY <1>1, FS_AddElement
<1> QED BY <1>1, <1>2 DEF Solve

LEMMA MidpointInside ==
  ASSUME lower \in Scales, upper \in Scales, lower < upper, ~Narrow
  PROVE  Midpoint \in Scales /\ lower < Midpoint /\ Midpoint < upper
BY SearchAssumption DEF Narrow, Midpoint, Scales

LEMMA InitSInv == Init => SInv
<1> SUFFICES ASSUME Init PROVE SInv
  OBVIOUS
<1>1. TypeOK
  BY SearchAssumption DEF Init, TypeOK, Scales
<1> QED BY <1>1
    DEF Init, SInv, StageInv, Done, GrantWasScreened, FlowsCountSolves,
        Pending, Optimal

LEMMA LoadOnlyStep == ASSUME SInv, LoadOnly PROVE SInv'
<1>1. Cardinality({}) = 0
  BY FS_EmptySet
<1>2. flows' = 1 /\ tested' = {} /\ status' = Pending
  BY DEF LoadOnly, SInv, StageInv, Done, result
<1>3. TypeOK'
  BY <1>2 DEF LoadOnly, SInv, TypeOK, given, result
<1> QED BY <1>1, <1>2, <1>3
    DEF LoadOnly, SInv, StageInv, Done, GrantWasScreened, FlowsCountSolves,
        Pending, Optimal, given, result

LEMMA ZeroExportStep == ASSUME SInv, ZeroExport PROVE SInv'
<1>1. /\ UNCHANGED <<passing, physical, loadOnlyPasses, emptyRequest, budget>>
      /\ UNCHANGED <<lower, upper, iteration>>
  BY DEF ZeroExport, given
<1>2. tested = {} /\ tested' = {0} /\ 0 \in Scales /\ Full \in Scales
  BY SearchAssumption DEF ZeroExport, Solve, SInv, StageInv, Scales
<1>3. flows' = 1 + Cardinality(tested') /\ flows' \in Nat
  BY <1>2, SolveCounts DEF ZeroExport, SInv, FlowsCountSolves
<1>4. BasePasses' = BasePasses
  BY <1>1 DEF BasePasses
<1>5. TypeOK'
  BY <1>1, <1>2, <1>3 DEF ZeroExport, SInv, TypeOK, Return, result
<1>6. StageInv' /\ GrantWasScreened'
  BY <1>1, <1>2, <1>4
  DEF ZeroExport, SInv, StageInv, Return, result, GrantWasScreened, Done,
      BasePasses, Pending, Optimal, Invalid
<1>7. FlowsCountSolves' /\ stage' # "loadOnly"
  BY <1>3 DEF ZeroExport, Return, result, FlowsCountSolves
<1> QED BY <1>1, <1>5, <1>6, <1>7 DEF SInv

LEMMA FullRequestStep == ASSUME SInv, FullRequest PROVE SInv'
<1>1. UNCHANGED <<passing, physical, loadOnlyPasses, emptyRequest, budget,
                iteration>>
  BY DEF FullRequest, given
<1>2. /\ tested = {0} /\ tested' = {0, Full} /\ 0 \in Scales
      /\ Full \in Scales /\ Full \notin tested /\ 0 < Full
  BY SearchAssumption DEF FullRequest, Solve, SInv, StageInv, Scales
<1>3. flows' = 1 + Cardinality(tested') /\ flows' \in Nat
  BY <1>2, SolveCounts DEF FullRequest, SInv, TypeOK, FlowsCountSolves
<1>4. BasePasses /\ ~emptyRequest /\ BasePasses' = BasePasses
  BY <1>1 DEF BasePasses, FullRequest, SInv, StageInv
<1>5. TypeOK'
  BY <1>1, <1>2, <1>3 DEF FullRequest, SInv, TypeOK, Return
<1>6. CASE Full \in passing
  BY <1>1, <1>2, <1>3, <1>4, <1>5, <1>6
  DEF FullRequest, SInv, StageInv, Return, GrantWasScreened, FlowsCountSolves,
      Done, Pending, Optimal
<1>7. CASE Full \notin passing
  <2>1. /\ stage' = "bisect" /\ lower' = 0 /\ upper' = Full /\ screened' = 0
        /\ status' = Pending
    BY <1>7 DEF FullRequest, SInv, StageInv, Done
  <2>2. Bracket'
    <3>1. 0 \in passing /\ BasePasses'
      BY <1>4 DEF BasePasses
    <3>2. \A s \in tested' : s <= 0 \/ Full <= s
      BY <1>2, SearchAssumption
    <3> QED BY <1>1, <1>2, <1>4, <1>7, <2>1, <3>1, <3>2 DEF Bracket
  <2> QED BY <1>1, <1>2, <1>3, <1>5, <2>1, <2>2
      DEF SInv, StageInv, GrantWasScreened, FlowsCountSolves, Done, Pending,
          Optimal
<1> QED BY <1>6, <1>7

LEMMA BisectStep == ASSUME SInv, Bisect PROVE SInv'
<1>1. /\ UNCHANGED <<passing, physical, loadOnlyPasses, emptyRequest, budget, stage,
                     status, scale>>
      /\ stage = "bisect" /\ status = Pending
  BY DEF Bisect, given, SInv, StageInv, Done
<1>2. Bracket /\ lower \in Scales /\ upper \in Scales
  BY <1>1 DEF SInv, StageInv, TypeOK
<1>3. Midpoint \in Scales /\ lower < Midpoint /\ Midpoint < upper
  BY <1>2, MidpointInside DEF Bracket, Bisect
<1>4. tested \in SUBSET Scales /\ Midpoint \notin tested
  BY <1>2, <1>3 DEF Bracket, SInv, TypeOK, Scales
<1>5. flows' = 1 + Cardinality(tested') /\ flows' \in Nat
  BY <1>1, <1>3, <1>4, SolveCounts DEF Bisect, SInv, FlowsCountSolves
<1>6. tested' = tested \cup {Midpoint}
  BY DEF Bisect, Solve
<1>7. iteration' \in 0 .. budget'
  BY <1>1, SearchAssumption DEF Bisect, SInv, TypeOK
<1>8. TypeOK'
  BY <1>1, <1>3, <1>4, <1>5, <1>6, <1>7 DEF Bisect, SInv, TypeOK
<1>9. Bracket'
  <2>1. BasePasses' /\ ~emptyRequest'
    BY <1>1, <1>2 DEF Bracket, BasePasses
  <2>2. \A s \in tested : s \in Nat /\ (s <= lower \/ upper <= s)
    BY <1>2, <1>4 DEF Bracket, Scales
  <2>3. lower \in Nat /\ upper \in Nat /\ Midpoint \in Nat
    BY <1>2, <1>3 DEF Scales
  <2> HIDE DEF Midpoint
  <2>4. CASE Midpoint \in passing
    <3>1. lower' = Midpoint /\ screened' = Midpoint /\ upper' = upper
      BY <2>4 DEF Bisect
    <3>2. \A s \in tested' : s <= lower' \/ upper' <= s
      BY <1>3, <1>6, <2>2, <2>3, <3>1
    <3> QED BY <1>1, <1>2, <1>3, <1>6, <2>1, <2>4, <3>1, <3>2 DEF Bracket
  <2>5. CASE Midpoint \notin passing
    <3>1. lower' = lower /\ screened' = screened /\ upper' = Midpoint
      BY <2>5 DEF Bisect
    <3>2. \A s \in tested' : s <= lower' \/ upper' <= s
      BY <1>3, <1>6, <2>2, <2>3, <3>1
    <3> QED BY <1>1, <1>2, <1>3, <1>6, <2>1, <2>5, <3>1, <3>2 DEF Bracket
  <2> QED BY <2>4, <2>5
<1> QED BY <1>1, <1>5, <1>8, <1>9
    DEF SInv, StageInv, GrantWasScreened, FlowsCountSolves, Done, Pending,
        Optimal

LEMMA FinishStep == ASSUME SInv, Finish PROVE SInv'
<1>1. UNCHANGED <<passing, physical, loadOnlyPasses, emptyRequest, budget, lower, upper,
                  iteration, tested, flows, screened>>
  BY DEF Finish, given, Return
<1>2. Bracket /\ stage = "bisect"
  BY DEF Finish, SInv, StageInv
<1>3. stage' = "done" /\ status' = Optimal /\ scale' = lower
  BY DEF Finish, Return
<1>4. TypeOK'
  BY <1>1, <1>3 DEF SInv, TypeOK
<1>5. BasePasses' /\ GrantWasScreened'
  BY <1>1, <1>2, <1>3 DEF Bracket, BasePasses, GrantWasScreened
<1> QED BY <1>1, <1>2, <1>3, <1>4, <1>5
    DEF SInv, StageInv, FlowsCountSolves, Done, Pending, Optimal

LEMMA SearchStutter == ASSUME SInv, UNCHANGED vars PROVE SInv'
BY DEF vars, given, result, SInv, TypeOK, StageInv, Bracket, BasePasses,
       GrantWasScreened, FlowsCountSolves, Done

LEMMA SearchInductive == SInv /\ [Next]_vars => SInv'
BY LoadOnlyStep, ZeroExportStep, FullRequestStep, BisectStep, FinishStep,
   SearchStutter DEF Next

(* The search keeps its inductive invariant. *)
THEOREM SearchInvariant == Spec => []SInv
BY InitSInv, SearchInductive, PTL DEF Spec

(* Every variable of the search keeps its type. *)
THEOREM SearchTypeCorrect == Spec => []TypeOK
BY SearchInvariant, PTL DEF SInv

(* A granted allocation was itself solved, passed, and carries its screen. *)
THEOREM GrantsAreScreened == Spec => []GrantWasScreened
BY SearchInvariant, PTL DEF SInv

(* Every scale is solved at most once and every solve is counted. *)
THEOREM FlowsAreCounted == Spec => []FlowsCountSolves
BY SearchInvariant, PTL DEF SInv

(* Under a strict authorisation limit a valid base state suffices for the  *)
(* pair of screens to pass.                                                *)
THEOREM ValidBasePassesPair == Spec => []ValidMeansPairPass
<1>1. SInv => ValidMeansPairPass
  <2> SUFFICES ASSUME SInv, Done, LimitIsStrict
               PROVE  PairPass <=> loadOnlyPasses /\ 0 \in passing
    BY DEF ValidMeansPairPass
  <2>1. passing \subseteq physical
    BY DEF SInv
  <2>2. status = Optimal => screened \in passing
    BY DEF SInv, GrantWasScreened
  <2>3. (status = Optimal => BasePasses) /\ (status # Optimal => ~BasePasses)
    BY DEF SInv, StageInv
  <2> QED BY <2>1, <2>2, <2>3 DEF PairPass, BasePasses
<1> QED BY <1>1, SearchInvariant, PTL

-----------------------------------------------------------------------------
(***************************************************************************)
(* The width of the bracket.  That the recursion which defines Halved has  *)
(* a solution needs an induction; the library's induction theorems take an *)
(* operator, so this one is made of the least element of a set.            *)
(***************************************************************************)
(* A set of naturals that has 0 and the successor of each of its elements  *)
(* has every natural: a least one outside has a predecessor outside.       *)
LEMMA NaturalsAreReached ==
  ASSUME NEW S \in SUBSET Nat, 0 \in S, \A n \in S : n + 1 \in S
  PROVE  S = Nat
<1> SUFFICES ASSUME Nat \ S # {} PROVE FALSE
  OBVIOUS
<1>1. PICK n \in Nat \ S : \A m \in Nat \ S : <<m, n>> \notin OpToRel(<, Nat)
  BY NatLessThanWellFounded, WFMin
<1>2. \A m \in Nat \ S : ~(m < n)
  BY <1>1 DEF OpToRel
<1>3. n # 0 /\ n - 1 \in Nat
  OBVIOUS
<1>4. n - 1 \in S
  BY <1>2, <1>3
<1>5. (n - 1) + 1 = n
  OBVIOUS
<1> QED BY <1>4, <1>5

(* The first n + 1 values of Halved. *)
Prefix(g, n) ==
  /\ g \in [0 .. n -> Nat]
  /\ g[0] = Full
  /\ \A i \in 1 .. n : g[i] = (g[i - 1] + 1) \div 2

LEMMA PrefixExists == \A n \in Nat : \E g : Prefix(g, n)
<1> DEFINE S == {n \in Nat : \E g : Prefix(g, n)}
<1>1. 0 \in S
  <2>1. Prefix([i \in 0 .. 0 |-> Full], 0)
    BY SearchAssumption DEF Prefix
  <2> QED BY <2>1
<1>2. ASSUME NEW n \in S PROVE n + 1 \in S
  <2>1. PICK g : Prefix(g, n)
    OBVIOUS
  <2> DEFINE h == [i \in 0 .. n + 1 |-> IF i = n + 1 THEN (g[n] + 1) \div 2 ELSE g[i]]
  <2>2. g[n] \in Nat /\ (g[n] + 1) \div 2 \in Nat
    BY <2>1 DEF Prefix
  <2>3. h \in [0 .. n + 1 -> Nat]
    BY <2>1, <2>2 DEF Prefix
  <2>4. h[0] = Full
    BY <2>1 DEF Prefix
  <2>5. ASSUME NEW i \in 1 .. n + 1 PROVE h[i] = (h[i - 1] + 1) \div 2
    <3>1. i \in 0 .. n + 1 /\ i - 1 \in 0 .. n + 1 /\ i - 1 # n + 1
      OBVIOUS
    <3>2. h[i - 1] = g[i - 1] /\ h[i] = IF i = n + 1 THEN (g[n] + 1) \div 2 ELSE g[i]
      BY <3>1
    <3> HIDE DEF h
    <3>3. CASE i = n + 1
      BY <3>2, <3>3
    <3>4. CASE i # n + 1
      <4>1. i \in 1 .. n
        BY <3>4
      <4> QED BY <2>1, <3>2, <3>4, <4>1 DEF Prefix
    <3> QED BY <3>3, <3>4
  <2> HIDE DEF h
  <2>6. Prefix(h, n + 1)
    BY <2>3, <2>4, <2>5 DEF Prefix
  <2> QED BY <2>6
<1> HIDE DEF S
<1>3. S = Nat
  BY <1>1, <1>2, NaturalsAreReached DEF S
<1> QED BY <1>3 DEF S

LEMMA PrefixesAgree ==
  ASSUME NEW n \in Nat, NEW m \in Nat, m <= n, NEW g, Prefix(g, n), NEW h, Prefix(h, m)
  PROVE  \A i \in 0 .. m : g[i] = h[i]
<1> DEFINE S == {i \in Nat : i <= m => g[i] = h[i]}
<1>1. 0 \in S
  BY DEF Prefix
<1>2. ASSUME NEW i \in S PROVE i + 1 \in S
  <2> SUFFICES ASSUME i + 1 <= m PROVE g[i + 1] = h[i + 1]
    OBVIOUS
  <2>1. g[i] = h[i] /\ i + 1 \in 1 .. m /\ i + 1 \in 1 .. n /\ (i + 1) - 1 = i
    OBVIOUS
  <2> QED BY <2>1 DEF Prefix
<1> HIDE DEF S
<1>3. S = Nat
  BY <1>1, <1>2, NaturalsAreReached DEF S
<1> QED BY <1>3 DEF S

(* The recursion that defines Halved has a solution, so Halved is one. *)
LEMMA HalvedEquation ==
  /\ Halved = [n \in Nat |-> IF n = 0 THEN Full ELSE (Halved[n - 1] + 1) \div 2]
  /\ \A n \in Nat : Halved[n] \in Nat
<1> DEFINE pre(n) == CHOOSE g : Prefix(g, n)
           F == [n \in Nat |-> pre(n)[n]]
<1>1. \A n \in Nat : Prefix(pre(n), n)
  BY PrefixExists
<1> HIDE DEF pre
<1>2. ASSUME NEW n \in Nat, n # 0 PROVE F[n] = (F[n - 1] + 1) \div 2
  <2>1. n - 1 \in Nat /\ n - 1 <= n /\ n \in 1 .. n /\ n - 1 \in 0 .. n - 1
    BY <1>2
  <2>2. Prefix(pre(n), n) /\ Prefix(pre(n - 1), n - 1)
    BY <1>1, <2>1
  <2>3. pre(n)[n - 1] = pre(n - 1)[n - 1]
    BY <2>1, <2>2, PrefixesAgree
  <2>4. pre(n)[n] = (pre(n)[n - 1] + 1) \div 2
    BY <2>1, <2>2 DEF Prefix
  <2> QED BY <2>1, <2>3, <2>4
<1>3. F[0] = Full
  BY <1>1 DEF Prefix
<1>4. F = [n \in Nat |-> IF n = 0 THEN Full ELSE (F[n - 1] + 1) \div 2]
  BY <1>2, <1>3
<1> HIDE DEF F
<1>5. Halved = [n \in Nat |-> IF n = 0 THEN Full ELSE (Halved[n - 1] + 1) \div 2]
  BY <1>4 DEF Halved
<1> DEFINE S == {n \in Nat : Halved[n] \in Nat}
<1>6. 0 \in S
  BY <1>5, SearchAssumption
<1>7. ASSUME NEW n \in S PROVE n + 1 \in S
  <2>1. n + 1 \in Nat /\ n + 1 # 0 /\ (n + 1) - 1 = n /\ Halved[n] \in Nat
    BY <1>7
  <2>2. Halved[n + 1] = (Halved[n] + 1) \div 2
    BY <1>5, <2>1
  <2> QED BY <2>1, <2>2
<1> HIDE DEF S
<1>8. S = Nat
  BY <1>6, <1>7, NaturalsAreReached DEF S
<1> QED BY <1>5, <1>8 DEF S

LEMMA HalvedFacts ==
  /\ Halved[0] = Full
  /\ \A n \in Nat : /\ Halved[n] \in Nat
                    /\ Halved[n + 1] = (Halved[n] + 1) \div 2
<1>1. ASSUME NEW n \in Nat PROVE Halved[n + 1] = (Halved[n] + 1) \div 2
  <2>1. n + 1 \in Nat /\ n + 1 # 0 /\ (n + 1) - 1 = n
    OBVIOUS
  <2> QED BY <2>1, HalvedEquation
<1> QED BY <1>1, HalvedEquation

WidthInv == stage = "bisect" => upper - lower <= Halved[iteration]

(* The width that is left is one the budget or the tolerance allows.       *)
LEMMA RemainingWidthFacts ==
  ASSUME budget \in Nat
  PROVE  /\ RemainingWidth \in Nat /\ 1 <= RemainingWidth
         /\ Halved[budget] <= RemainingWidth /\ Tolerance <= RemainingWidth
<1>1. Halved[budget] \in Nat
  BY HalvedFacts
<1> QED BY <1>1, SearchAssumption DEF RemainingWidth

MaxInv == WidthInv /\ NearMaximalOnPrefix

LEMMA BisectWidth == ASSUME SInv, WidthInv, Bisect PROVE WidthInv'
<1>1. /\ lower \in Nat /\ upper \in Nat /\ iteration \in Nat
      /\ lower < upper /\ stage = "bisect"
  BY SearchAssumption DEF Bisect, SInv, StageInv, Bracket, TypeOK, Scales
<1> DEFINE h == Halved[iteration]
<1>2. h \in Nat /\ upper - lower <= h /\ Halved[iteration'] = (h + 1) \div 2
  BY <1>1, HalvedFacts DEF Bisect, WidthInv
<1> HIDE DEF h
<1>3. /\ Midpoint - lower <= (h + 1) \div 2
      /\ upper - Midpoint <= (h + 1) \div 2
  BY <1>1, <1>2 DEF Midpoint
<1>4. \/ lower' = Midpoint /\ upper' = upper
      \/ lower' = lower /\ upper' = Midpoint
  BY DEF Bisect
<1> QED BY <1>2, <1>3, <1>4 DEF WidthInv

(* What the bracket leaves open: below the failing end of a prefix lies    *)
(* everything that passes.                                                 *)
LEMMA FinishNearMaximal == ASSUME SInv, WidthInv, Finish PROVE NearMaximalOnPrefix'
<1>1. /\ UNCHANGED <<passing, budget, emptyRequest>> /\ scale' = lower
      /\ stage = "bisect" /\ (iteration = budget \/ Narrow)
  BY DEF Finish, given, Return
<1>2. /\ passing \in SUBSET Scales /\ lower \in Nat /\ upper \in Nat
      /\ budget \in Nat /\ upper \notin passing
  BY <1>1, SearchAssumption DEF SInv, StageInv, Bracket, TypeOK, Scales
<1>3. upper - lower <= RemainingWidth /\ RemainingWidth \in Nat
  <2>1. RemainingWidth \in Nat /\ Halved[budget] \in Nat
        /\ Halved[budget] <= RemainingWidth /\ Tolerance <= RemainingWidth
    BY <1>2, RemainingWidthFacts, HalvedFacts
  <2>2. upper - lower <= Halved[budget] \/ upper - lower <= Tolerance
    BY <1>1 DEF WidthInv, Narrow
  <2> QED BY <1>2, <2>1, <2>2, SearchAssumption
<1>4. RemainingWidth' = RemainingWidth
  BY <1>1 DEF RemainingWidth
<1>5. ASSUME PassingIsPrefix, NEW s \in passing PROVE s < lower + RemainingWidth
  <2>1. s \in Nat /\ upper \notin 0 .. s
    BY <1>2, <1>5 DEF PassingIsPrefix, Scales
  <2> QED BY <1>2, <1>3, <2>1
<1>6. PassingIsPrefix' <=> PassingIsPrefix
  BY <1>1 DEF PassingIsPrefix
<1> QED BY <1>1, <1>4, <1>5, <1>6 DEF NearMaximalOnPrefix

LEMMA FullRequestMax == ASSUME SInv, FullRequest PROVE MaxInv'
<1>1. UNCHANGED <<passing, budget>>
  BY DEF FullRequest, given
<1>2. passing' \in SUBSET Scales /\ budget' \in Nat
  BY <1>1, SearchAssumption DEF SInv, TypeOK
<1>3. CASE stage' = "done" /\ scale' = Full
  <2>1. RemainingWidth' \in Nat /\ 1 <= RemainingWidth'
    <3>1. RemainingWidth' = RemainingWidth
      BY <1>1 DEF RemainingWidth
    <3> QED BY <1>1, <1>2, <3>1, RemainingWidthFacts
  <2>2. PICK r \in Nat : r = RemainingWidth' /\ 1 <= r
    BY <2>1
  <2>3. 1 <= r
    BY <2>2
  <2>4. \A s \in Scales : s < Full + r
    BY <2>3, SearchAssumption DEF Scales
  <2>5. \A s \in passing' : s < scale' + RemainingWidth'
    BY <1>2, <1>3, <2>2, <2>4
  <2> QED BY <1>3, <2>5 DEF MaxInv, WidthInv, NearMaximalOnPrefix
<1>4. CASE stage' = "bisect" /\ lower' = 0 /\ upper' = Full
  <2>1. iteration' = 0
    BY DEF FullRequest, SInv, StageInv
  <2> QED BY <1>4, <2>1, HalvedFacts, SearchAssumption
      DEF MaxInv, WidthInv, NearMaximalOnPrefix, Done
<1> QED BY <1>3, <1>4 DEF FullRequest, Return

LEMMA SearchStepMax == ASSUME SInv, MaxInv, [Next]_vars PROVE MaxInv'
<1>1. CASE LoadOnly
  BY <1>1 DEF LoadOnly, MaxInv, WidthInv, NearMaximalOnPrefix, Done
<1>2. CASE ZeroExport
  <2>1. \/ stage' = "done" /\ (status' # Optimal \/ emptyRequest')
        \/ stage' = "fullRequest"
    BY <1>2 DEF ZeroExport, Return, given, Invalid, Optimal
  <2> QED BY <2>1 DEF MaxInv, WidthInv, NearMaximalOnPrefix, Done
<1>3. CASE FullRequest
  BY <1>3, FullRequestMax
<1>4. CASE Bisect
  <2>1. stage' = "bisect"
    BY <1>4 DEF Bisect
  <2> QED BY <1>4, <2>1, BisectWidth DEF MaxInv, NearMaximalOnPrefix, Done
<1>5. CASE Finish
  <2>1. stage' = "done"
    BY <1>5 DEF Finish, Return
  <2> QED BY <1>5, <2>1, FinishNearMaximal DEF MaxInv, WidthInv
<1>6. CASE UNCHANGED vars
  BY <1>6 DEF vars, given, result, MaxInv, WidthInv, NearMaximalOnPrefix, Done,
              PassingIsPrefix, RemainingWidth
<1> QED BY <1>1, <1>2, <1>3, <1>4, <1>5, <1>6 DEF Next

(* Where the passing scales are a prefix, no scale passes that exceeds the *)
(* result by the tolerance, or by the width the budget leaves.             *)
THEOREM ResultIsNearMaximal == Spec => []NearMaximalOnPrefix
<1>1. Init => MaxInv
  BY DEF Init, MaxInv, WidthInv, NearMaximalOnPrefix, Done
<1>2. SInv /\ MaxInv /\ [Next]_vars => MaxInv'
  BY SearchStepMax
<1>3. MaxInv => NearMaximalOnPrefix
  BY DEF MaxInv
<1> QED BY <1>1, <1>2, <1>3, SearchInvariant, PTL DEF Spec

-----------------------------------------------------------------------------
(***************************************************************************)
(* What makes the search return, whose fairness is beyond this prover: a   *)
(* natural that every step lowers.  It also bounds the power flows.        *)
(***************************************************************************)
StepsLeft ==
  CASE stage = "loadOnly" -> budget + 4
    [] stage = "zeroExport" -> budget + 3
    [] stage = "fullRequest" -> budget + 2
    [] stage = "bisect" -> (budget - iteration) + 1
    [] stage = "done" -> 0

\* Three solves and one per halving.
FlowsBounded == flows <= budget + 3

FlowsPerStage ==
  /\ stage = "loadOnly" => flows = 0
  /\ stage = "zeroExport" => flows = 1
  /\ stage = "fullRequest" => flows = 2
  /\ stage = "bisect" => flows = 3 + iteration
  /\ stage = "done" => flows <= 3 + iteration

StepsLeftCases ==
  /\ StepsLeft \in Nat
  /\ stage = "loadOnly" => StepsLeft = budget + 4
  /\ stage = "zeroExport" => StepsLeft = budget + 3
  /\ stage = "fullRequest" => StepsLeft = budget + 2
  /\ stage = "bisect" => StepsLeft = (budget - iteration) + 1
  /\ stage = "done" => StepsLeft = 0

LEMMA StepsLeftFacts == SInv => StepsLeftCases
<1> SUFFICES ASSUME SInv PROVE StepsLeftCases
  OBVIOUS
<1>1. budget \in Nat /\ iteration \in 0 .. budget
  BY SearchAssumption DEF SInv, TypeOK
<1>2. stage \in {"loadOnly", "zeroExport", "fullRequest", "bisect", "done"}
  BY DEF SInv, TypeOK
<1> QED BY <1>1, <1>2 DEF StepsLeft, StepsLeftCases

LEMMA NextShortens == ASSUME SInv, SInv', Next PROVE StepsLeft' < StepsLeft
<1>1. budget' = budget
  BY DEF Next, LoadOnly, ZeroExport, FullRequest, Bisect, Finish, given
<1>2. StepsLeftCases /\ StepsLeftCases'
  BY StepsLeftFacts, PTL
<1> HIDE DEF StepsLeft
<1>3. PICK before \in Nat : before = StepsLeft
  BY <1>2 DEF StepsLeftCases
<1>4. PICK after \in Nat : after = StepsLeft'
  BY <1>2 DEF StepsLeftCases
<1>5. budget \in Nat /\ iteration \in 0 .. budget
  BY SearchAssumption DEF SInv, TypeOK
<1>6. after < before
  <2>1. CASE LoadOnly
    <3>1. before = budget + 4 /\ after = budget + 3
      BY <1>2, <1>3, <1>4, <2>1, <1>1 DEF StepsLeftCases, LoadOnly
    <3> QED BY <1>5, <3>1
  <2>2. CASE ZeroExport
    <3>1. before = budget + 3 /\ (after = 0 \/ after = budget + 2)
      BY <1>2, <1>3, <1>4, <2>2, <1>1 DEF StepsLeftCases, ZeroExport, Return
    <3> QED BY <1>5, <3>1
  <2>3. CASE FullRequest
    <3>1. iteration' = 0
      BY <2>3 DEF FullRequest, SInv, StageInv
    <3>2. before = budget + 2 /\ (after = 0 \/ after = (budget - 0) + 1)
      BY <1>2, <1>3, <1>4, <2>3, <3>1, <1>1 DEF StepsLeftCases, FullRequest, Return
    <3> QED BY <1>5, <3>2
  <2>4. CASE Bisect
    <3>1. /\ before = (budget - iteration) + 1
          /\ after = (budget - iteration') + 1 /\ iteration' = iteration + 1
      BY <1>2, <1>3, <1>4, <2>4, <1>1 DEF StepsLeftCases, Bisect
    <3> QED BY <1>5, <3>1
  <2>5. CASE Finish
    <3>1. before = (budget - iteration) + 1 /\ after = 0
      BY <1>2, <1>3, <1>4, <2>5, <1>1 DEF StepsLeftCases, Finish, Return
    <3> QED BY <1>5, <3>1
  <2> QED BY <2>1, <2>2, <2>3, <2>4, <2>5 DEF Next
<1> QED BY <1>3, <1>4, <1>6

LEMMA FlowsStep ==
  ASSUME SInv, FlowsPerStage, [Next]_vars PROVE FlowsPerStage'
<1>1. flows \in Nat /\ iteration \in Nat
  BY SearchAssumption DEF SInv, TypeOK
<1>2. CASE LoadOnly
  BY <1>2 DEF LoadOnly, FlowsPerStage
<1>3. CASE ZeroExport
  <2>1. flows' = 2 /\ iteration' = iteration /\ stage' \in {"done", "fullRequest"}
    BY <1>3 DEF ZeroExport, Solve, Return, FlowsPerStage
  <2>2. iteration = 0 \/ iteration > 0
    BY <1>1
  <2> QED BY <1>1, <2>1 DEF FlowsPerStage
<1>4. CASE FullRequest
  <2>1. flows' = 3 /\ iteration' = 0 /\ stage' \in {"done", "bisect"}
    BY <1>4 DEF FullRequest, Solve, Return, FlowsPerStage, SInv, StageInv
  <2> QED BY <2>1 DEF FlowsPerStage
<1>5. CASE Bisect
  <2>1. /\ flows' = flows + 1 /\ flows = 3 + iteration
        /\ iteration' = iteration + 1 /\ stage' = "bisect"
    BY <1>5 DEF Bisect, Solve, FlowsPerStage
  <2> QED BY <1>1, <2>1 DEF FlowsPerStage
<1>6. CASE Finish
  <2>1. flows' = flows /\ flows = 3 + iteration /\ iteration' = iteration
        /\ stage' = "done"
    BY <1>6 DEF Finish, Return, FlowsPerStage
  <2> QED BY <1>1, <2>1 DEF FlowsPerStage
<1>7. CASE UNCHANGED vars
  BY <1>7 DEF vars, FlowsPerStage
<1> QED BY <1>2, <1>3, <1>4, <1>5, <1>6, <1>7 DEF Next

(* Every step of the search lowers a natural, so the loop is bounded by    *)
(* max_bisection_iterations whatever the network answers.                  *)
THEOREM SearchShortens ==
  Spec => /\ [](StepsLeft \in Nat)
          /\ [][StepsLeft' < StepsLeft]_vars
<1>1. SInv => StepsLeft \in Nat
  BY StepsLeftFacts DEF StepsLeftCases
<1>2. SInv /\ SInv' /\ [Next]_vars => [StepsLeft' < StepsLeft]_vars
  BY NextShortens
<1> QED BY <1>1, <1>2, SearchInvariant, PTL DEF Spec

(* A call makes at most max_bisection_iterations + 3 power flows.          *)
THEOREM FlowsAreBounded == Spec => []FlowsBounded
<1>1. Init => FlowsPerStage
  BY DEF Init, FlowsPerStage
<1>2. SInv /\ FlowsPerStage /\ [Next]_vars => FlowsPerStage'
  BY FlowsStep
<1>3. SInv /\ FlowsPerStage => FlowsBounded
  <2> SUFFICES ASSUME SInv, FlowsPerStage PROVE FlowsBounded
    OBVIOUS
  <2>1. /\ budget \in Nat /\ iteration \in 0 .. budget /\ flows \in Nat
        /\ stage \in {"loadOnly", "zeroExport", "fullRequest", "bisect", "done"}
    BY SearchAssumption DEF SInv, TypeOK
  <2> QED BY <2>1 DEF FlowsPerStage, FlowsBounded
<1> QED BY <1>1, <1>2, <1>3, SearchInvariant, PTL DEF Spec
=============================================================================
