-------------------------- MODULE RateDesign_proofs -------------------------
(***************************************************************************)
(* What the attestation of a RATE V4 freeze stands for, for every set of   *)
(* protocols, candidates, roots and cases, every answer of the AC solvers  *)
(* and any number of executions and commands.                              *)
(*                                                                         *)
(* The argument follows the chain of artefacts: RInv says of each file     *)
(* what the files that it was made from were, and the last links, from a   *)
(* selection to the execution whose records it used, rest on the equality  *)
(* of policies that QualityIsBound asks for.                               *)
(***************************************************************************)
EXTENDS RateDesign, FiniteSetTheorems, TLAPS

RowsTyped(rows) == rows \in [DOMAIN rows -> Flows]

SplitSound(s) == RolesAreSound(s.roles) /\ DesignRoots(s) \subseteq Roots

\* An anchor is the maximum of rows that cover the pairs of the split.
ObservationSound(o) ==
  /\ SplitSound(o.split)
  /\ BaselineCovers(o.baseline, o.split) /\ RowsTyped(o.baseline)
  /\ \A c \in Candidates :
       /\ DOMAIN o.reference.flow[c] = Pairs(o.split)
       /\ RowsTyped(o.reference.flow[c])
       /\ o.anchor[c] = Anchor(o.baseline, o.reference, c)

BundleSound(b) ==
  /\ ObservationSound(b.observation)
  /\ \E p \in Protocols : b = PolicyBundle(p, b.observation, b.case)

\* A result holds the records that its own solutions give to its own policies.
ResultSound(e) ==
  /\ e.case \in Cases
  /\ ObservationSound(e.observation)
  /\ \E p \in Protocols : e.bundle = PolicyBundle(p, e.observation, e.case)
  /\ DOMAIN e.quality = Candidates
  /\ \A c \in Candidates :
       e.quality[c] = QualityRecord(e.bundle.policies[c], physics[e.case].base,
                        physics[e.case].reference[c], physics[e.case].strategic)

\* The policy comes from a bundle, the records from an execution, and they
\* agree on the policy.
AttestationSound(a) ==
  \E e \in results, b \in bundles, c \in Candidates, p \in Protocols :
    /\ a.policy = [b.policies[c] EXCEPT !.status = "FROZEN_PRE_SOURCE_SCENARIO_INPUT"]
    /\ a.split = b.split
    /\ a.protocol = p
    /\ a.selection.quality = e.quality
    /\ e.quality[c].policy = b.policies[c]
    /\ Eligible(p, e.quality[c])

ExecutionSound ==
  phase # "idle" =>
    SplitSound(ask.split) /\ ask.protocol \in Protocols /\ ask.case \in Cases

RInv ==
  /\ physics \in Physics
  /\ \A i \in inputs : i.roster \in Rosters
  /\ \A s \in splits : SplitSound(s)
  /\ \A e \in blocked : RowsTyped(e.baseline)
  /\ \A o \in observations : ObservationSound(o)
  /\ \A b \in bundles : BundleSound(b)
  /\ \A e \in results : ResultSound(e)
  /\ \A a \in attestations : AttestationSound(a)
  /\ ExecutionSound

-----------------------------------------------------------------------------
(* A nonempty finite set of integers has a largest element: the sets of    *)
(* what lies above an element are well-founded under inclusion.            *)
LEMMA MaxFacts ==
  ASSUME NEW S \in SUBSET Int, IsFiniteSet(S), S # {}
  PROVE  Max(S) \in S /\ \A y \in S : y <= Max(S)
<1> DEFINE above(x) == {y \in S : y > x}
           T == {above(x) : x \in S}
           R == StrictSubsetOrdering(S)
<1>1. T \subseteq FiniteSubsetsOf(S) /\ T # {}
  <2>1. ASSUME NEW x \in S PROVE above(x) \in SUBSET S /\ IsFiniteSet(above(x))
    <3> DEFINE A == above(x)
    <3>1. A \in SUBSET S
      OBVIOUS
    <3> HIDE DEF A
    <3>2. IsFiniteSet(A)
      BY <3>1, FS_Subset
    <3> QED BY <3>1, <3>2 DEF A
  <2> QED BY <2>1 DEF FiniteSubsetsOf
<1>2. IsWellFoundedOn(R, FiniteSubsetsOf(S))
  BY FS_StrictSubsetOrderingWellFounded
<1>3. PICK U \in T : \A V \in T : <<V, U>> \notin R
  <2> HIDE DEF T, R
  <2> QED BY <1>1, <1>2, WFMin
<1>4. PICK x \in S : U = above(x)
  OBVIOUS
<1>5. ASSUME NEW z \in S, z > x PROVE FALSE
  <2>1. /\ above(z) \in T
        /\ \A y \in above(z) : y \in above(x)
    BY <1>5
  <2>2. z \in above(x) /\ z \notin above(z)
    BY <1>5
  <2>3. <<above(z), above(x)>> \in R
    BY <2>1, <2>2 DEF StrictSubsetOrdering
  <2> QED BY <1>3, <1>4, <2>1, <2>3
<1>6. \A y \in S : x >= y
  BY <1>5
<1>7. Max(S) \in S /\ \A y \in S : Max(S) >= y
  BY <1>6 DEF Max
<1> QED BY <1>7

(* Design roots and Q modes are finitely many, and at least one pair.      *)
LEMMA PairsFacts ==
  ASSUME NEW s, SplitSound(s)
  PROVE  /\ Pairs(s) \subseteq Roots \X QModes
         /\ IsFiniteSet(Pairs(s))
         /\ Pairs(s) # {}
<1>1. IsFiniteSet(Roots \X QModes)
  BY GroundworkAssumption, FS_Product
<1>2. Pairs(s) \subseteq Roots \X QModes
  BY DEF Pairs, SplitSound
<1>3. Pairs(s) # {}
  <2>1. PICK q \in QModes : TRUE
    BY GroundworkAssumption
  <2>2. PICK r \in DesignRoots(s) : TRUE
    BY DEF SplitSound, DesignRoots, RolesAreSound, Roles
  <2>3. <<r, q>> \in Pairs(s)
    BY DEF Pairs
  <2> QED BY <2>3
<1> QED BY <1>1, <1>2, <1>3, FS_Subset

(* The flows of a covering table are a nonempty finite set of naturals.    *)
LEMMA FlowsFacts ==
  ASSUME NEW s, SplitSound(s), NEW rows, DOMAIN rows = Pairs(s), RowsTyped(rows)
  PROVE  FlowsOf(rows) \in SUBSET Nat /\ IsFiniteSet(FlowsOf(rows)) /\ FlowsOf(rows) # {}
<1>1. FlowsOf(rows) \subseteq Flows /\ Flows \subseteq Nat
  BY DEF FlowsOf, RowsTyped, Flows
<1>2. IsFiniteSet(Flows)
  BY GroundworkAssumption, FS_Interval DEF Flows
<1>3. FlowsOf(rows) # {}
  BY PairsFacts DEF FlowsOf
<1> QED BY <1>1, <1>2, <1>3, FS_Subset

(* A rate is never below the anchor that it is made from.                  *)
LEMMA RateAboveAnchor ==
  ASSUME NEW p \in Protocols, NEW c \in Candidates, NEW a \in Nat
  PROVE  Rate(p, c, a) \in Nat /\ a <= Rate(p, c, a)
<1> DEFINE h == p.headroom[c]
           scaled == (a * (100 + h)) \div 100
<1>1. h \in Nat /\ p.minimum[c] \in Nat
  BY GroundworkAssumption DEF ProtocolRecords
<1>2. scaled \in Nat /\ a <= scaled
  <2> HIDE DEF h
  <2>1. a * (100 + h) = 100 * a + a * h /\ a * h \in Nat
    BY <1>1
  <2> QED BY <2>1, <1>1
<1> DEFINE S == {p.minimum[c], scaled}
<1>3. S \in SUBSET Int /\ S # {} /\ scaled \in S /\ S \subseteq Nat
  BY <1>1, <1>2
<1>4. IsFiniteSet(S)
  <2>1. S = {p.minimum[c]} \cup {scaled}
    OBVIOUS
  <2>2. IsFiniteSet({p.minimum[c]})
    BY FS_Singleton
  <2> QED BY <2>1, <2>2, FS_AddElement
<1>5. Rate(p, c, a) = Max(S)
  BY DEF Rate
<1> HIDE DEF S, scaled
<1>6. Max(S) \in S /\ scaled <= Max(S)
  BY <1>3, <1>4, MaxFacts
<1>7. Rate(p, c, a) \in Nat /\ scaled <= Rate(p, c, a) /\ scaled \in Nat
  BY <1>2, <1>3, <1>5, <1>6
<1> QED BY <1>2, <1>7

-----------------------------------------------------------------------------
(***************************************************************************)
(* The deterministic split.                                                *)
(***************************************************************************)
(* The ranks of the roots of a roster are its positions, each taken once.  *)
LEMMA RanksArePositions ==
  ASSUME NEW p \in Protocols, NEW roster \in Rosters
  PROVE  /\ IsFiniteSet(roster.roots) /\ Cardinality(roster.roots) \in Nat
         /\ \A a \in roster.roots :
              RootRank(p, roster.roots, a) \in 0 .. Cardinality(roster.roots) - 1
         /\ \A k \in 0 .. Cardinality(roster.roots) - 1 :
              \E a \in roster.roots : RootRank(p, roster.roots, a) = k
<1> DEFINE R == roster.roots
           n == Cardinality(R)
           below(a) == {b \in R : RootDigest(p, b) < RootDigest(p, a)}
<1>1. R \subseteq Roots
  BY DesignAssumption
<1>2. IsFiniteSet(R) /\ n \in Nat
  BY <1>1, GroundworkAssumption, FS_Subset, FS_CardinalityType
<1>3. \A a \in R : RootRank(p, R, a) = Cardinality(below(a))
  BY DEF RootRank
<1>4. \A a, b \in R : /\ RootDigest(p, a) \in Nat
                      /\ RootDigest(p, a) = RootDigest(p, b) => a = b
  BY <1>1, DesignAssumption
<1> HIDE DEF R
<1>5. \A a \in R : /\ IsFiniteSet(below(a)) /\ Cardinality(below(a)) \in Nat
                   /\ a \notin below(a)
  BY <1>2, <1>4, FS_Subset, FS_CardinalityType
(* A smaller subset that misses an element of the larger one is smaller. *)
<1>6. ASSUME NEW S, NEW T, IsFiniteSet(T), S \subseteq T, NEW x \in T, x \notin S
      PROVE  Cardinality(S) < Cardinality(T)
  <2>1. /\ IsFiniteSet(S) /\ Cardinality(S) <= Cardinality(T)
        /\ Cardinality(T) = Cardinality(S) => T = S
    BY <1>6, FS_Subset
  <2>2. Cardinality(S) \in Nat /\ Cardinality(T) \in Nat
    BY <1>6, <2>1, FS_CardinalityType
  <2> QED BY <1>6, <2>1, <2>2
<1>7. ASSUME NEW a \in R PROVE Cardinality(below(a)) \in 0 .. n - 1
  <2>1. Cardinality(below(a)) < n
    BY <1>2, <1>5, <1>6
  <2>2. Cardinality(below(a)) \in Nat
    BY <1>5
  <2> HIDE DEF below, n
  <2> QED BY <1>2, <2>1, <2>2
<1>8. ASSUME NEW a \in R, NEW b \in R, RootDigest(p, a) < RootDigest(p, b)
      PROVE  Cardinality(below(a)) < Cardinality(below(b))
  <2>1. below(a) \subseteq below(b) /\ a \in below(b) /\ a \notin below(a)
    BY <1>4, <1>8
  <2> HIDE DEF below
  <2> QED BY <1>5, <1>6, <2>1
<1> DEFINE f == [a \in R |-> Cardinality(below(a))]
<1>9. f \in Injection(R, 0 .. n - 1)
  <2>1. f \in [R -> 0 .. n - 1]
    BY <1>7
  <2>2. ASSUME NEW a \in R, NEW b \in R, f[a] = f[b] PROVE a = b
    <3>1. ~(RootDigest(p, a) < RootDigest(p, b)) /\ ~(RootDigest(p, b) < RootDigest(p, a))
      <4>1. Cardinality(below(a)) = Cardinality(below(b)) /\ Cardinality(below(a)) \in Nat
        BY <1>5, <2>2
      <4> HIDE DEF below
      <4> QED BY <1>8, <4>1
    <3> QED BY <1>4, <3>1
  <2> QED BY <2>1, <2>2 DEF Injection, IsInjective
<1>10. IsFiniteSet(0 .. n - 1) /\ Cardinality(0 .. n - 1) = n
  BY <1>2, FS_Interval
<1>11. f \in Surjection(R, 0 .. n - 1)
  <2> HIDE DEF f
  <2> QED BY <1>9, <1>10, FS_Injection
<1>12. \A k \in 0 .. n - 1 : \E a \in R : Cardinality(below(a)) = k
  <2>1. \A k \in 0 .. n - 1 : \E a \in R : f[a] = k
    <3> HIDE DEF f
    <3> QED BY <1>11 DEF Surjection
  <2> QED BY <2>1
<1> HIDE DEF below
<1>13. \A a \in R : RootRank(p, R, a) \in 0 .. n - 1
  BY <1>3, <1>7
<1>14. \A k \in 0 .. n - 1 : \E a \in R : RootRank(p, R, a) = k
  BY <1>3, <1>12
<1> QED BY <1>2, <1>13, <1>14 DEF R

(* A root is in exactly one role, and a later role takes its turn.         *)
LEMMA RoleFacts ==
  ASSUME NEW p \in Protocols, NEW roster \in Rosters, NEW a \in roster.roots
  PROVE  RoleOf(p, roster, a) \in Roles
<1> DEFINE rank == RootRank(p, roster.roots, a)
           turn == 1 + ((rank - roster.count) % Len(LaterOrder))
<1>1. rank \in Nat /\ roster.count \in Nat
  BY RanksArePositions, DesignAssumption
<1>2. Len(LaterOrder) \in Nat \ {0}
  BY DesignAssumption
<1>3. CASE rank < roster.count
  BY <1>3 DEF RoleOf, Roles
<1>4. CASE ~(rank < roster.count)
  <2>1. RoleOf(p, roster, a) = LaterOrder[turn]
    BY <1>4 DEF RoleOf
  <2>2. turn \in 1 .. Len(LaterOrder)
    <3> HIDE DEF rank
    <3>1. rank - roster.count \in Nat
      BY <1>1, <1>4
    <3> QED BY <1>2, <3>1
  <2> HIDE DEF turn
  <2>3. LaterOrder[turn] \in LaterRoles
    BY <2>2, DesignAssumption
  <2> QED BY <2>1, <2>3 DEF Roles
<1> QED BY <1>3, <1>4

(***************************************************************************)
(* A sufficient roster is split soundly: every role has a root, no root    *)
(* has two roles or none, so that build_rate_design_root_split does not    *)
(* refuse what build_deterministic_rate_design_root_roles has made.        *)
(***************************************************************************)
THEOREM SufficientRosterSplits ==
  ASSUME NEW p \in Protocols, NEW roster \in Rosters, RosterIsSufficient(roster)
  PROVE  /\ RolesAreSound(DeterministicSplit(p, roster).roles)
         /\ roster.roots = UNION {DeterministicSplit(p, roster).roles[r] : r \in Roles}
<1> DEFINE roles == DeterministicSplit(p, roster).roles
           n == Cardinality(roster.roots)
           L == Len(LaterOrder)
<1>1. \A r \in Roles : roles[r] = {a \in roster.roots : RoleOf(p, roster, a) = r}
  BY DEF DeterministicSplit, RootSplit
<1>2. /\ n \in Nat /\ roster.count \in Nat \ {0} /\ L \in Nat \ {0}
      /\ roster.count + L <= n
  BY RanksArePositions, DesignAssumption DEF RosterIsSufficient
<1>3. \A k \in 0 .. n - 1 : \E a \in roster.roots : RootRank(p, roster.roots, a) = k
  BY RanksArePositions
<1> HIDE DEF roles, n, L
<1>4. roles["RATE_DESIGN"] # {}
  <2>1. PICK a \in roster.roots : RootRank(p, roster.roots, a) = 0
    BY <1>2, <1>3
  <2>2. RoleOf(p, roster, a) = "RATE_DESIGN"
    BY <1>2, <2>1 DEF RoleOf
  <2> QED BY <1>1, <2>2 DEF Roles
<1>5. ASSUME NEW r \in LaterRoles PROVE roles[r] # {}
  <2>1. PICK i \in 1 .. L : LaterOrder[i] = r
    BY DesignAssumption DEF ToSet, L
  <2>2. roster.count + (i - 1) \in 0 .. n - 1
    BY <1>2
  <2>3. PICK a \in roster.roots :
          RootRank(p, roster.roots, a) = roster.count + (i - 1)
    BY <1>3, <2>2
  <2>4. /\ ~(roster.count + (i - 1) < roster.count)
        /\ (roster.count + (i - 1)) - roster.count = i - 1
        /\ i - 1 \in 0 .. L - 1
    BY <1>2
  <2>5. (i - 1) % L = i - 1 /\ 1 + (i - 1) = i
    BY <1>2, <2>4
  <2>6. RoleOf(p, roster, a) = r
    BY <2>1, <2>3, <2>4, <2>5 DEF RoleOf, L
  <2> QED BY <1>1, <2>6 DEF Roles
<1>6. \A r, s \in Roles : r # s => roles[r] \cap roles[s] = {}
  BY <1>1
<1>7. roster.roots = UNION {roles[r] : r \in Roles}
  BY <1>1, RoleFacts
<1>8. RolesAreSound(roles)
  BY <1>4, <1>5, <1>6 DEF RolesAreSound, Roles
<1> QED BY <1>7, <1>8 DEF roles

(* Every role of the split is a set of roots of the roster.                *)
LEMMA SplitOfRoster ==
  ASSUME NEW p \in Protocols, NEW roster \in Rosters
  PROVE  SplitIsTyped(DeterministicSplit(p, roster))
<1>1. roster.roots \subseteq Roots
  BY DesignAssumption
<1> QED BY <1>1 DEF SplitIsTyped, DeterministicSplit, RootSplit

-----------------------------------------------------------------------------
(* Files are only added: what holds of a file stays true of it.            *)
LEMMA AttestationsStay ==
  ASSUME RInv, UNCHANGED physics, results \subseteq results', bundles \subseteq bundles',
         NEW a \in attestations
  PROVE  AttestationSound(a)'
<1>1. AttestationSound(a)
  BY DEF RInv
<1> QED BY <1>1 DEF AttestationSound

LEMMA ResultsStay ==
  ASSUME RInv, UNCHANGED physics, NEW e \in results
  PROVE  ResultSound(e)'
BY DEF RInv, ResultSound

LEMMA InitRInv == ASSUME Init PROVE RInv
BY DEF Init, RInv, ExecutionSound

(* A step that leaves files and physics alone keeps RInv, when the         *)
(* execution in progress stays sound.                                      *)
LEMMA FilesUntouched ==
  ASSUME RInv, UNCHANGED <<files, physics>>, ExecutionSound' PROVE RInv'
<1>1. \A a \in attestations : AttestationSound(a)'
  BY AttestationsStay DEF files
<1>2. \A e \in results : ResultSound(e)'
  BY ResultsStay
<1>3. \A s : SplitSound(s)' <=> SplitSound(s)
  BY DEF SplitSound, RolesAreSound, DesignRoots
<1> QED BY <1>1, <1>2, <1>3 DEF RInv, files

(* An observation made of rows that cover the split.                       *)
LEMMA AnchorSound ==
  ASSUME NEW p, NEW d, NEW s, SplitSound(s),
         NEW base, BaselineCovers(base, s), RowsTyped(base),
         NEW ref, \A c \in Candidates :
           DOMAIN ref.flow[c] = Pairs(s) /\ RowsTyped(ref.flow[c])
  PROVE  ObservationSound(AnchorObservation(p, d, s, base, ref))
BY DEF ObservationSound, AnchorObservation

LEMMA BeginSound ==
  ASSUME RInv, NEW p \in Protocols, NEW d \in Domains, NEW k \in Cases,
         NEW i \in inputs, Begin(p, d, k, i)
  PROVE  RInv'
<1> DEFINE s == DeterministicSplit(p, i.roster)
<1>1. /\ RolesAreSound(s.roles)
      /\ i.profiles = DesignRoots(s)
      /\ i.profiles \subseteq i.roster.roots
      /\ ask' = [protocol |-> p, domain |-> d, case |-> k, split |-> s]
      /\ UNCHANGED <<files, physics>>
  BY DEF Begin, InputIsValid
<1> HIDE DEF s
<1>2. i.roster.roots \subseteq Roots
  BY DesignAssumption DEF RInv
<1>3. ExecutionSound'
  BY <1>1, <1>2 DEF ExecutionSound, SplitSound
<1> QED BY <1>1, <1>3, FilesUntouched

LEMMA LeaveSound ==
  ASSUME RInv, Leave, UNCHANGED <<files, physics>> PROVE RInv'
<1>1. ExecutionSound'
  BY DEF Leave, ExecutionSound
<1> QED BY <1>1, FilesUntouched

LEMMA BaselineSound == ASSUME RInv, Baseline PROVE RInv'
<1>1. CASE Leave
  BY <1>1, LeaveSound DEF Baseline
<1>2. CASE UNCHANGED ask
  <2>1. ExecutionSound'
    BY <1>2 DEF Baseline, ExecutionSound, RInv
  <2> QED BY <2>1, FilesUntouched DEF Baseline
<1> QED BY <1>1, <1>2 DEF Baseline

(* The rows of an execution cover the pairs of its split.                  *)
LEMMA RowsFacts ==
  ASSUME RInv, phase # "idle", NEW f \in [Roots \X QModes -> Solutions]
  PROVE  DOMAIN RowFlows(f) = Pairs(ask.split) /\ RowsTyped(RowFlows(f))
<1>1. Pairs(ask.split) \subseteq Roots \X QModes
  BY PairsFacts DEF RInv, ExecutionSound
<1>2. \A x \in Pairs(ask.split) : f[x].flow \in Flows
  BY <1>1 DEF Solutions
<1> QED BY <1>2 DEF RowFlows, RowsTyped

LEMMA OutcomeFacts ==
  ASSUME RInv, phase # "idle"
  PROVE  /\ Now.base \in [Roots \X QModes -> Solutions]
         /\ Now.strategic \in [Roots \X QModes -> Solutions]
         /\ \A c \in Candidates : Now.reference[c] \in [Roots \X QModes -> Solutions]
<1>1. Now \in Outcomes
  BY DesignAssumption DEF RInv, ExecutionSound, Now
<1> QED BY <1>1 DEF Outcomes

LEMMA ReferenceSound == ASSUME RInv, NEW c \in Candidates, Reference(c) PROVE RInv'
<1>1. CASE UNCHANGED <<ask, blocked>>
  <2>1. ExecutionSound'
    BY <1>1 DEF Reference, ExecutionSound, RInv
  <2> QED BY <1>1, <2>1, FilesUntouched DEF Reference, files
<1>2. CASE Leave /\ blocked' = blocked \cup {BlockedExecution}
  <2>1. phase # "idle" /\ UNCHANGED <<inputs, splits, results, observations, bundles,
                                      attestations, physics>>
    BY DEF Reference
  <2>2. RowsTyped(BlockedExecution.baseline)
    BY <2>1, OutcomeFacts, RowsFacts DEF BlockedExecution, BaselineRows
  <2>3. \A e \in blocked' : RowsTyped(e.baseline)
    BY <1>2, <2>2 DEF RInv
  <2>4. ExecutionSound'
    BY <1>2 DEF Leave, ExecutionSound
  <2>5. \A a \in attestations : AttestationSound(a)'
    BY <2>1, AttestationsStay
  <2>6. \A e \in results : ResultSound(e)'
    BY <2>1, ResultsStay
  <2> QED BY <2>1, <2>3, <2>4, <2>5, <2>6 DEF RInv
<1> QED BY <1>1, <1>2 DEF Reference

LEMMA CompleteSound == ASSUME RInv, Complete PROVE RInv'
<1> DEFINE o == AnchorObservation(ask.protocol, ask.domain, ask.split,
                                  BaselineRows, ReferenceRows)
           b == PolicyBundle(ask.protocol, o, ask.case)
           quality == [c \in Candidates |->
                         QualityRecord(b.policies[c], Now.base, Now.reference[c],
                                       Now.strategic)]
           e == [case |-> ask.case, observation |-> o, bundle |-> b,
                 quality |-> quality]
<1>1. /\ phase # "idle"
      /\ results' = results \cup {e}
      /\ splits' = splits \cup {ask.split}
      /\ observations' = observations \cup {o}
      /\ bundles' = bundles \cup {b}
      /\ Leave
      /\ UNCHANGED <<inputs, blocked, attestations, physics>>
  BY DEF Complete
<1>2. SplitSound(ask.split) /\ ask.protocol \in Protocols /\ ask.case \in Cases
  BY <1>1 DEF RInv, ExecutionSound
<1>3. ObservationSound(o)
  <2>1. BaselineCovers(BaselineRows, ask.split) /\ RowsTyped(BaselineRows)
    BY <1>1, OutcomeFacts, RowsFacts DEF BaselineRows, BaselineCovers
  <2>2. \A c \in Candidates : /\ DOMAIN ReferenceRows.flow[c] = Pairs(ask.split)
                              /\ RowsTyped(ReferenceRows.flow[c])
    BY <1>1, OutcomeFacts, RowsFacts DEF ReferenceRows
  <2> QED BY <1>2, <2>1, <2>2, AnchorSound
<1>4. BundleSound(b)
  <2>1. b.observation = o /\ b.case = ask.case
    BY DEF PolicyBundle
  <2> QED BY <1>2, <1>3, <2>1 DEF BundleSound
<1>5. ResultSound(e)
  BY <1>2, <1>3 DEF ResultSound, Now
<1> HIDE DEF o, b, quality, e
<1>6. \A r \in results' : ResultSound(r)'
  <2>1. PICK r : r = e
    OBVIOUS
  <2>2. ResultSound(r)'
    BY <1>1, <1>5, <2>1 DEF ResultSound
  <2> QED BY <1>1, <2>1, <2>2, ResultsStay
<1>7. \A a \in attestations : AttestationSound(a)'
  BY <1>1, AttestationsStay
<1>8. ExecutionSound'
  BY <1>1 DEF Leave, ExecutionSound
<1>9. /\ \A s \in splits' : SplitSound(s)
      /\ \A x \in observations' : ObservationSound(x)
      /\ \A x \in bundles' : BundleSound(x)
      /\ \A x \in blocked' : RowsTyped(x.baseline)
      /\ \A i \in inputs' : i.roster \in Rosters
      /\ physics' \in Physics
  BY <1>1, <1>2, <1>3, <1>4 DEF RInv
<1> QED BY <1>1, <1>6, <1>7, <1>8, <1>9 DEF RInv

LEMMA BuildInputSound ==
  ASSUME RInv, NEW p \in Protocols, NEW r \in Rosters, BuildInput(p, r)
  PROVE  RInv'
<1>1. UNCHANGED <<splits, results, blocked, observations, bundles, attestations,
                  phase, ask, physics>>
  BY DEF BuildInput, execution
<1>2. \A i \in inputs' : i.roster \in Rosters
  BY DEF BuildInput, ExecutionInput, RInv
<1>3. \A a \in attestations : AttestationSound(a)'
  BY <1>1, AttestationsStay
<1>4. \A e \in results : ResultSound(e)'
  BY <1>1, ResultsStay
<1>5. ExecutionSound'
  BY <1>1 DEF RInv, ExecutionSound
<1> QED BY <1>1, <1>2, <1>3, <1>4, <1>5 DEF RInv

LEMMA BuildSplitSound ==
  ASSUME RInv, NEW p \in Protocols, NEW f \in RoleFiles, BuildSplit(p, f)
  PROVE  RInv'
<1>1. UNCHANGED <<inputs, results, blocked, observations, bundles, attestations,
                  phase, ask, physics>>
  BY DEF BuildSplit, execution
<1>2. SplitSound(RootSplit(p, f))
  BY DesignAssumption DEF BuildSplit, SplitSound, RootSplit, DesignRoots, Roles
<1>3. \A s \in splits' : SplitSound(s)
  BY <1>2 DEF BuildSplit, RInv
<1>4. \A a \in attestations : AttestationSound(a)'
  BY <1>1, AttestationsStay
<1>5. \A e \in results : ResultSound(e)'
  BY <1>1, ResultsStay
<1>6. ExecutionSound'
  BY <1>1 DEF RInv, ExecutionSound
<1> QED BY <1>1, <1>3, <1>4, <1>5, <1>6 DEF RInv

LEMMA BuildAnchorSound ==
  ASSUME RInv, NEW p \in Protocols, NEW d \in Domains, NEW s \in splits,
         NEW base \in BaselineFiles, NEW e \in results,
         BuildAnchor(p, d, s, base, e.observation.reference)
  PROVE  RInv'
<1> DEFINE ref == e.observation.reference
           o == AnchorObservation(p, d, s, base, ref)
<1>1. /\ UNCHANGED <<inputs, splits, results, blocked, bundles, attestations,
                     phase, ask, physics>>
      /\ observations' = observations \cup {o}
      /\ BaselineCovers(base, s)
      /\ \A c \in Candidates : DOMAIN ref.flow[c] = Pairs(s)
  BY DEF BuildAnchor, execution, ReferenceCovers
<1>2. RowsTyped(base)
  BY DEF BaselineFiles, RInv, ResultSound, ObservationSound
<1>3. \A c \in Candidates : RowsTyped(ref.flow[c])
  BY DEF RInv, ResultSound, ObservationSound
<1>4. ObservationSound(o)
  BY <1>1, <1>2, <1>3, AnchorSound DEF RInv
<1> HIDE DEF o, ref
<1>5. \A x \in observations' : ObservationSound(x)
  BY <1>1, <1>4 DEF RInv
<1>6. \A a \in attestations : AttestationSound(a)'
  BY <1>1, AttestationsStay
<1>7. \A r \in results : ResultSound(r)'
  BY <1>1, ResultsStay
<1>8. ExecutionSound'
  BY <1>1 DEF RInv, ExecutionSound
<1> QED BY <1>1, <1>5, <1>6, <1>7, <1>8 DEF RInv

LEMMA BuildPoliciesSound ==
  ASSUME RInv, NEW p \in Protocols, NEW d \in Domains, NEW k \in Cases,
         NEW s \in splits, NEW o \in observations, BuildPolicies(p, d, s, o, k)
  PROVE  RInv'
<1> DEFINE b == PolicyBundle(p, o, k)
<1>1. /\ UNCHANGED <<inputs, splits, results, blocked, observations, attestations,
                     phase, ask, physics>>
      /\ bundles' = bundles \cup {b}
  BY DEF BuildPolicies, execution
<1>2. BundleSound(b)
  <2>1. b.observation = o /\ b.case = k
    BY DEF PolicyBundle
  <2> QED BY <2>1 DEF BundleSound, RInv
<1> HIDE DEF b
<1>3. \A x \in bundles' : BundleSound(x)
  BY <1>1, <1>2 DEF RInv
<1>4. \A a \in attestations : AttestationSound(a)'
  BY <1>1, AttestationsStay
<1>5. \A r \in results : ResultSound(r)'
  BY <1>1, ResultsStay
<1>6. ExecutionSound'
  BY <1>1 DEF RInv, ExecutionSound
<1> QED BY <1>1, <1>3, <1>4, <1>5, <1>6 DEF RInv

LEMMA SelectFreezeSound ==
  ASSUME RInv, NEW p \in Protocols, NEW d \in Domains, NEW s \in splits,
         NEW o \in observations, NEW b \in bundles, NEW e \in results,
         SelectFreeze(p, d, s, o, b, e.quality)
  PROVE  RInv'
<1> DEFINE chosen == Selection(p, s, b, e.quality)
<1>1. /\ UNCHANGED <<inputs, splits, results, blocked, observations, bundles,
                     phase, ask, physics>>
      /\ SelectionIsBound(p, s, b)
      /\ QualityIsBound(e.quality, b, s)
  BY DEF SelectFreeze, execution
<1>2. ASSUME NEW c \in chosen.selected
      PROVE  AttestationSound(Attestation(p, d, o, chosen, c))
  <2> DEFINE a == Attestation(p, d, o, chosen, c)
  <2>1. c \in Candidates /\ Eligible(p, e.quality[c])
    BY <1>2 DEF Selection, Winner
  <2>2. e.quality[c].policy = b.policies[c]
    BY <1>1, <2>1 DEF QualityIsBound
  <2>3. b.split = s
    BY <1>1 DEF SelectionIsBound
  <2>4. /\ a.policy = [b.policies[c] EXCEPT !.status = "FROZEN_PRE_SOURCE_SCENARIO_INPUT"]
        /\ a.split = s
        /\ a.protocol = p
        /\ a.selection.quality = e.quality
    BY DEF Attestation, Selection
  <2> HIDE DEF a
  <2>5. AttestationSound(a)
    BY <2>1, <2>2, <2>3, <2>4 DEF AttestationSound
  <2> QED BY <2>5 DEF a
<1>3. \A a \in attestations' : AttestationSound(a)
  <2>1. \/ UNCHANGED attestations
        \/ \E c \in chosen.selected :
             attestations' = attestations \cup {Attestation(p, d, o, chosen, c)}
    BY DEF SelectFreeze
  <2> HIDE DEF chosen
  <2> QED BY <1>2, <2>1 DEF RInv
<1>4. \A a \in attestations' : AttestationSound(a)'
  BY <1>1, <1>3 DEF AttestationSound
<1>5. \A r \in results : ResultSound(r)'
  BY <1>1, ResultsStay
<1>6. ExecutionSound'
  BY <1>1 DEF RInv, ExecutionSound
<1> QED BY <1>1, <1>4, <1>5, <1>6 DEF RInv

LEMMA NextRInv == ASSUME RInv, [Next]_vars PROVE RInv'
<1>1. CASE Execute
  <2>1. CASE Kill
    BY <2>1, LeaveSound DEF Kill
  <2> QED BY <1>1, <2>1, BeginSound, BaselineSound, ReferenceSound, CompleteSound
          DEF Execute
<1>2. CASE Operate
  <2>1. PICK p \in Protocols :
          \/ \E r \in Rosters : BuildInput(p, r)
          \/ \E f \in RoleFiles : BuildSplit(p, f)
          \/ \E d \in Domains, s \in splits :
               \/ \E b \in BaselineFiles, e \in results :
                    BuildAnchor(p, d, s, b, e.observation.reference)
               \/ \E o \in observations :
                    \/ \E k \in Cases : BuildPolicies(p, d, s, o, k)
                    \/ \E b \in bundles, e \in results :
                         SelectFreeze(p, d, s, o, b, e.quality)
    BY <1>2 DEF Operate
  <2> QED BY <2>1, BuildInputSound, BuildSplitSound, BuildAnchorSound,
             BuildPoliciesSound, SelectFreezeSound
<1>3. CASE UNCHANGED vars
  <2>1. UNCHANGED <<files, physics>> /\ UNCHANGED execution
    BY <1>3 DEF vars
  <2>2. ExecutionSound'
    BY <2>1 DEF RInv, ExecutionSound, execution
  <2> QED BY <2>1, <2>2, FilesUntouched
<1> QED BY <1>1, <1>2, <1>3 DEF Next

(* Every artefact on disk is what its builder makes of sound artefacts.    *)
THEOREM ArtefactsAreSound == Spec => []RInv
<1>1. Init => RInv
  BY InitRInv
<1>2. RInv /\ [Next]_vars => RInv'
  BY NextRInv
<1> QED BY <1>1, <1>2, PTL DEF Spec

-----------------------------------------------------------------------------
(***************************************************************************)
(* Types.  What the execution in progress asks for is typed as what it     *)
(* will write.                                                             *)
(***************************************************************************)
AskTyped ==
  phase # "idle" =>
    /\ ask.protocol \in Protocols /\ ask.domain \in Domains /\ ask.case \in Cases
    /\ SplitIsTyped(ask.split) /\ RolesAreSound(ask.split.roles)

TInv == TypeOK /\ AskTyped

ProgressTyped ==
  /\ phase \in {"idle", "baseline", "reference", "quality"}
  /\ phase = "idle" <=> ask = Idle
  /\ certified \subseteq Candidates
  /\ executions \in 0 .. MaxExecutions
  /\ commands \in 0 .. MaxCommands

(* An anchor is one of the flows it was made from.                         *)
LEMMA AnchorIsFlow ==
  ASSUME NEW o, ObservationSound(o), NEW c \in Candidates
  PROVE  o.anchor[c] \in Flows
<1> DEFINE A == FlowsOf(o.baseline)
           B == FlowsOf(o.reference.flow[c])
<1>1. /\ SplitSound(o.split)
      /\ DOMAIN o.baseline = Pairs(o.split) /\ RowsTyped(o.baseline)
      /\ DOMAIN o.reference.flow[c] = Pairs(o.split)
      /\ RowsTyped(o.reference.flow[c])
      /\ o.anchor[c] = Max(A \cup B)
  BY DEF ObservationSound, BaselineCovers, Anchor
<1>2. A \subseteq Flows /\ B \subseteq Flows
  BY <1>1 DEF FlowsOf, RowsTyped
<1>3. A \in SUBSET Nat /\ IsFiniteSet(A) /\ A # {} /\ IsFiniteSet(B)
  BY <1>1, FlowsFacts
<1> HIDE DEF A, B
<1>4. A \cup B \in SUBSET Int /\ A \cup B # {}
  BY <1>2, <1>3 DEF Flows
<1>5. IsFiniteSet(A \cup B)
  BY <1>3, FS_Union
<1>6. Max(A \cup B) \in A \cup B
  BY <1>4, <1>5, MaxFacts
<1> QED BY <1>1, <1>2, <1>6

LEMMA InitTyped == ASSUME Init PROVE TInv
BY DesignAssumption DEF Init, TInv, TypeOK, AskTyped

(* A step that leaves files alone keeps their types. *)
LEMMA FilesStayTyped ==
  ASSUME TInv, UNCHANGED files, ProgressTyped', AskTyped' PROVE TInv'
BY DEF TInv, TypeOK, ProgressTyped, files, SplitIsTyped, RolesAreSound

LEMMA LeaveTyped ==
  ASSUME TInv, Leave, UNCHANGED <<executions, commands>>
  PROVE  ProgressTyped' /\ AskTyped'
BY DEF Leave, TInv, TypeOK, ProgressTyped, AskTyped

LEMMA BeginTyped ==
  ASSUME TInv, NEW p \in Protocols, NEW d \in Domains, NEW k \in Cases,
         NEW i \in inputs, Begin(p, d, k, i)
  PROVE  TInv'
<1> DEFINE s == DeterministicSplit(p, i.roster)
<1>1. /\ ask' = [protocol |-> p, domain |-> d, case |-> k, split |-> s]
      /\ RolesAreSound(s.roles)
      /\ phase = "idle" /\ phase' = "baseline"
      /\ executions < MaxExecutions /\ executions' = executions + 1
      /\ UNCHANGED <<files, certified, commands>>
  BY DEF Begin
<1>2. SplitIsTyped(s)
  BY SplitOfRoster DEF TInv, TypeOK
<1> HIDE DEF s
<1>3. ask' # Idle
  <2>1. DOMAIN ask' # DOMAIN Idle
    BY <1>1 DEF Idle
  <2> QED BY <2>1
<1>4. executions' \in 0 .. MaxExecutions
  BY <1>1, DesignAssumption DEF TInv, TypeOK
<1>5. ProgressTyped'
  BY <1>1, <1>3, <1>4 DEF TInv, TypeOK, ProgressTyped
<1>6. AskTyped'
  BY <1>1, <1>2 DEF AskTyped, SplitIsTyped, RolesAreSound
<1> QED BY <1>1, <1>5, <1>6, FilesStayTyped

LEMMA BaselineTyped == ASSUME TInv, Baseline PROVE TInv'
<1>1. CASE Leave
  BY <1>1, LeaveTyped, FilesStayTyped DEF Baseline
<1>2. CASE phase' = "reference" /\ UNCHANGED <<ask, certified>>
  <2>1. ProgressTyped' /\ AskTyped'
    BY <1>2 DEF Baseline, TInv, TypeOK, ProgressTyped, AskTyped
  <2> QED BY <2>1, FilesStayTyped DEF Baseline
<1> QED BY <1>1, <1>2 DEF Baseline

LEMMA ReferenceTyped == ASSUME TInv, NEW c \in Candidates, Reference(c) PROVE TInv'
<1>1. CASE UNCHANGED <<ask, blocked>> /\ certified' = certified \cup {c}
           /\ phase' \in {phase, "quality"}
  <2>1. phase = "reference" /\ UNCHANGED <<files, executions, commands>>
    BY <1>1 DEF Reference, files
  <2>2. ProgressTyped' /\ AskTyped'
    BY <1>1, <2>1 DEF TInv, TypeOK, ProgressTyped, AskTyped
  <2> QED BY <2>1, <2>2, FilesStayTyped
<1>2. CASE Leave /\ blocked' = blocked \cup {BlockedExecution}
  <2>1. /\ phase = "reference"
        /\ UNCHANGED <<inputs, splits, results, observations, bundles, executions,
                       commands>>
    BY DEF Reference
  <2>2. ProgressTyped' /\ AskTyped'
    BY <1>2, <2>1, LeaveTyped
  <2>3. SplitIsTyped(BlockedExecution.split) /\ BlockedExecution.observation = "none"
    BY <2>1 DEF BlockedExecution, TInv, AskTyped
  <2>4. \A e \in blocked' : SplitIsTyped(e.split) /\ e.observation = "none"
    BY <1>2, <2>3 DEF TInv, TypeOK
  <2> QED BY <2>1, <2>2, <2>4 DEF TInv, TypeOK, ProgressTyped
<1> QED BY <1>1, <1>2 DEF Reference

LEMMA CompleteTyped == ASSUME RInv, RInv', TInv, Complete PROVE TInv'
<1> DEFINE o == AnchorObservation(ask.protocol, ask.domain, ask.split,
                                  BaselineRows, ReferenceRows)
           b == PolicyBundle(ask.protocol, o, ask.case)
           quality == [c \in Candidates |->
                         QualityRecord(b.policies[c], Now.base, Now.reference[c],
                                       Now.strategic)]
           e == [case |-> ask.case, observation |-> o, bundle |-> b,
                 quality |-> quality]
<1>1. /\ phase # "idle"
      /\ results' = results \cup {e}
      /\ splits' = splits \cup {ask.split}
      /\ observations' = observations \cup {o}
      /\ bundles' = bundles \cup {b}
      /\ Leave
      /\ UNCHANGED <<inputs, blocked, executions, commands>>
  BY DEF Complete
<1>2. /\ ask.domain \in Domains /\ ask.case \in Cases
      /\ SplitIsTyped(ask.split) /\ RolesAreSound(ask.split.roles)
  BY <1>1 DEF TInv, AskTyped
<1>3. /\ o.split = ask.split /\ o.domain = ask.domain
      /\ DOMAIN o.anchor = Candidates /\ o.anchor = [c \in Candidates |-> o.anchor[c]]
  BY DEF AnchorObservation
<1>4. b.observation = o /\ b.case = ask.case
  BY DEF PolicyBundle
<1>5. e.case = ask.case /\ e.bundle = b
  OBVIOUS
<1> HIDE DEF o, b, quality, e
<1>6. ObservationSound(o)
  <2>1. PICK x : x = o
    OBVIOUS
  <2>2. ObservationSound(x)'
    BY <1>1, <2>1 DEF RInv
  <2>3. ObservationSound(x)
    BY <2>2 DEF ObservationSound, SplitSound
  <2> QED BY <2>1, <2>3
<1>7. o.anchor \in [Candidates -> Flows]
  BY <1>3, <1>6, AnchorIsFlow
<1>8. \A x \in observations' : SplitIsTyped(x.split) /\ x.domain \in Domains
                               /\ x.anchor \in [Candidates -> Flows]
  BY <1>1, <1>2, <1>3, <1>7 DEF TInv, TypeOK
<1>9. \A x \in bundles' : x.observation \in observations' /\ x.case \in Cases
  BY <1>1, <1>2, <1>4 DEF TInv, TypeOK
<1>10. \A x \in results' : x.case \in Cases /\ x.bundle \in bundles'
  BY <1>1, <1>2, <1>5 DEF TInv, TypeOK
<1>11. \A x \in splits' : SplitIsTyped(x) /\ RolesAreSound(x.roles)
  BY <1>1, <1>2 DEF TInv, TypeOK
<1>12. ProgressTyped' /\ AskTyped'
  BY <1>1, LeaveTyped
<1> QED BY <1>1, <1>8, <1>9, <1>10, <1>11, <1>12 DEF TInv, TypeOK, ProgressTyped

LEMMA BuildInputTyped ==
  ASSUME TInv, NEW p \in Protocols, NEW r \in Rosters, BuildInput(p, r)
  PROVE  TInv'
<1>1. UNCHANGED <<splits, results, blocked, observations, bundles, phase, ask,
                  certified, executions, commands>>
  BY DEF BuildInput, execution
<1>2. DesignRoots(DeterministicSplit(p, r)) \subseteq Roots
  BY SplitOfRoster DEF SplitIsTyped, DesignRoots, Roles
<1>3. \A i \in inputs' : i.roster \in Rosters /\ i.profiles \subseteq Roots
  BY <1>2 DEF BuildInput, ExecutionInput, TInv, TypeOK
<1> QED BY <1>1, <1>3 DEF TInv, TypeOK, AskTyped

LEMMA BuildSplitTyped ==
  ASSUME TInv, NEW p \in Protocols, NEW f \in RoleFiles, BuildSplit(p, f)
  PROVE  TInv'
<1>1. /\ UNCHANGED <<inputs, results, blocked, observations, bundles, phase, ask,
                     certified, executions>>
      /\ commands < MaxCommands /\ commands' = commands + 1
      /\ splits' = splits \cup {RootSplit(p, f)}
      /\ RolesAreSound(f)
  BY DEF BuildSplit, execution, Command
<1>2. SplitIsTyped(RootSplit(p, f)) /\ RootSplit(p, f).roles = f
  BY DesignAssumption DEF SplitIsTyped, RootSplit
<1>3. \A s \in splits' : SplitIsTyped(s) /\ RolesAreSound(s.roles)
  BY <1>1, <1>2 DEF TInv, TypeOK
<1>4. commands' \in 0 .. MaxCommands
  BY <1>1, DesignAssumption DEF TInv, TypeOK
<1> QED BY <1>1, <1>3, <1>4 DEF TInv, TypeOK, AskTyped

LEMMA BuildAnchorTyped ==
  ASSUME RInv, RInv', TInv, NEW p \in Protocols, NEW d \in Domains,
         NEW s \in splits, NEW base \in BaselineFiles, NEW e \in results,
         BuildAnchor(p, d, s, base, e.observation.reference)
  PROVE  TInv'
<1> DEFINE o == AnchorObservation(p, d, s, base, e.observation.reference)
<1>1. /\ UNCHANGED <<inputs, splits, results, blocked, bundles, phase, ask,
                     certified, executions>>
      /\ commands < MaxCommands /\ commands' = commands + 1
      /\ observations' = observations \cup {o}
  BY DEF BuildAnchor, execution, Command
<1>2. /\ o.split = s /\ o.domain = d
      /\ o.anchor = [c \in Candidates |-> o.anchor[c]]
  BY DEF AnchorObservation
<1> HIDE DEF o
<1>3. ObservationSound(o)
  <2>1. PICK x : x = o
    OBVIOUS
  <2>2. ObservationSound(x)'
    BY <1>1, <2>1 DEF RInv
  <2>3. ObservationSound(x)
    BY <2>2 DEF ObservationSound, SplitSound
  <2> QED BY <2>1, <2>3
<1>4. o.anchor \in [Candidates -> Flows]
  BY <1>2, <1>3, AnchorIsFlow
<1>5. \A x \in observations' : SplitIsTyped(x.split) /\ x.domain \in Domains
                               /\ x.anchor \in [Candidates -> Flows]
  BY <1>1, <1>2, <1>4 DEF TInv, TypeOK
<1>6. \A b \in bundles : b.observation \in observations'
  BY <1>1 DEF TInv, TypeOK
<1>7. commands' \in 0 .. MaxCommands
  BY <1>1, DesignAssumption DEF TInv, TypeOK
<1> QED BY <1>1, <1>5, <1>6, <1>7 DEF TInv, TypeOK, AskTyped

LEMMA BuildPoliciesTyped ==
  ASSUME TInv, NEW p \in Protocols, NEW d \in Domains, NEW k \in Cases,
         NEW s \in splits, NEW o \in observations, BuildPolicies(p, d, s, o, k)
  PROVE  TInv'
<1>1. /\ UNCHANGED <<inputs, splits, results, blocked, observations, phase, ask,
                     certified, executions>>
      /\ commands < MaxCommands /\ commands' = commands + 1
      /\ bundles' = bundles \cup {PolicyBundle(p, o, k)}
  BY DEF BuildPolicies, execution, Command
<1>2. PolicyBundle(p, o, k).observation = o /\ PolicyBundle(p, o, k).case = k
  BY DEF PolicyBundle
<1>3. \A b \in bundles' : b.observation \in observations /\ b.case \in Cases
  BY <1>1, <1>2 DEF TInv, TypeOK
<1>4. \A e \in results : e.bundle \in bundles'
  BY <1>1 DEF TInv, TypeOK
<1>5. commands' \in 0 .. MaxCommands
  BY <1>1, DesignAssumption DEF TInv, TypeOK
<1> QED BY <1>1, <1>3, <1>4, <1>5 DEF TInv, TypeOK, AskTyped

LEMMA SelectFreezeTyped ==
  ASSUME TInv, NEW p \in Protocols, NEW d \in Domains, NEW s \in splits,
         NEW o \in observations, NEW b \in bundles, NEW e \in results,
         SelectFreeze(p, d, s, o, b, e.quality)
  PROVE  TInv'
<1>1. /\ UNCHANGED <<inputs, splits, results, blocked, observations, bundles,
                     phase, ask, certified, executions>>
      /\ commands < MaxCommands /\ commands' = commands + 1
  BY DEF SelectFreeze, execution, Command
<1>2. commands' \in 0 .. MaxCommands
  BY <1>1, DesignAssumption DEF TInv, TypeOK
<1> QED BY <1>1, <1>2 DEF TInv, TypeOK, AskTyped

LEMMA NextTyped == ASSUME RInv, RInv', TInv, [Next]_vars PROVE TInv'
<1>1. CASE Execute
  <2>1. CASE Kill
    BY <2>1, LeaveTyped, FilesStayTyped DEF Kill
  <2> QED BY <1>1, <2>1, BeginTyped, BaselineTyped, ReferenceTyped, CompleteTyped
          DEF Execute
<1>2. CASE Operate
  <2>1. PICK p \in Protocols :
          \/ \E r \in Rosters : BuildInput(p, r)
          \/ \E f \in RoleFiles : BuildSplit(p, f)
          \/ \E d \in Domains, s \in splits :
               \/ \E b \in BaselineFiles, e \in results :
                    BuildAnchor(p, d, s, b, e.observation.reference)
               \/ \E o \in observations :
                    \/ \E k \in Cases : BuildPolicies(p, d, s, o, k)
                    \/ \E b \in bundles, e \in results :
                         SelectFreeze(p, d, s, o, b, e.quality)
    BY <1>2 DEF Operate
  <2> QED BY <2>1, BuildInputTyped, BuildSplitTyped, BuildAnchorTyped,
             BuildPoliciesTyped, SelectFreezeTyped
<1>3. CASE UNCHANGED vars
  BY <1>3 DEF vars, files, execution, TInv, TypeOK, AskTyped
<1> QED BY <1>1, <1>2, <1>3 DEF Next

(* Every file and the execution in progress keep their types: splits have  *)
(* the roots of the roster, anchors are flows, and a request is held       *)
(* exactly while an execution is in progress.                              *)
THEOREM DesignTypeCorrect == Spec => []TypeOK
<1>1. Init => TInv
  BY InitTyped
<1>2. RInv /\ RInv' /\ TInv /\ [Next]_vars => TInv'
  BY NextTyped
<1>3. TInv => TypeOK
  BY DEF TInv
<1> QED BY <1>1, <1>2, <1>3, ArtefactsAreSound, PTL DEF Spec

-----------------------------------------------------------------------------
(* The links of an attestation, put together: its policy is the one that   *)
(* the execution e rated and judged.                                       *)
LEMMA AttestedPolicy ==
  ASSUME RInv, NEW a \in attestations
  PROVE  \E e \in results, c \in Candidates, p \in Protocols :
           /\ SplitSound(a.split) /\ ObservationSound(e.observation)
           /\ e.case \in Cases
           /\ a.policy.candidate = c
           /\ a.policy.case = e.case
           /\ a.policy.observation = e.observation
           /\ a.policy.split = a.split
           /\ e.observation.split = a.split
           /\ a.policy.rate = e.bundle.policies[c].rate
           /\ e.bundle.policies[c].split = a.split
           /\ a.protocol = p
           /\ a.selection.quality = e.quality
           /\ Eligible(p, e.quality[c])
           /\ e.quality[c] =
                QualityRecord(e.bundle.policies[c], physics[e.case].base,
                              physics[e.case].reference[c], physics[e.case].strategic)
<1>1. PICK e \in results, b \in bundles, c \in Candidates, p \in Protocols :
        /\ a.policy = [b.policies[c] EXCEPT !.status = "FROZEN_PRE_SOURCE_SCENARIO_INPUT"]
        /\ a.split = b.split
        /\ a.protocol = p
        /\ a.selection.quality = e.quality
        /\ e.quality[c].policy = b.policies[c]
        /\ Eligible(p, e.quality[c])
  BY DEF RInv, AttestationSound
<1>2. /\ ResultSound(e) /\ BundleSound(b)
  BY DEF RInv
<1>3. PICK q \in Protocols : e.bundle = PolicyBundle(q, e.observation, e.case)
  BY <1>2 DEF ResultSound
<1>4. e.quality[c] = QualityRecord(e.bundle.policies[c], physics[e.case].base,
                       physics[e.case].reference[c], physics[e.case].strategic)
  BY <1>2 DEF ResultSound
<1>5. b.policies[c] = e.bundle.policies[c]
  BY <1>1, <1>4 DEF QualityRecord
<1>6. e.bundle.policies[c] = Policy(q, e.observation, e.case, c)
  BY <1>3 DEF PolicyBundle
<1>7. PICK r \in Protocols : b = PolicyBundle(r, b.observation, b.case)
  BY <1>2 DEF BundleSound
<1>8. b.policies[c] = Policy(r, b.observation, b.case, c) /\ b.split = b.observation.split
  BY <1>7 DEF PolicyBundle
<1>9. /\ b.policies[c].observation = b.observation
      /\ b.policies[c].observation = e.observation
      /\ b.policies[c].case = e.case
      /\ b.policies[c].candidate = c
      /\ b.policies[c].split = b.split
  BY <1>5, <1>6, <1>8 DEF Policy
<1>10. /\ a.policy.candidate = c
       /\ a.policy.case = e.case
       /\ a.policy.observation = e.observation
       /\ a.policy.split = b.split
       /\ a.policy.rate = e.bundle.policies[c].rate
  BY <1>1, <1>5, <1>6, <1>9 DEF Policy
<1>11. /\ SplitSound(a.split) /\ ObservationSound(e.observation) /\ e.case \in Cases
       /\ e.observation.split = a.split
  BY <1>1, <1>2, <1>8, <1>9 DEF BundleSound, ObservationSound, ResultSound
<1>12. a.policy.split = a.split /\ e.bundle.policies[c].split = a.split
  BY <1>1, <1>5, <1>9, <1>10
<1> HIDE DEF Policy, PolicyBundle
<1> QED BY <1>1, <1>4, <1>10, <1>11, <1>12

(***************************************************************************)
(* A frozen policy was rated by the flows of the execution that judged it. *)
(***************************************************************************)
THEOREM FrozenIsJudgedOnItsFlows == Spec => []JudgedOnItsOwnFlows
<1>1. RInv => JudgedOnItsOwnFlows
  <2> SUFFICES ASSUME RInv, NEW a \in attestations
               PROVE  \E e \in results :
                        /\ e.case = a.policy.case
                        /\ e.observation = a.policy.observation
                        /\ e.quality[a.policy.candidate] =
                             a.selection.quality[a.policy.candidate]
    BY DEF JudgedOnItsOwnFlows
  <2> QED BY AttestedPolicy
<1> QED BY <1>1, ArtefactsAreSound, PTL

(***************************************************************************)
(* No root of a later role has lent a flow to a frozen rating.             *)
(***************************************************************************)
THEOREM NoLeakage == Spec => []LaterRolesUnread
<1>1. RInv => LaterRolesUnread
  <2> SUFFICES ASSUME RInv, NEW a \in attestations,
                      NEW x \in DOMAIN a.policy.observation.baseline \cup
                                UNION {DOMAIN a.policy.observation.reference.flow[c] :
                                         c \in Candidates},
                      NEW r \in LaterRoles
               PROVE  x[1] \notin a.split.roles[r]
    BY DEF LaterRolesUnread
  <2>1. /\ SplitSound(a.split) /\ ObservationSound(a.policy.observation)
        /\ a.policy.observation.split = a.split
    BY AttestedPolicy
  <2>2. x \in Pairs(a.split)
    BY <2>1 DEF ObservationSound, BaselineCovers
  <2>3. x[1] \in a.split.roles["RATE_DESIGN"]
    BY <2>2 DEF Pairs, DesignRoots
  <2>4. r # "RATE_DESIGN"
    BY GroundworkAssumption
  <2> QED BY <2>1, <2>3, <2>4 DEF SplitSound, RolesAreSound, Roles
<1> QED BY <1>1, ArtefactsAreSound, PTL

(***************************************************************************)
(* A rating carries every flow that it was made from.                      *)
(***************************************************************************)
THEOREM RatingsCarryFlows == Spec => []RatingCarriesItsFlows
<1>1. RInv => RatingCarriesItsFlows
  <2> SUFFICES ASSUME RInv, NEW b \in bundles, NEW c \in Candidates,
                      NEW f \in FlowsOf(b.observation.baseline) \cup
                                FlowsOf(b.observation.reference.flow[c])
               PROVE  f <= b.policies[c].rate
    BY DEF RatingCarriesItsFlows
  <2> DEFINE o == b.observation
             S == FlowsOf(o.baseline) \cup FlowsOf(o.reference.flow[c])
  <2>1. PICK p \in Protocols : b = PolicyBundle(p, o, b.case)
    BY DEF RInv, BundleSound
  <2>2. b.policies[c].rate = Rate(p, c, o.anchor[c])
    BY <2>1 DEF PolicyBundle, Policy
  <2>3. ObservationSound(o)
    BY DEF RInv, BundleSound
  <2>4. o.anchor[c] = Max(S)
    BY <2>3 DEF ObservationSound, Anchor
  <2> HIDE DEF o
  <2>5. S \in SUBSET Nat /\ IsFiniteSet(S) /\ S # {}
    <3>1. /\ FlowsOf(o.baseline) \in SUBSET Nat /\ FlowsOf(o.baseline) # {}
          /\ IsFiniteSet(FlowsOf(o.baseline))
      BY <2>3, FlowsFacts DEF ObservationSound, BaselineCovers
    <3>2. /\ FlowsOf(o.reference.flow[c]) \in SUBSET Nat
          /\ IsFiniteSet(FlowsOf(o.reference.flow[c]))
      BY <2>3, FlowsFacts DEF ObservationSound
    <3> QED BY <3>1, <3>2, FS_Union
  <2>6. f \in S
    BY DEF o
  <2> HIDE DEF S
  <2>7. Max(S) \in S /\ f <= Max(S)
    BY <2>5, <2>6, MaxFacts
  <2>8. Max(S) \in Nat /\ f \in Nat
    BY <2>5, <2>6, <2>7
  <2>9. Rate(p, c, Max(S)) \in Nat /\ Max(S) <= Rate(p, c, Max(S))
    BY <2>8, RateAboveAnchor
  <2> QED BY <2>2, <2>4, <2>7, <2>8, <2>9
<1> QED BY <1>1, ArtefactsAreSound, PTL

(* The share of a set among the pairs of a split is an integer.            *)
LEMMA ShareType ==
  ASSUME NEW s, SplitSound(s), NEW passed \in SUBSET Pairs(s)
  PROVE  Share(passed, Pairs(s)) \in Int
<1>1. /\ IsFiniteSet(Pairs(s)) /\ Pairs(s) # {} /\ IsFiniteSet(passed)
  BY PairsFacts, FS_Subset
<1>2. /\ Cardinality(Pairs(s)) \in Nat \ {0} /\ Cardinality(passed) \in Nat
  BY <1>1, FS_CardinalityType, FS_EmptySet
<1> QED BY <1>2 DEF Share

(***************************************************************************)
(* A frozen policy passes what the attested protocol asks of it.           *)
(***************************************************************************)
THEOREM FrozenPasses == Spec => []FrozenPassesItsProtocol
<1>1. RInv => FrozenPassesItsProtocol
  <2> SUFFICES ASSUME RInv, NEW a \in attestations
               PROVE  LET now == physics[a.policy.case]
                          pairs == Pairs(a.split)
                          passing == {x \in pairs :
                            Screen(now.reference[a.policy.candidate][x], a.policy)}
                          both == {x \in passing : Screen(now.strategic[x], a.policy)}
                      IN /\ \A x \in pairs : Screen(now.base[x], a.policy)
                         /\ Share(passing, pairs) >= a.protocol.referenceMinimum
                         /\ Share(both, pairs) \in a.protocol.lower .. a.protocol.upper
    BY DEF FrozenPassesItsProtocol
  <2>1. PICK e \in results, c \in Candidates, p \in Protocols :
           /\ SplitSound(a.split)
           /\ a.policy.candidate = c
           /\ a.policy.case = e.case
           /\ a.policy.rate = e.bundle.policies[c].rate
           /\ e.bundle.policies[c].split = a.split
           /\ a.protocol = p
           /\ Eligible(p, e.quality[c])
           /\ e.quality[c] =
                QualityRecord(e.bundle.policies[c], physics[e.case].base,
                              physics[e.case].reference[c], physics[e.case].strategic)
    BY AttestedPolicy
  <2> DEFINE policy == e.bundle.policies[c]
             now == physics[e.case]
             pairs == Pairs(a.split)
             passing == {x \in pairs : Screen(now.reference[c][x], policy)}
             both == {x \in passing : Screen(now.strategic[x], policy)}
  <2>2. /\ e.quality[c].baseline <=> \A x \in pairs : Screen(now.base[x], policy)
        /\ e.quality[c].reference = Share(passing, pairs)
        /\ e.quality[c].strategic = Share(both, pairs)
    BY <2>1 DEF QualityRecord
  <2>3. \A ac : Screen(ac, a.policy) <=> Screen(ac, policy)
    BY <2>1 DEF Screen
  <2>4. /\ e.quality[c].baseline
        /\ e.quality[c].reference >= p.referenceMinimum
        /\ p.lower <= e.quality[c].strategic /\ e.quality[c].strategic <= p.upper
    BY <2>1 DEF Eligible
  <2>5. both \in SUBSET pairs
    OBVIOUS
  <2>6. passing = {x \in pairs :
                     Screen(physics[a.policy.case].reference[a.policy.candidate][x],
                            a.policy)}
    BY <2>1, <2>3
  <2>7. both = {x \in passing : Screen(physics[a.policy.case].strategic[x], a.policy)}
    BY <2>1, <2>3
  <2>8. \A x \in pairs : Screen(physics[a.policy.case].base[x], a.policy)
    BY <2>1, <2>2, <2>3, <2>4
  <2>9. p.lower \in Int /\ p.upper \in Int
    BY GroundworkAssumption DEF ProtocolRecords, Percent
  <2> HIDE DEF passing, both
  <2>10. Share(both, pairs) \in Int
    BY <2>1, <2>5, ShareType
  <2> HIDE DEF pairs
  <2>11. Share(both, pairs) \in p.lower .. p.upper
    BY <2>2, <2>4, <2>9, <2>10
  <2>12. Share(passing, pairs) >= p.referenceMinimum
    BY <2>2, <2>4
  <2> QED BY <2>1, <2>6, <2>7, <2>8, <2>11, <2>12 DEF pairs
<1> QED BY <1>1, ArtefactsAreSound, PTL

-----------------------------------------------------------------------------
(***************************************************************************)
(* What the code would have to compare.  AttestedAnchorRatesItsPolicy      *)
(* fails because select-freeze takes any valid observation; it holds when  *)
(* each attestation is written from the observation of its bundle.         *)
(***************************************************************************)
FreezesOwnObservation ==
  attestations' # attestations =>
    \E p \in Protocols, d \in Domains, s \in splits, b \in bundles, e \in results :
      SelectFreeze(p, d, s, b.observation, b, e.quality)

LEMMA OwnFreezeBinds ==
  ASSUME RInv, AttestedAnchorRatesItsPolicy, NEW p, NEW d, NEW s,
         NEW b \in bundles, NEW q, SelectFreeze(p, d, s, b.observation, b, q)
  PROVE  AttestedAnchorRatesItsPolicy'
<1> DEFINE chosen == Selection(p, s, b, q)
<1>1. ASSUME NEW c \in chosen.selected
      PROVE  LET a == Attestation(p, d, b.observation, chosen, c)
             IN a.anchor = a.policy.observation
  <2>1. c \in Candidates
    BY <1>1 DEF Selection
  <2>2. PICK x \in Protocols : b = PolicyBundle(x, b.observation, b.case)
    BY DEF RInv, BundleSound
  <2>3. b.policies[c] = Policy(x, b.observation, b.case, c)
    <3>1. PolicyBundle(x, b.observation, b.case).policies[c]
            = Policy(x, b.observation, b.case, c)
      BY <2>1 DEF PolicyBundle
    <3> QED BY <2>2, <3>1
  <2>4. [Policy(x, b.observation, b.case, c)
           EXCEPT !.status = "FROZEN_PRE_SOURCE_SCENARIO_INPUT"].observation
          = b.observation
    BY DEF Policy
  <2> QED BY <2>3, <2>4 DEF Attestation, Selection
<1>2. \/ UNCHANGED attestations
      \/ \E c \in chosen.selected :
           attestations' = attestations \cup
             {Attestation(p, d, b.observation, chosen, c)}
  BY DEF SelectFreeze
<1> HIDE DEF chosen
<1> QED BY <1>1, <1>2 DEF AttestedAnchorRatesItsPolicy

(* Where every freeze is given the observation of its bundle, the attested *)
(* anchor is the one that rated the frozen policy.                         *)
THEOREM OwnObservationIsAttested ==
  Spec /\ [][FreezesOwnObservation]_vars => []AttestedAnchorRatesItsPolicy
<1>1. Init => AttestedAnchorRatesItsPolicy
  BY DEF Init, AttestedAnchorRatesItsPolicy
<1>2. RInv /\ AttestedAnchorRatesItsPolicy /\ [FreezesOwnObservation]_vars
        => AttestedAnchorRatesItsPolicy'
  <2> SUFFICES ASSUME RInv, AttestedAnchorRatesItsPolicy,
                      [FreezesOwnObservation]_vars
               PROVE  AttestedAnchorRatesItsPolicy'
    OBVIOUS
  <2>1. CASE UNCHANGED attestations
    BY <2>1 DEF AttestedAnchorRatesItsPolicy
  <2>2. CASE attestations' # attestations
    BY <2>2, OwnFreezeBinds DEF FreezesOwnObservation, vars, files
  <2> QED BY <2>1, <2>2
<1> QED BY <1>1, <1>2, ArtefactsAreSound, PTL DEF Spec
=============================================================================
