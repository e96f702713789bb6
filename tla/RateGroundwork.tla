--------------------------- MODULE RateGroundwork ---------------------------
(***************************************************************************)
(* The artefacts of the synthetic branch ratings (RATE V4) and the         *)
(* functions that build and validate them: ieee141_rate_v4_groundwork.py,  *)
(* the input of build_ieee141_rate_v4_execution_input.py, and the screen   *)
(* of ieee141_rate_v4_design_ac_runner.py.                                 *)
(*                                                                         *)
(* An artefact is the record of what it is bound to.  Its self-hash is the *)
(* record itself: two hashes are equal when the records are.  Validators   *)
(* that rebuild an artefact and compare it are memberships in the set of   *)
(* what the builder returns.  One branch stands for all: ratings, anchors  *)
(* and screens are taken branch by branch and every artefact has the same  *)
(* branches.  Flows are naturals, headrooms and pass rates percentages.    *)
(* Left out: schema and identity checks, the declarations of what was read *)
(* and the search for names of older versions, which no command varies.    *)
(***************************************************************************)
EXTENDS Integers, FiniteSets, FiniteSetsExt

CONSTANTS
  Protocols,      \* the protocol files: thresholds and class parameters
  Candidates,     \* the candidate ids of the predeclared library
  Roots,          \* root profiles
  LaterRoles,     \* ROOT_ROLES but RATE_DESIGN
  QModes,
  Domains,        \* versions of the anchor domain
  Cases,          \* network cases: raw case hash and network hash
  MaxFlow,        \* bound: largest branch flow
  PolicyDigest(_) \* a policy's hash, as a number

Flows == 0 .. MaxFlow
Roles == {"RATE_DESIGN"} \cup LaterRoles
Percent == 0 .. 100

\* Of the class parameters the ones of the rate; of quality_selection the
\* four thresholds.
ProtocolRecords ==
  [name : STRING,
   headroom : [Candidates -> Nat], minimum : [Candidates -> Nat],
   referenceMinimum : Percent, lower : Percent, upper : Percent, target : Percent]

ASSUME GroundworkAssumption ==
  /\ Protocols \subseteq ProtocolRecords
  /\ \A p \in Protocols : p.lower <= p.target /\ p.target <= p.upper
  /\ IsFiniteSet(Candidates) /\ Candidates # {}
  /\ IsFiniteSet(Roots) /\ IsFiniteSet(QModes) /\ QModes # {}
  /\ "RATE_DESIGN" \notin LaterRoles
  /\ MaxFlow \in Nat

-----------------------------------------------------------------------------
(***************************************************************************)
(* The root split.  Each role has a root and no root has two roles.        *)
(***************************************************************************)
RolesAreSound(roles) ==
  /\ \A r \in Roles : roles[r] # {}
  /\ \A r, s \in Roles : r # s => roles[r] \cap roles[s] = {}

RootSplit(protocol, roles) == [protocol |-> protocol, roles |-> roles]

\* validate_rate_design_root_split: bound to the protocol, and rebuilt.
SplitIsValid(split, protocol) ==
  split.protocol = protocol /\ RolesAreSound(split.roles)

\* Fault: every root of the roster is taken for design.
FaultDesignRoots(split) == UNION {split.roles[r] : r \in Roles}

DesignRoots(split) == split.roles["RATE_DESIGN"]
Pairs(split) == DesignRoots(split) \X QModes

\* The candidate library is a function of the protocol.
Library(protocol) ==
  [protocol |-> protocol.name,
   parameters |-> [headroom |-> protocol.headroom, minimum |-> protocol.minimum]]

-----------------------------------------------------------------------------
(***************************************************************************)
(* The two-ended anchor.  Baseline rows carry their root and Q mode,       *)
(* reference rows also the anchor domain and the candidate's parameters,   *)
(* and neither the case they were solved on.                               *)
(***************************************************************************)
BaselineCovers(baseline, split) == DOMAIN baseline = Pairs(split)

ReferenceCovers(reference, protocol, domain, split) ==
  /\ reference.domain = domain
  /\ reference.parameters = Library(protocol).parameters
  /\ \A c \in Candidates : DOMAIN reference.flow[c] = Pairs(split)

FlowsOf(flow) == {flow[x] : x \in DOMAIN flow}

\* Fault: the honest reference is left out of the anchor.
FaultAnchor(baseline, reference, c) == Max(FlowsOf(baseline))

\* Both maxima over roots and Q modes, and the larger of the two.
Anchor(baseline, reference, c) ==
  Max(FlowsOf(baseline) \cup FlowsOf(reference.flow[c]))

AnchorObservation(protocol, domain, split, baseline, reference) ==
  [protocol |-> protocol, domain |-> domain, split |-> split,
   baseline |-> baseline, reference |-> reference,
   anchor |-> [c \in Candidates |-> Anchor(baseline, reference, c)]]

ObservationIsValid(o, protocol, domain, split) ==
  o.protocol = protocol /\ o.domain = domain /\ o.split = split

-----------------------------------------------------------------------------
(***************************************************************************)
(* Candidate policies, and the bundle of one for each candidate.           *)
(***************************************************************************)
Rate(protocol, c, anchor) ==
  Max({protocol.minimum[c], (anchor * (100 + protocol.headroom[c])) \div 100})

Policy(protocol, o, case, c) ==
  [candidate |-> c, status |-> "DEVELOPMENT_ONLY_NOT_FROZEN",
   protocol |-> protocol, domain |-> o.domain, split |-> o.split,
   observation |-> o, case |-> case,
   rate |-> Rate(protocol, c, o.anchor[c])]

PolicyBundle(protocol, o, case) ==
  [protocol |-> protocol, domain |-> o.domain, split |-> o.split,
   observation |-> o, case |-> case,
   policies |-> [c \in Candidates |-> Policy(protocol, o, case, c)]]

-----------------------------------------------------------------------------
(***************************************************************************)
(* The development screen of one AC solution against one policy, and the   *)
(* quality record of a policy.  A solution's sound says that the solvers   *)
(* agree and voltages are in bounds, within the tolerances.                *)
(***************************************************************************)
Solutions == [flow : Flows, converged : BOOLEAN, sound : BOOLEAN]

Screen(ac, policy) == ac.converged /\ ac.sound /\ ac.flow <= policy.rate

Share(passed, all) == (100 * Cardinality(passed)) \div Cardinality(all)

\* Fault: a strategic solution counts whether or not its reference passes.
FaultQualityRecord(policy, base, ref, strategic) ==
  LET pairs == Pairs(policy.split)
      passing == {x \in pairs : Screen(ref[x], policy)}
  IN [candidate |-> policy.candidate, policy |-> policy, split |-> policy.split,
      baseline |-> \A x \in pairs : Screen(base[x], policy),
      reference |-> Share(passing, pairs),
      strategic |-> Share({x \in pairs : Screen(strategic[x], policy)}, pairs)]

QualityRecord(policy, base, ref, strategic) ==
  LET pairs == Pairs(policy.split)
      passing == {x \in pairs : Screen(ref[x], policy)}
  IN [candidate |-> policy.candidate, policy |-> policy, split |-> policy.split,
      baseline |-> \A x \in pairs : Screen(base[x], policy),
      reference |-> Share(passing, pairs),
      strategic |-> Share({x \in passing : Screen(strategic[x], policy)}, pairs)]

-----------------------------------------------------------------------------
(***************************************************************************)
(* Selection: the eligible candidate nearest to the target, the smaller    *)
(* policy hash on a tie.                                                   *)
(***************************************************************************)
\* Fault: a record is matched by its candidate id alone.
FaultQualityIsBound(quality, bundle, split) ==
  DOMAIN quality = Candidates

QualityIsBound(quality, bundle, split) ==
  /\ DOMAIN quality = Candidates
  /\ \A c \in Candidates :
       /\ quality[c].policy = bundle.policies[c]
       /\ quality[c].split = split

Eligible(protocol, record) ==
  /\ record.baseline
  /\ record.reference >= protocol.referenceMinimum
  /\ protocol.lower <= record.strategic /\ record.strategic <= protocol.upper

Distance(protocol, record) ==
  IF record.strategic >= protocol.target
    THEN record.strategic - protocol.target
    ELSE protocol.target - record.strategic

Winner(protocol, quality, c) ==
  /\ Eligible(protocol, quality[c])
  /\ \A d \in Candidates : Eligible(protocol, quality[d]) =>
       \/ Distance(protocol, quality[c]) < Distance(protocol, quality[d])
       \/ /\ Distance(protocol, quality[c]) = Distance(protocol, quality[d])
          /\ PolicyDigest(quality[c].policy) <= PolicyDigest(quality[d].policy)

BundleIsValid(bundle) ==
  \A c \in Candidates :
    /\ bundle.policies[c].status = "DEVELOPMENT_ONLY_NOT_FROZEN"
    /\ bundle.policies[c].protocol = bundle.protocol
    /\ bundle.policies[c].domain = bundle.domain

SelectionIsBound(protocol, split, bundle) ==
  /\ SplitIsValid(split, protocol)
  /\ BundleIsValid(bundle)
  /\ bundle.protocol = protocol
  /\ bundle.split = split

\* What select_rate_v4_candidate may return, when it does not raise: one
\* selection.  The winning candidate is in a set that is empty or a singleton.
Selection(protocol, split, bundle, quality) ==
  [protocol |-> protocol, split |-> split, bundle |-> bundle, quality |-> quality,
   selected |-> {c \in Candidates : Winner(protocol, quality, c)}]

\* build_immutable_rate_v4_freeze_attestation of a valid selection: the
\* observation is validated against the protocol, the domain and the split.
Attestation(protocol, domain, o, s, c) ==
  [protocol |-> protocol, domain |-> domain, split |-> s.split,
   anchor |-> o, bundle |-> s.bundle, selection |-> s,
   policy |-> [s.bundle.policies[c] EXCEPT !.status = "FROZEN_PRE_SOURCE_SCENARIO_INPUT"]]
=============================================================================
