----------------------------- MODULE RateDesign -----------------------------
(***************************************************************************)
(* How RATE V4 artefacts come about.  The AC runner                        *)
(* (ieee141_rate_v4_design_ac_runner.py) executes a design: a fresh        *)
(* baseline and finite-difference proxy for each root and Q mode, then for *)
(* each candidate a certified reference allocation and its AC solution,    *)
(* then observation, policies and quality records, written as one result.  *)
(* The commands of ieee141_rate_v4_groundwork.py build each artefact from  *)
(* files named by the operator, who may combine files of different         *)
(* executions, and freeze the selected policy.                             *)
(*                                                                         *)
(* The AC solvers and the network are external: a case decides every       *)
(* solution (physics).  The certified kernel may be unavailable or fail at *)
(* any call.  An execution that raises, or is killed, leaves no file.  The *)
(* records of blocked executions name no observation and no policy.        *)
(***************************************************************************)
EXTENDS RateGroundwork, Sequences, SequencesExt

CONSTANTS
  Rosters,          \* pairs of a root roster and a RATE_DESIGN count
  RoleFiles,        \* the --root-roles files an operator may list
  LaterOrder,       \* LaterRoles in the order of ROOT_ROLES
  RootDigest(_, _), \* sort key of a root, as a number: hash of protocol
                    \* and root, then the root's identifier
  Physics,          \* what the AC solvers may answer, for each case
  MaxExecutions, MaxCommands  \* bounds: runner and groundwork invocations

Outcomes ==
  [base : [Roots \X QModes -> Solutions],
   rays : [Roots \X QModes -> BOOLEAN],
   reference : [Candidates -> [Roots \X QModes -> Solutions]],
   strategic : [Roots \X QModes -> Solutions]]

ASSUME DesignAssumption ==
  /\ Rosters \subseteq [roots : SUBSET Roots, count : Nat \ {0}]
  /\ RoleFiles \subseteq [Roles -> SUBSET Roots]
  /\ LaterOrder \in Seq(LaterRoles) /\ LaterOrder # <<>>
  /\ ToSet(LaterOrder) = LaterRoles /\ IsInjective(LaterOrder)
  /\ \A p \in Protocols, a, b \in Roots :
       /\ RootDigest(p, a) \in Nat
       /\ RootDigest(p, a) = RootDigest(p, b) => a = b
  /\ Physics \subseteq [Cases -> Outcomes]
  /\ MaxExecutions \in Nat /\ MaxCommands \in Nat

VARIABLES
  inputs,       \* execution inputs on disk
  splits,       \* root splits on disk
  results,      \* complete execution results
  blocked,      \* records of blocked executions
  observations, bundles, selections, attestations,
  phase, ask,   \* the execution in progress
  certified,    \* candidates whose references it has solved
  executions, commands, physics

files == <<inputs, splits, results, blocked, observations, bundles,
           selections, attestations>>
execution == <<phase, ask, certified>>
vars == <<files, execution, executions, commands, physics>>

-----------------------------------------------------------------------------
(***************************************************************************)
(* Roots in the order of their digests: the first count are RATE_DESIGN,   *)
(* the others go to the later roles in turn.                               *)
(***************************************************************************)
RootRank(protocol, roots, a) ==
  Cardinality({b \in roots : RootDigest(protocol, b) < RootDigest(protocol, a)})

RoleOf(protocol, roster, a) ==
  LET rank == RootRank(protocol, roster.roots, a)
  IN IF rank < roster.count
       THEN "RATE_DESIGN"
       ELSE LaterOrder[1 + ((rank - roster.count) % Len(LaterOrder))]

DeterministicSplit(protocol, roster) ==
  RootSplit(protocol,
    [r \in Roles |-> {a \in roster.roots : RoleOf(protocol, roster, a) = r}])

RosterIsSufficient(roster) ==
  roster.count + Len(LaterOrder) <= Cardinality(roster.roots)

\* Of _validate_execution_input what relates its fields.
InputIsValid(input) ==
  /\ RosterIsSufficient(input.roster)
  /\ input.profiles \subseteq input.roster.roots

\* build_rate_v4_execution_input: the profiles of the design roots.
ExecutionInput(protocol, roster) ==
  [roster |-> roster, profiles |-> DesignRoots(DeterministicSplit(protocol, roster))]

Idle == [protocol |-> "none"]

Init ==
  /\ inputs = {} /\ splits = {} /\ results = {} /\ blocked = {}
  /\ observations = {} /\ bundles = {} /\ selections = {} /\ attestations = {}
  /\ phase = "idle" /\ ask = Idle /\ certified = {}
  /\ executions = 0 /\ commands = 0
  /\ physics \in Physics

BuildInput(protocol, roster) ==
  /\ RosterIsSufficient(roster)
  /\ ExecutionInput(protocol, roster) \notin inputs
  /\ inputs' = inputs \cup {ExecutionInput(protocol, roster)}
  /\ UNCHANGED <<splits, results, blocked, observations, bundles, selections,
                 attestations, execution, executions, commands, physics>>

-----------------------------------------------------------------------------
(***************************************************************************)
(* run_rate_v4_design_ac_execution.                                        *)
(***************************************************************************)
\* Fault: the request of an execution that ended is left behind.
FaultLeave ==
  /\ phase' = "idle" /\ certified' = {} /\ UNCHANGED ask

Leave ==
  /\ phase' = "idle" /\ ask' = Idle /\ certified' = {}

\* Inputs, split and library; the profiles must be those of the split.
Begin(protocol, domain, case, input) ==
  /\ phase = "idle"
  /\ executions < MaxExecutions
  /\ InputIsValid(input)
  /\ RolesAreSound(DeterministicSplit(protocol, input.roster).roles)
  /\ input.profiles = DesignRoots(DeterministicSplit(protocol, input.roster))
  /\ executions' = executions + 1
  /\ phase' = "baseline"
  /\ ask' = [protocol |-> protocol, domain |-> domain, case |-> case,
             split |-> DeterministicSplit(protocol, input.roster)]
  /\ UNCHANGED <<files, certified, commands, physics>>

\* The primary and independent solutions of one allocation, cross-checked.
Now == physics[ask.case]

\* The 30 rays of a pair's finite-difference proxy, solved by a pool of
\* processes: the first that does not converge raises.
RaysConverge(x) == Now.base[x].converged /\ Now.rays[x]

\* The baseline of each pair and its rays.  Pairs share nothing.
Baseline ==
  /\ phase = "baseline"
  /\ \/ /\ \A x \in Pairs(ask.split) : RaysConverge(x)
        /\ phase' = "reference"
        /\ UNCHANGED <<ask, certified>>
     \/ /\ \E x \in Pairs(ask.split) : ~RaysConverge(x)
        /\ Leave
  /\ UNCHANGED <<files, executions, commands, physics>>

RowFlows(solution) == [x \in Pairs(ask.split) |-> solution[x].flow]

BaselineRows == RowFlows(Now.base)
ReferenceRows ==
  [domain |-> ask.domain, parameters |-> Library(ask.protocol).parameters,
   flow |-> [c \in Candidates |-> RowFlows(Now.reference[c])]]

\* The record of a blocked execution has its split and its baseline rows,
\* and neither reference rows nor anything made of them.
BlockedExecution ==
  [case |-> ask.case, split |-> ask.split, baseline |-> BaselineRows,
   observation |-> "none"]

\* A candidate's certified allocations and their AC solutions.  When the
\* kernel is not available or fails, or a reference does not converge, the
\* execution writes a blocked record and ends, whatever other candidates had.
Reference(c) ==
  /\ phase = "reference"
  /\ c \in Candidates \ certified
  /\ \/ /\ \A x \in Pairs(ask.split) : Now.reference[c][x].converged
        /\ certified' = certified \cup {c}
        /\ phase' = IF certified' = Candidates THEN "quality" ELSE phase
        /\ UNCHANGED <<ask, blocked>>
     \/ Leave /\ blocked' = blocked \cup {BlockedExecution}
  /\ UNCHANGED <<inputs, splits, results, observations, bundles, selections,
                 attestations, executions, commands, physics>>

\* Observation, policies, strategic solutions and quality, in one file.
Complete ==
  /\ phase = "quality"
  /\ LET o == AnchorObservation(ask.protocol, ask.domain, ask.split,
                                BaselineRows, ReferenceRows)
         b == PolicyBundle(ask.protocol, o, ask.case)
         quality == [c \in Candidates |->
                       QualityRecord(b.policies[c], Now.base, Now.reference[c],
                                     Now.strategic)]
     IN /\ results' = results \cup
             {[case |-> ask.case, observation |-> o, bundle |-> b, quality |-> quality]}
        /\ splits' = splits \cup {ask.split}
        /\ observations' = observations \cup {o}
        /\ bundles' = bundles \cup {b}
  /\ Leave
  /\ UNCHANGED <<inputs, blocked, selections, attestations, executions, commands, physics>>

Kill ==
  /\ phase # "idle"
  /\ Leave
  /\ UNCHANGED <<files, executions, commands, physics>>

-----------------------------------------------------------------------------
(***************************************************************************)
(* The commands of the groundwork.  A command that raises writes nothing,  *)
(* but for select-freeze, which writes the selection first.                *)
(***************************************************************************)
Command == commands < MaxCommands /\ commands' = commands + 1

\* build-split, from roles the operator lists.
BuildSplit(protocol, roles) ==
  /\ Command
  /\ RolesAreSound(roles)
  /\ splits' = splits \cup {RootSplit(protocol, roles)}
  /\ UNCHANGED <<inputs, results, blocked, observations, bundles, selections,
                 attestations, execution, executions, physics>>

BaselineFiles ==
  {e.observation.baseline : e \in results} \cup {e.baseline : e \in blocked}

\* build-anchor, from the row files of any executions.
BuildAnchor(protocol, domain, split, baseline, reference) ==
  /\ Command
  /\ SplitIsValid(split, protocol)
  /\ BaselineCovers(baseline, split)
  /\ ReferenceCovers(reference, protocol, domain, split)
  /\ observations' = observations \cup
       {AnchorObservation(protocol, domain, split, baseline, reference)}
  /\ UNCHANGED <<inputs, splits, results, blocked, bundles, selections,
                 attestations, execution, executions, physics>>

\* build-policies; the hashes of network and case are arguments.
BuildPolicies(protocol, domain, split, o, case) ==
  /\ Command
  /\ SplitIsValid(split, protocol)
  /\ ObservationIsValid(o, protocol, domain, split)
  /\ bundles' = bundles \cup {PolicyBundle(protocol, o, case)}
  /\ UNCHANGED <<inputs, splits, results, blocked, observations, selections,
                 attestations, execution, executions, physics>>

\* select-freeze: the selection, and the attestation when there is a winner
\* and the observation is valid.
SelectFreeze(protocol, domain, split, o, bundle, quality) ==
  /\ Command
  /\ SelectionIsBound(protocol, split, bundle)
  /\ QualityIsBound(quality, bundle, split)
  /\ LET s == Selection(protocol, split, bundle, quality)
     IN /\ selections' = selections \cup {s}
        /\ \/ /\ ObservationIsValid(o, protocol, domain, split)
              /\ \E c \in s.selected :
                   attestations' = attestations \cup
                     {Attestation(protocol, domain, o, s, c)}
           \/ /\ \/ s.selected = {}
                 \/ ~ObservationIsValid(o, protocol, domain, split)
              /\ UNCHANGED attestations
  /\ UNCHANGED <<inputs, splits, results, blocked, observations, bundles,
                 execution, executions, physics>>

-----------------------------------------------------------------------------
Execute ==
  \/ \E p \in Protocols, d \in Domains, k \in Cases, i \in inputs : Begin(p, d, k, i)
  \/ Baseline
  \/ \E c \in Candidates : Reference(c)
  \/ Complete \/ Kill

Operate ==
  \E p \in Protocols :
    \/ \E r \in Rosters : BuildInput(p, r)
    \/ \E f \in RoleFiles : BuildSplit(p, f)
    \/ \E d \in Domains, s \in splits :
         \/ \E b \in BaselineFiles, e \in results :
              BuildAnchor(p, d, s, b, e.observation.reference)
         \/ \E o \in observations :
              \/ \E k \in Cases : BuildPolicies(p, d, s, o, k)
              \/ \E b \in bundles, e \in results :
                   SelectFreeze(p, d, s, o, b, e.quality)

Next == Execute \/ Operate

Spec == Init /\ [][Next]_vars

-----------------------------------------------------------------------------
(***************************************************************************)
(* The types of files and of the execution in progress.                    *)
(***************************************************************************)
SplitIsTyped(s) ==
  s.protocol \in Protocols /\ s.roles \in [Roles -> SUBSET Roots]

TypeOK ==
  /\ \A i \in inputs : i.roster \in Rosters /\ i.profiles \subseteq Roots
  /\ \A s \in splits : SplitIsTyped(s) /\ RolesAreSound(s.roles)
  /\ \A o \in observations :
       SplitIsTyped(o.split) /\ o.domain \in Domains /\ o.anchor \in [Candidates -> Flows]
  /\ \A b \in bundles : b.observation \in observations /\ b.case \in Cases
  /\ \A r \in results : r.case \in Cases /\ r.bundle \in bundles
  /\ \A e \in blocked : SplitIsTyped(e.split) /\ e.observation = "none"
  /\ phase \in {"idle", "baseline", "reference", "quality"}
  /\ phase = "idle" <=> ask = Idle
  /\ certified \subseteq Candidates
  /\ executions \in 0 .. MaxExecutions
  /\ commands \in 0 .. MaxCommands

(***************************************************************************)
(* No root with a later role in the attested split has lent a flow to the  *)
(* frozen rating or to the records it was selected by, whatever splits and *)
(* row files the operator has combined (the root split "prevents later     *)
(* leakage", ieee141_rate_v4_groundwork.py:362).                           *)
(***************************************************************************)
LaterRolesUnread ==
  \A a \in attestations :
    LET o == a.policy.observation
        read == DOMAIN o.baseline \cup
                UNION {DOMAIN o.reference.flow[c] : c \in Candidates}
    IN \A x \in read, r \in LaterRoles : x[1] \notin a.split.roles[r]

(***************************************************************************)
(* A frozen policy was rated by the flows of the execution that judged it, *)
(* all of one case, although observations, bundles and quality records are *)
(* separate files and a row does not name its case: only the hash of the   *)
(* policy ties them (_validate_quality_record).                            *)
(***************************************************************************)
JudgedOnItsOwnFlows ==
  \A a \in attestations : \E e \in results :
    /\ e.case = a.policy.case
    /\ e.observation = a.policy.observation
    /\ e.quality[a.policy.candidate] = a.selection.quality[a.policy.candidate]

(***************************************************************************)
(* On the case it names and the pairs of the attested split, a frozen      *)
(* policy passes what the attested protocol asks of it, recomputed from    *)
(* the solutions: every baseline, enough references, and a share within    *)
(* the interval of pairs that pass with the strategic allocation too.      *)
(***************************************************************************)
FrozenPassesItsProtocol ==
  \A a \in attestations :
    LET now == physics[a.policy.case]
        pairs == Pairs(a.split)
        passing == {x \in pairs : Screen(now.reference[a.policy.candidate][x], a.policy)}
        both == {x \in passing : Screen(now.strategic[x], a.policy)}
    IN /\ \A x \in pairs : Screen(now.base[x], a.policy)
       /\ Share(passing, pairs) >= a.protocol.referenceMinimum
       /\ Share(both, pairs) \in a.protocol.lower .. a.protocol.upper

(***************************************************************************)
(* A rating carries every flow it was made from, baseline and reference:   *)
(* the screens of the design's own solutions fail for voltages or for the  *)
(* solvers, never for a branch.                                            *)
(***************************************************************************)
RatingCarriesItsFlows ==
  \A b \in bundles, c \in Candidates :
    \A f \in FlowsOf(b.observation.baseline) \cup FlowsOf(b.observation.reference.flow[c]) :
      f <= b.policies[c].rate

(***************************************************************************)
(* An attestation binds the anchor observation its policy was rated by     *)
(* (the chain of ieee141_rate_v4_groundwork.py:9-11).                      *)
(***************************************************************************)
AttestedAnchorRatesItsPolicy ==
  \A a \in attestations : a.anchor = a.policy.observation
=============================================================================
