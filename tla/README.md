# Verification of the ECF export-access code

TLA+ models, TLC runs and TLAPS proofs for the repository *Delivery-informed
allocation of electricity exports*. The repository computes how much export
several participants of a distribution feeder are admitted for, measures what
they deliver, and lowers or restores their admission ceilings
(externality-conditioned counterfactual feedback, ECF). Around that rule stand
long experiments: process pools, checkpoints, restarts and result bundles.

Abbreviations for paths under `src/`: `151`, `169`, ... are the folders
`reproduction/outputs/ees_transition/archive/<number>_...`; `r4r` is
`reproduction/src/r4r`; `tools` is `reproduction/tools`.

## 1. The system

### Parts that are modelled

**Feedback rule** (`151/.../r4r/externality_feedback.py`, `australian_policy.py`;
`r4r` holds identical copies). Pure functions, called once per interval: cap the
request at the ceiling, meter delivery, form the replay request in which idle
awards are capped at their delivery, ask the gate's five questions in order,
move each ceiling towards delivery or capacity by a gain beta. *Correct when* a
ceiling falls only for a participant with an idle award and only when somebody
else was short of access and would have delivered more.

**Day loop** (`_run_day`, `151/.../tools/run_ees_australian_external_replay.py`).
State: the ceilings, the previous availability for lagging telemetry, the loop
variable. It calls the search twice per interval and the rule between. *Hard:*
the ceiling that interval t+1 reads is written after the replay of interval t; a
worker runs day after day in one interpreter, so what is not reset leaks.

**Proportional search** (`r4r/australian_allocation.py`). Bisection for a common
request scale whose export passes an AC screen. State: bracket, screen of the
lower end, solve count. *Hard:* the screen handed out must be the one of the
scale handed out; power flow does not promise that passing scales are an interval.

**Bounded-record loop** (`175`, `176`). The same loop, but the controller sees a
record of availability with an error radius instead of availability. *Hard:* a
lower bound must never qualify what the truth would not; the screen of a
recorded candidate may raise in the middle of a day.

**Checkpointed run** (`180/run_mapping.py`, `184/run_scale.py`). An owner scans
the day folders, submits open days to a pool and writes a completion marker;
workers write VECTORS.npz, RESULT.json, then DONE.json with hashes, or
ERROR.json. *Hard:* owners killed between any two file operations, orphaned
workers, second owners, errors while other days still run.

**Adaptive block** (`189/run_adaptation.py`, `participant_policy.py`). A job over
consecutive dates; ceilings and participants' preferences persist from date to
date and are rebuilt from checkpoints after a restart. *Hard:* one array
restored from the wrong date is invisible in the results.

**Branch-rating design, RATE V4** (`tools/ieee141_rate_v4_groundwork.py`,
`ieee141_rate_v4_design_ac_runner.py`, `build_ieee141_rate_v4_execution_input.py`).
Pure builders and validators of artefacts (root split, anchor observation, policy
bundle, quality record, selection, attestation), a runner that executes a design
over AC solvers and writes all of it in one file, and five commands that build each
artefact from files the operator names. State: the files. *Hard:* files of
different executions can be combined, and only the hashes each validator compares
tie them together; a root that is later used to evaluate must not leak into a rating.

**Controlled study, V16** (`tools/run_v16_externality_conditioned_feedback.py` with
the parts of `run_v12_3_...`, `run_v14_...`, `run_v15_...` it calls, its summary,
its two audits and its figure export). A task runs several controls side by side on
one realised availability; all solves of a task, replays included, share a cache
keyed by the request. Around it a chain of commands freezes requests, scenarios and
design, runs the experiment, and reports on it; every file names hashes of its
inputs. *Hard:* controls must be compared on equal terms although solves fail; the
verdict reads recorded steps while the comparison uses cached answers; any file may
be replaced, or a command killed, between two commands; the tables beside a result
carry no hash, and a kill leaves those of an earlier experiment beside it.

**Replay run and its outputs** (`main` of the external replay). Solves days in a
pool, writes two tables, a summary and a manifest; later invocations may
overwrite or only finalize (`--resume-summary`). *Hard:* interrupted invocations
and flags combine to bundles whose parts are of different runs.

How they meet: the day loop calls the rule and the search directly; the replay
run calls the day loop in worker processes and only their results cross the
process boundary; the bounded-record loop and the adaptive block call the rule
and the search of archive 151; the checkpointed run shares nothing with its
workers but the file system.

### Parts that are not modelled

`PROJECT.json` lists each with its files. In short: the contract pipeline of
`r4r` (requests, scenarios, allocation domains, mitigation, metrics) is a chain of
numerical functions with identities and failure codes and comes next in the plan,
with the method execution (M1) and the diagnostic batches of the IEEE 141-bus
tools, the pools of `169` and `diagnostics`, and the step adapter of `175`; the AC
and OpenDSS solvers and the optimisation tools are numerical and appear as arbitrary
outcomes of screens and solves; data preparation, the other analyses, audits and
figure tables convert finished files and hold no state; `docs/`, `paper/`,
`figure_data/` and `provenance/` hold no program. The frozen copies of modules in
the archive folders are the code that the modelled runs execute, and are modelled
once.
`176` loads `175/v2/bounded_feedback.py`, which the repository does not contain;
the model follows `175/bounded_feedback.py`.

## 2. Modules

| Module | Models | State and actions |
|---|---|---|
| `AccessFeedback` | the rule | operators only, named after the functions |
| `AccessPromise` | abstract specification of any ECF loop | `Meter`, `Close`, `Restore` |
| `FeedbackDay` (extends `AccessFeedback`) | `_run_day` | `Authorise`, `Replay`, `Settle`, `NextDay`; refines `AccessPromise` |
| `BoundedRecord` (extends `AccessFeedback`) | `175` and `176` | `Complete`, `Screen` or `Conflict`, `Decide`, `NextDay`; refines `AccessPromise` |
| `ProportionalSearch` | the bisection | one action per power-flow solve, and `Finish` |
| `CheckpointedRun` | `180`, `184` | owner: `Start`, `Scan`, `OpenPool`, `Collect`, `Unwind`, `Complete`; worker: `Enter`, the writes, `Raise`; environment: `Crash` |
| `UninterruptedBlock` | abstract specification of a block | `Publish` |
| `AdaptiveBlock` | one job of `189` | `Launch`, `Resume`, `BeginDay`, `Choose`, `Observe`, the writes, `Interrupt`; refines `UninterruptedBlock` |
| `ExternalReplayRun` | `main` of the external replay | `RunNext`: `SolveStart`, `ResumeStart`, `RunDay`, `Collect`, the four writes, `Stop` |
| `RateGroundwork` | artefacts of RATE V4 | operators only: builders, validators, the screen |
| `RateDesign` (extends `RateGroundwork`) | runner and commands | runner: `Begin`, `Baseline`, `Reference`, `Complete`, `Kill`; operator: `BuildInput`, `BuildSplit`, `BuildAnchor`, `BuildPolicies`, `SelectFreeze` |
| `StudyTrajectory` (extends `AccessFeedback`) | one task of the controlled study | `BeginInterval`, `Report`, `SettleFull`, `SettleReplay`; each gain refines `AccessPromise` |
| `ControlledStudy` (extends `StudyTrajectory`) | the chain of commands around it | one action per command; `StartExperiment`, `Task`, `WriteResult`, `WriteTables`, `CannotAggregate`, `Interrupt`; `Summarise`, `AuditClosure`, `AuditDelivery`, `Export` |

`MC*` modules and their `.cfg` files give the constants values. `*_proofs`
modules hold the theorems; `ExternalReplay_proofs` has those of the day loop and of
the run around it, whose specification is therefore `RunSpec` and not `Spec`. Operators called `Fault...` are plausible bugs; no
specification uses them, and each is there to show that a property notices it.

Abstractions, beyond what each module's head says:

- Powers are naturals up to `MaxUnits`, tolerances are units of that grid. The
  blend of an old ceiling and its target may round either way to an adjacent
  unit, so every rounding of the code's real arithmetic is covered; the
  round-off of sums is not. Of `math.fsum` only the named assumption
  `FSumAssumption` is used: integer-valued on the grid, zero on zero, monotone.
- An allocation is `k / ScaleSteps` of the request for some common `k`, which is
  what the proportional search returns. Screens of a replay pass or fail freely.
- `CarryCeiling = TRUE` is the contiguous loop of `173`, FALSE the daily reset.
- The dropout mask is a hash in the code; any mask is allowed in the model.
- A file is absent, torn (opened, not closed) or whole. Writing is two steps. A
  hash is the content it was taken of.
- In `AdaptiveBlock` an array is its history, the sequence of intervals it was
  computed from. The computation is deterministic, so equal histories are equal
  arrays. Branches of an interval are evaluated in any order: they share nothing.
- In `RateGroundwork` an artefact is the record of what it is bound to, so two
  hashes are equal when the records are; a validator that rebuilds an artefact and
  compares is equality with what the builder returns. One branch stands for all,
  because ratings, anchors and screens are taken branch by branch.
- In `ControlledStudy` a hash is the content it stands for, a source version or the
  number of a response or experiment. Commands run one after the other. Of the tasks
  of an experiment, which share no memory, one is modelled; of the roster, the
  open-loop control, two gains and the uniform control matched to the first.
- A JSON file of the study is the old one or the new one, because a torn one raises
  when it is read. Its tables are not: they are overwritten in place, and one that is
  cut off is read by pandas like any other. A table is therefore whole, clipped in
  its last row (all rows are there) or short (rows are missing), and each command
  counts the rows of the tables that it counts in the code: the summary both, the
  delivery audit and the export the intervals, the closure audit none. The figure
  package keeps each table that went into it, with the experiment of the document it
  came with. The requests and the design that it also packs are asked for their own
  gates only and are left out of it.
- A solve of the study answers any award within its request, unscreened or passed,
  or fails; whether the same request would be answered alike a second time is not
  assumed. That the controls agree comes from the cache alone.
- Left out of `189`: the fixed-reference branch, smoke mode, FAILURE files
  (written and never read) and a second live owner.

## 3. What TLC checks

| Run | Instance | Shows |
|---|---|---|
| `feedback_day` | 2 participants, capacities 4 and 3, quarter steps, beta 1/2, ceilings carried over days; under-reporting, dropout, lag | nesting of access, earned restriction, refinement of `AccessPromise`, recovery of ceilings, an open gate means a true gain, lag does not cross days |
| `bounded_record` | 2 participants, 2 intervals, radius 0 or 1, all signs and modes | soundness of lower bounds, refinement of `AccessPromise`, which tasks stop |
| `search` | 9 scales, every network, budgets 2 and 4 | screened grants, near-maximality on prefixes, termination |
| `checkpointed_run` | 2 jobs, 3 owners, 2 crashes, orphans; in one circumstance patient owners, 2 workers and failing days, in the other a hasty second owner and 1 worker | honest marker, final days, failed days stay failed, every job accounted for once, restarts end for good, with the run complete or over a day that only a review can release |
| `run_duplicate` | 2 jobs, 2 owners, the second hasty, 1 crash | a live day is computed twice (finding) |
| `block` | 3 dates of 2 intervals, 3 branches, 3 interruptions | restarts are transparent, policies used in turn, the block returns |
| `replay_run` | 2 days, 2 settings, 3 invocations with any flags, interrupted anywhere | tables are complete, a verified bundle is of one run |
| `replay_resume` | 2 days, 2 invocations | `--resume-summary` finalizes what is not complete (finding) |
| `rate_design` | 2 protocols, 2 candidates, 4 roots, 2 cases with 6 behaviours of the solvers, 2 executions, 3 commands | no leakage of later roots, a frozen policy was judged on its own flows and passes its protocol, ratings carry their flows |
| `rate_anchor` | the same, 2 commands | a freeze can name the anchor of another execution (finding) |
| `study` | 2 participants of one unit, 2 intervals, any 3 commands after the deposit, 7 through a new source | paired controls, verdicts cover all answers, every result of one source, package of what its experiments wrote, refinement of `AccessPromise` by two gains |
| `study_gate` | the same, 2 commands | an experiment is blocked by its own design (finding) |

Why the bounds are enough for the cases of interest:

- A net loss with an outsider gain, which the gate's last question is for, needs two
  participants, capacities 4 and 3 and quarter steps. One interval a day with carried
  ceilings meets the day boundary at every step; a second interval that reads the
  lagged availability of the first is beyond five minutes at these capacities, and is
  covered by the theorems, which hold for days of any length. What a third
  participant, a bystander, could add is covered by the theorems.
- Width 8 with budget 2 ends by the budget, with budget 4 by the tolerance.
- Two jobs and two workers make a failure meet a running day; the third owner
  meets what two crashes left; with one worker the iterator outlasts the first
  submission.
- Three dates let a checkpoint be resumed from a resumed checkpoint.
- Three invocations are: a run, one that overwrites it and is interrupted, and
  one that finalizes.
- Two executions and two protocols give artefacts that differ in every binding an
  operator can mix up; three commands are an anchor, a bundle and a freeze.
- One unit for each of two participants lets access that one leaves idle go to the
  other in a replay, halves a uniform request when one is cut off, and opens and
  closes gates; two intervals let a ceiling of the first act in the second. Three
  commands are, for instance, a new design, its experiment and a report, a killed
  experiment between two reports, or an experiment that is BLOCKED, one that is killed
  over its tables, and an export. From a new source to a result on it there are
  seven: the envelope, methods, scenarios, response, requests, design and experiment.
  The action constraint `Bounded` lets commands after the third (`AnyCommands`) only
  where the source has been replaced once and no report has been rewritten, with
  tasks that ask for nothing; along this chain any input may still be missing, stale
  or redone, which is what `ResultIsOfOneSource` is about.
- `RestartsComplete` says that from some moment on all owners and workers have ended
  and, with patient owners, that the run is complete or some day needs a review: it
  has an ERROR.json, or a DONE.json that is torn and that nobody is about to close.
  A DONE.json that is just being written therefore does not satisfy it, and an owner
  that waits for an answer for ever violates it.

Named bounds that cut behaviour: `MaxCrashes`, `MaxInterruptions`, `MaxStarts`,
`Owners`, `MaxExecutions`, `MaxCommands`, `AnyCommands`, `MaxFlow`. Runs without deadlock checking are those of programs that end.

### Fairness

- `FeedbackDay`, `ProportionalSearch`: weak fairness of the next-state relation;
  both are sequential loops that never wait. `CeilingRecovers` assumes in the
  formula that the gate stays closed.
- `CheckpointedRun`: weak fairness of an owner's steps, of each worker's
  progress (not of `Raise` and `Crash`) and of `Start`: processes that are not
  killed make progress and the operator starts the next owner.
- `AdaptiveBlock`: weak fairness of all steps but `Interrupt`, which is bounded.
- `RateDesign` and `ControlledStudy` state none: nothing obliges an operator to issue
  the next command, and no property of them needs it.

### Findings

1. `run_duplicate`: the protocol of `180` forbids to duplicate a live job. The
   runner never looks for live workers; whoever restarts it when the owner's
   process has ended can duplicate one. The marker is then not reliable either.
2. `replay_resume`: `--resume-summary` says it finalizes complete tables; it
   accepts tables of a limited run and tables cut short, and states full scope.
3. `rate_anchor`: the attestation of a freeze validates the anchor observation it is
   given, but never compares it with the observation its policy was rated by; with
   the observation of another execution on the same split it binds flows that did
   not rate the policy.
4. `study_gate`: a gate of the V16 verdict wants every read assertion of the design
   False, and `_freeze_design` writes one True, the registered telemetry assumption.
   An experiment on a design frozen by this code is BLOCKED whatever it measures;
   only the deposited design escapes.

One more behaviour is modelled but contradicts no statement of the repository.
`PackageMatchesItsRuns` holds with an exception for experiments killed before their
tables were written, and the exception is needed: an experiment ends BLOCKED and
leaves its tables; a second one ends COMPLETE and is killed after V16_RESULTS.json; the
export then finds every gate closed and as many interval rows as it expects, and
packs the tables of the BLOCKED experiment. No document of the package names the
tables' hashes, so nothing later tells. Running the experiment
and the export again repairs it.

## 4. What TLAPS proves

For every value of the constants that the named assumptions allow:

- `ExternalReplay_proofs`, the day loop: type correctness, `AccessNested`,
  `RestrictionNeedsDisplacement`, `GateMeansRecovery`, `LagDoesNotCrossDays`, that no
  update moves a ceiling below the delivery it follows (a theorem only), and that the
  loop implements `AccessPromise`. The inductive invariant is
  `TypeOK /\ AccessNested /\ LoopInv`: `AccessNested` alone is not inductive because
  the replay is taken under the base state of its interval (`replayValid => base`)
  and vectors are empty between intervals. `AccessFeedback_proofs` has the lemmas:
  what an update may do to a ceiling, what an open gate implies, that a conservative
  signal never exceeds availability. Of `CeilingRecovers` the step is proved
  (`RecoveryAdvances`): while the gate is closed no ceiling falls, a recovered one
  stays recovered, and closing an interval raises every other one, whichever way the
  blend rounds. Only the fairness that makes intervals close is left to TLC.
- `ExternalReplay_proofs`, the run around the days: `TablesAreComplete` and
  `VerifiedBundleIsOneRun` for any days, settings and number of invocations. The
  invariant follows the writing: a table closed under the run in progress holds what
  that run solved, the summary was made of the tables in memory, and a manifest was
  hashed over files of one run. What a manifest says is kept apart from what became
  of the files: later invocations may overwrite them, and then the bundle no longer
  verifies, while the statement about the manifest's own content still holds.
- `BoundedRecord_proofs`: types, `LowerBoundIsSound` (the assertion at
  `176/run_feedback.py:92`), `RestrictionRecoversTruth`, `OnlyOverstatementStops`
  and the refinement. The key conjunct is `RecordInv`: delivery is at most the
  record, and the record less its radius is at most availability.
- `ProportionalSearch_proofs`: types, `GrantWasScreened`, `ValidMeansPairPass`, and
  that the solve count is exact. The invariant is the bracket: lower passes, upper fails,
  the kept screen is that of lower, nothing inside has been solved; hence every
  solve is a new scale. `NearMaximalOnPrefix` needs in addition that the width left
  is within what the iterations leave of the resolution (`WidthInv`). What n halvings leave
  is a recursive function; its facts come from a least counterexample, because the
  library's induction theorems take an operator, which the provers cannot supply.
  Of termination the step is proved: each lowers a natural (`SearchShortens`), so a
  call makes at most the budget and three power flows (`FlowsAreBounded`).
- `CheckpointedRun_proofs`: types, and for runs in which each owner starts only when
  all earlier owners and workers have ended (`Careful`, that is
  `given.hasty = {}`), `CompletionIsHonest`, `VerifiedIsFinal` and
  `VerifiedHasNoError`; without it they are false. `EveryJobAccounted` holds however
  owners are started. The argument: at
  most one owner has live workers (`Alone`); what an attempt has written matches
  its stage (`AttemptsSound`); what was counted verifies (`CountedVerified`) and
  nobody is left who could touch it. A second invariant, `Pools`, holds however owners
  are started and says where live workers can be: an owner that collects has them
  among its futures, one that completed or failed has none
  (`OnlyKilledOwnersLeaveWorkers`). Of `RestartsComplete` the safe half is proved: the
  assertion before the marker never fails (`AssertionNeverFails`), and a patient
  owner fails only over a day that a review has to release (`OnlyReviewStopsRun`);
  the invariant `FailureSound` says that such a day stays as it is, because it is one
  of `NeedsReview`: nobody is about to close its DONE.json.
- `AdaptiveBlock_proofs`: types, `ChoicesInTurn`, that the completed count a
  restart reconstructs is the true one, and that the block implements
  `UninterruptedBlock`, for blocks of any length. The invariant says what histories
  memory holds at each stage (`MemorySound`) and that a whole DONE.json vouches for the uninterrupted record (`DiskSound`). Of
  `BlockReturns` it remains to assume that steps are taken: a job fails only over a
  torn DONE.json, returns only with its whole block, and every step between
  interruptions lowers the natural `StepsLeft`.
- `RateDesign_proofs`: `LaterRolesUnread`, `JudgedOnItsOwnFlows`,
  `FrozenPassesItsProtocol`, `RatingCarriesItsFlows`. The invariant `RInv` says of
  each file on disk what it was made from. It does not tie a selection to the
  execution whose records it used; that link is the equality of policies in
  `QualityIsBound`, and a policy contains the observation that rated it, so equal
  policies have equal flows. Types are proved too, and that the root split gives each
  role a root and each root one role whenever the roster suffices
  (`SufficientRosterSplits`): the rank of a root is a bijection of the roster with an
  initial segment of the naturals.
- `ControlledStudy_proofs`: types, `PairedControls`, `CompleteMeansScreened`,
  `ResultIsOfOneSource`, `PackageMatchesItsRuns`, and that both gains implement
  `AccessPromise`. The invariant has two parts. `TInv` is about a task: a
  control whose gate has never opened has exactly the capacity as its ceiling, so its
  request is exactly the open-loop request (`EqualTerms`; for the uniform control this
  needs that a whole share of a total divides exactly, `WholeShares`), and the cache
  answers equal requests equally, a failure included (`AnswersCached`). `ScreensSeen`
  ties the verdict to the cache: a passing record leaves no answer in it unscreened.
  `FilesInv` is about the files: what an experiment compared at its start still holds
  when it writes (`InputsHeld`), every complete report names an experiment in the
  history `complete`, and a table is that of the result it lies beside, or that the
  report read, unless the experiment is in the history `unfinished`
  (`WrittenTablesAreOwn`, `ReadTablesAreOwn`): while tables are being written no
  command runs that could read them, and whoever stops the writing puts the
  experiment into `unfinished`. In the refinement `Report` is `Meter` for the control that goes
  on to settle, settling is `Close`, a killed experiment closes at full access, any
  other fresh start is `Restore`; that an opened gate means scarcity follows because
  some outsider gains in a replay whose request lies within its own.

The findings have converses, which say what each of them needs:

| Finding | Theorem |
|---|---|
| 1 | no live day is computed twice if every owner waits for all workers (`CarefulOwnersDuplicateNothing`), nor if killing an owner ends its workers (`WithoutOrphansNothingIsDuplicated`) |
| 2 | a resumed bundle that verifies is a full run if every resume is given the closed tables of a full run under its own settings (`CarefulResumeFinalizesCompleteRun`) |
| 3 | an attestation names the flows that rated its policy if every freeze is given the observation of its own bundle (`OwnObservationIsAttested`) |
| 4 | a COMPLETE result is of the deposited design and envelope, and an evident result on that design is COMPLETE (`NoFrozenDesignCompletes`) |

The hypotheses of 2 and 3 are conditions on what the operator does at one command, in
the form `[][...]_vars`, and TLC found behaviours that meet them and reach the
conclusion's interesting states.

Assumptions: `BoundsAssumption`, `BetaAssumption` (the argument check of
`update_access_ceiling`), `FSumAssumption`, `DayAssumption`, `RecordAssumption`,
`SearchAssumption`, `RunAssumption`, `BlockAssumption`, `GroundworkAssumption`,
`DesignAssumption`, `HorizonAssumption`, `CommandsAssumption`. TLC evaluates each on its
instance.

Only model-checked: liveness (`CeilingRecovers`, `Returns`, `RestartsComplete`,
`BlockReturns`), which needs fairness and ENABLED and is beyond the prover; what each of them rests
on besides fairness is proved. Every other property of a passing run is a theorem.

## 5. Plan

Done so far: the feedback loops, the search, the checkpointed pool, the adaptive
block, the replay run, the rating design, and the controlled study with its chain.
In the order in which they would be added:

1. Proofs: a measure for the owners and workers of `CheckpointedRun`, as for the
   block and the search; consequences of `AccessPromise` stated of that specification.
2. The method execution (M1): the detail behind `ExecuteMethods`, in which a state
   admits a method and a blocked method leaves its state to the next.
3. The other pools: `169/run_comparison.py`, `173/run_contiguous.py`, the pool of
   `189` and `diagnostics/*/run_frequency_control.py` resume by the existence of a
   file and differ from `CheckpointedRun` in what they check; `CheckpointedRun` with
   the checks as parameters.
4. The contract chain of `r4r` from request policy to executed scenario and
   mitigation, as a pipeline of identities and failure codes.
5. The engine state of `australian_opendss.py`, which screens share.
