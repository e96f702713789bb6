------------------------- MODULE ProportionalSearch -------------------------
(***************************************************************************)
(* allocate_proportional_ac_prefix of r4r/australian_allocation.py: the    *)
(* search for a common request scale whose full authorised export passes   *)
(* the AC screen.  One action per power-flow solve.                        *)
(*                                                                         *)
(* A scale is a natural from 0 to Full, standing for scale / Full; with    *)
(* Full a power of two the midpoints of the code are exact.  The network   *)
(* is unknown to the search: passing is the set of scales at which the     *)
(* authorisation screen would pass, with no monotonicity assumed, and      *)
(* physical the set at which the physical screen would.  The argument      *)
(* checks that raise ValueError before any solve are left out.             *)
(***************************************************************************)
EXTENDS Integers, FiniteSets

CONSTANTS
  Full,            \* scale 1.0
  Tolerance,       \* scalar_tolerance, in units of 1 / Full
  Budgets,         \* values of max_bisection_iterations
  LimitIsStrict    \* is the authorisation voltage limit below the physical
                   \* one by more than the 1e-9 slack of the comparison?

ASSUME SearchAssumption ==
  /\ Full \in Nat \ {0}
  /\ Tolerance \in Nat \ {0}
  /\ Tolerance < Full
  /\ Budgets \subseteq Nat \ {0}
  /\ LimitIsStrict \in BOOLEAN

Scales == 0 .. Full

VARIABLES
  passing, physical,   \* the network: outcomes of the two screens
  loadOnlyPasses,      \* the network: physical screen of the load-only state
  emptyRequest,        \* sum(request) == 0
  budget,              \* max_bisection_iterations of the call
  stage,               \* the next solve, or "done"
  lower, upper,        \* the bisection bracket
  iteration,           \* bisection iterations performed
  tested,              \* scales solved by solve_authorized_export
  flows,               \* power_flow_count
  status, scale,       \* fields of the result
  screened             \* scale whose screen is the result's
                       \* authorized_export_screen

given == <<passing, physical, loadOnlyPasses, emptyRequest, budget>>
result == <<status, scale, screened>>
vars == <<given, stage, lower, upper, iteration, tested, flows, result>>

Pending == "PENDING"
Invalid == "INVALID_BASE_STATE"
Optimal == "OPTIMAL_AC_PREFIX"

TypeOK ==
  /\ passing \in SUBSET Scales
  /\ physical \in SUBSET Scales
  /\ loadOnlyPasses \in BOOLEAN
  /\ emptyRequest \in BOOLEAN
  /\ stage \in {"loadOnly", "zeroExport", "fullRequest", "bisect", "done"}
  /\ lower \in Scales
  /\ upper \in Scales
  /\ budget \in Budgets
  /\ iteration \in 0 .. budget
  /\ tested \in SUBSET Scales
  /\ flows \in Nat
  /\ status \in {Pending, Invalid, Optimal}
  /\ scale \in Scales
  /\ screened \in Scales

-----------------------------------------------------------------------------
(***************************************************************************)
(* A scale that passes authorisation converged, with neither undervoltage  *)
(* nor overload; a strict limit also excludes overvoltage.                 *)
(***************************************************************************)
Init ==
  /\ passing \in SUBSET Scales
  /\ physical \in SUBSET Scales
  /\ LimitIsStrict => passing \subseteq physical
  /\ loadOnlyPasses \in BOOLEAN
  /\ emptyRequest \in BOOLEAN
  /\ budget \in Budgets
  /\ stage = "loadOnly"
  /\ lower = 0
  /\ upper = Full
  /\ iteration = 0
  /\ tested = {}
  /\ flows = 0
  /\ status = Pending
  /\ scale = 0
  /\ screened = 0

Return(st, s, screen) ==
  /\ stage' = "done"
  /\ status' = st
  /\ scale' = s
  /\ screened' = screen

LoadOnly ==
  /\ stage = "loadOnly"
  /\ flows' = flows + 1
  /\ stage' = "zeroExport"
  /\ UNCHANGED <<given, lower, upper, iteration, tested, result>>

\* model.solve_authorized_export(load, s * request) and its count.
Solve(s) ==
  /\ flows' = flows + 1
  /\ tested' = tested \cup {s}

\* Fault: the zero-export screen of the base state is not consulted.
FaultBasePasses == loadOnlyPasses

BasePasses == loadOnlyPasses /\ 0 \in passing

ZeroExport ==
  /\ stage = "zeroExport"
  /\ Solve(0)
  /\ \/ /\ ~BasePasses
        /\ Return(Invalid, 0, 0)
     \/ /\ BasePasses /\ emptyRequest
        /\ Return(Optimal, Full, 0)
     \/ /\ BasePasses /\ ~emptyRequest
        /\ stage' = "fullRequest"
        /\ UNCHANGED result
  /\ UNCHANGED <<given, lower, upper, iteration>>

FullRequest ==
  /\ stage = "fullRequest"
  /\ Solve(Full)
  /\ \/ /\ Full \in passing
        /\ Return(Optimal, Full, Full)
        /\ UNCHANGED <<lower, upper>>
     \/ /\ Full \notin passing
        /\ stage' = "bisect"
        /\ lower' = 0
        /\ upper' = Full
        /\ screened' = 0
        /\ UNCHANGED <<status, scale>>
  /\ UNCHANGED <<given, iteration>>

\* Fault: the bracket is not halved.
Midpoint == (lower + upper) \div 2

\* Fault: off by one in the width test.
FaultNarrow == upper - lower <= Tolerance + 1

Narrow == upper - lower <= Tolerance

\* Fault: the screen of the last solve is kept, passing or not.
FaultBisectKeepsLastScreen ==
  /\ stage = "bisect"
  /\ iteration < budget /\ ~Narrow
  /\ Solve(Midpoint)
  /\ iteration' = iteration + 1
  /\ screened' = Midpoint
  /\ lower' = IF Midpoint \in passing THEN Midpoint ELSE lower
  /\ upper' = IF Midpoint \in passing THEN upper ELSE Midpoint
  /\ UNCHANGED <<given, stage, status, scale>>

\* Fault: the iteration budget is not enforced.
FaultBisectUnbounded ==
  /\ stage = "bisect"
  /\ ~Narrow
  /\ Solve(Midpoint)
  /\ iteration' = iteration + 1
  /\ screened' = IF Midpoint \in passing THEN Midpoint ELSE screened
  /\ lower' = IF Midpoint \in passing THEN Midpoint ELSE lower
  /\ upper' = IF Midpoint \in passing THEN upper ELSE Midpoint
  /\ UNCHANGED <<given, stage, status, scale>>

Bisect ==
  /\ stage = "bisect"
  /\ iteration < budget /\ ~Narrow
  /\ Solve(Midpoint)
  /\ iteration' = iteration + 1
  /\ \/ /\ Midpoint \in passing
        /\ lower' = Midpoint
        /\ screened' = Midpoint
        /\ UNCHANGED upper
     \/ /\ Midpoint \notin passing
        /\ upper' = Midpoint
        /\ UNCHANGED <<lower, screened>>
  /\ UNCHANGED <<given, stage, status, scale>>

\* Fault: only a narrow bracket ends the loop.
FaultFinish ==
  /\ stage = "bisect" /\ Narrow
  /\ Return(Optimal, lower, screened)
  /\ UNCHANGED <<given, lower, upper, iteration, tested, flows>>

Finish ==
  /\ stage = "bisect"
  /\ iteration = budget \/ Narrow
  /\ Return(Optimal, lower, screened)
  /\ UNCHANGED <<given, lower, upper, iteration, tested, flows>>

Next == LoadOnly \/ ZeroExport \/ FullRequest \/ Bisect \/ Finish

Spec == Init /\ [][Next]_vars
FairSpec == Spec /\ WF_vars(Next)

-----------------------------------------------------------------------------
Done == stage = "done"

\* ProportionalAllocationResult.pair_pass.
PairPass == status = Optimal /\ loadOnlyPasses /\ screened \in physical

(***************************************************************************)
(* The allocation that is handed out is one whose own authorised export    *)
(* was solved and passed, and the screen reported with it is the screen of *)
(* that scale and not of another one tried on the way.                     *)
(***************************************************************************)
GrantWasScreened ==
  Done /\ status = Optimal =>
    /\ screened \in tested \cap passing
    /\ emptyRequest \/ screened = scale

(***************************************************************************)
(* With the authorisation limit below the physical one, a result passes    *)
(* its pair of screens exactly when its base state was valid.              *)
(***************************************************************************)
ValidMeansPairPass ==
  Done /\ LimitIsStrict => (PairPass <=> loadOnlyPasses /\ 0 \in passing)

(***************************************************************************)
(* Where the passing scales do form a prefix from zero, the result is the  *)
(* largest of them up to the scalar tolerance, or up to the width that     *)
(* halvings up to the budget leave.                                        *)
(***************************************************************************)
PassingIsPrefix == \A s \in passing : 0 .. s \subseteq passing

\* The width after n halvings, the larger half of an odd width each time.
Halved[n \in Nat] == IF n = 0 THEN Full ELSE (Halved[n - 1] + 1) \div 2

RemainingWidth ==
  IF Halved[budget] > Tolerance THEN Halved[budget] ELSE Tolerance

NearMaximalOnPrefix ==
  Done /\ status = Optimal /\ PassingIsPrefix /\ ~emptyRequest =>
    \A s \in passing : s < scale + RemainingWidth

(***************************************************************************)
(* Every solve is counted once: the load-only solve and one per scale      *)
(* tested.  No scale is solved twice.                                      *)
(***************************************************************************)
FlowsCountSolves ==
  stage # "loadOnly" => flows = 1 + Cardinality(tested)

(***************************************************************************)
(* The search returns.                                                     *)
(***************************************************************************)
Returns == <>Done
=============================================================================
