---------------------------- MODULE MCRateDesign ----------------------------
(***************************************************************************)
(* Instances of RateDesign for TLC: two candidates, three later roots, two *)
(* protocols with the same class parameters and other thresholds.          *)
(***************************************************************************)
EXTENDS RateDesign

MCRoots == 1 .. 4
MCLaterOrder == <<"GUARD", "EVALUATION">>

Parameters(name, lower, target) ==
  [name |-> name, headroom |-> [tight |-> 0, wide |-> 100],
   minimum |-> [tight |-> 1, wide |-> 1],
   referenceMinimum |-> 50, lower |-> lower, upper |-> 50, target |-> target]

Strict == Parameters("strict", 50, 50)
Loose == Parameters("loose", 0, 40)
MCProtocols == {Strict, Loose}

\* The digests rank roots one way for one protocol, the other way for the other.
MCRootDigest(p, root) == IF p.name = "strict" THEN root ELSE 5 - root
MCPolicyDigest(policy) == IF policy.candidate = "tight" THEN 1 ELSE 2

MCRosters == {[roots |-> {1, 2, 3}, count |-> 1]}

\* One file that gives a design root of the strict protocol to a later role,
\* and one that gives a root two roles.
MCRoleFiles ==
  {[r \in Roles |-> CASE r = "RATE_DESIGN" -> {2} [] r = "GUARD" -> {1} [] OTHER -> {4}],
   [r \in Roles |-> IF r = "RATE_DESIGN" THEN {1, 2} ELSE {2, 3}]}

Uniform(f) == [x \in MCRoots \X QModes |-> f]
Good(f) == [flow |-> f, converged |-> TRUE, sound |-> TRUE]

\* A calm case; and a loaded one with larger flows, whose strategic
\* solution, soundness and convergence vary.
Calm ==
  [base |-> Uniform(Good(1)), rays |-> Uniform(TRUE),
   reference |-> [c \in Candidates |-> Uniform(Good(1))],
   strategic |-> [x \in MCRoots \X QModes |-> Good(IF x[2] = "Q0" THEN 1 ELSE 3)]]

Loaded(ref, q95, ray, base) ==
  [base |-> Uniform(base), rays |-> Uniform(ray),
   reference |-> [c \in Candidates |->
      [x \in MCRoots \X QModes |->
         IF x[2] = "Q0" /\ c = "tight" THEN ref ELSE Good(2)]],
   strategic |-> [x \in MCRoots \X QModes |-> IF x[2] = "Q0" THEN Good(3) ELSE q95]]

Unsound(f) == [flow |-> f, converged |-> TRUE, sound |-> FALSE]
Diverged == [flow |-> 0, converged |-> FALSE, sound |-> FALSE]

MCPhysics ==
  {[k \in Cases |-> IF k = "calm" THEN Calm ELSE loaded] : loaded \in
     {Loaded(Good(3), Good(2), TRUE, Good(2)), Loaded(Good(3), Good(5), TRUE, Good(2)),
      Loaded(Unsound(3), Good(5), TRUE, Good(2)), Loaded(Diverged, Good(5), TRUE, Good(2)),
      Loaded(Good(3), Good(5), TRUE, Unsound(2)), Loaded(Good(3), Good(5), FALSE, Good(2))}}
=============================================================================
