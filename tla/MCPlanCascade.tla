--------------------------- MODULE MCPlanCascade ---------------------------
(***************************************************************************)
(* Instances of PlanCascade for TLC: the constants of its configurations.  *)
(***************************************************************************)
EXTENDS PlanCascadeProps

CONSTANTS content1, content2, cascade1, concept1

Draft(p, id, deps) ==
    [parent |-> p, id |-> id, deps |-> deps, content |-> content1, status |-> "draft"]

\* No content names a file.
NoTargets == [content \in {} |-> NoPriority]

\* A branch, one step on each level, and a concept.
BranchSteps   == {1, 2, 3}
BranchAll     == BranchSteps \cup {concept1}
BranchLevels  == [s \in BranchSteps |-> s + 2]
BranchImports == {[s \in BranchSteps |-> Draft(s - 1, 1, {})]}

\* Two branches with two siblings to exchange.
FamilySteps   == {1, 2, 3, 4}
FamilyLevels  == [s \in FamilySteps |-> IF s < 3 THEN 3 ELSE 4]
FamilyImports == {[s \in FamilySteps |->
    IF s < 3 THEN Draft(0, s, {}) ELSE Draft(1, s - 2, IF s = 3 THEN {<<2>>} ELSE {})]}

\* A root step with a child.
PairSteps   == {1, 2}
PairLevels  == [s \in PairSteps |-> s + 2]
PairImports == {[s \in PairSteps |-> Draft(s - 1, 1, {})]}

\* A root step with two children, and a third to come.
SpareSteps   == {1, 2, 3, 4}
SpareLevels  == [s \in SpareSteps |-> IF s = 1 THEN 3 ELSE 4]
SpareImports == {[s \in SpareSteps |->
    IF s = 1 THEN Draft(0, 1, {}) ELSE IF s = 4 THEN Absent ELSE Draft(1, s - 1, {})]}
=============================================================================
