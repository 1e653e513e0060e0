--------------------------- MODULE MCPlanContext ----------------------------
(***************************************************************************)
(* Instances of PlanContext for TLC: the trees of MCPlanCascade.           *)
(***************************************************************************)
EXTENDS PlanContext, MCPlanCascade

CONSTANT relation1

\* A root step, and a child to come.
RootImports == {[s \in PairSteps |-> IF s = 1 THEN Draft(0, 1, {}) ELSE Absent]}

ScopesValue == {{}, {concept1, relation1}}

PairAll == PairSteps \cup {concept1, relation1}
=============================================================================
