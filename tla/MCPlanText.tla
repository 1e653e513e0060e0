----------------------------- MODULE MCPlanText -----------------------------
(***************************************************************************)
(* Instances of PlanText for TLC: the trees of MCPlanCascade with a text.  *)
(***************************************************************************)
EXTENDS PlanText, MCPlanCascade

CONSTANTS text1, text2

DocumentsValue == {<<text1>>, <<text1, text2>>}
=============================================================================
