----------------------------- MODULE MCPlanTxn ------------------------------
(***************************************************************************)
(* Instances of PlanTxn for TLC.  Sessions 1 and 2 report the same         *)
(* activation, as a retry does.  The aggregate of the second has no time,  *)
(* the third is older than the first.                                      *)
(***************************************************************************)
EXTENDS PlanTxn

ActivationValue == [t \in Sessions |-> IF t <= 2 THEN "first" ELSE "second"]
LinkedAtValue ==
    [t \in Sessions |-> CASE t = 1 -> 2 [] t = 2 -> Untimed [] OTHER -> 1]
=============================================================================
