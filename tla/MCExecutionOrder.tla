-------------------------- MODULE MCExecutionOrder --------------------------
(***************************************************************************)
(* An instance of ExecutionOrder for TLC: two root steps, three tactical   *)
(* steps and under each of these a writer of the same file, imported with  *)
(* up to three dependencies of those DepsValue lists.                      *)
(***************************************************************************)
EXTENDS ExecutionOrder

CONSTANTS first, second

StepsValue  == 1..8
LevelsValue == [s \in StepsValue |-> IF s < 3 THEN 3 ELSE IF s < 6 THEN 4 ELSE 5]

TargetsValue == [content \in {first, second} |->
    [file |-> 1, priority |-> IF content = first THEN 1 ELSE 2]]

\* parent and step_id
Place == <<<<0, 1>>, <<0, 2>>, <<1, 1>>, <<2, 1>>, <<2, 2>>, <<3, 1>>, <<4, 1>>, <<5, 1>>>>

DepsValue ==
    {<<1, <<2>>>>, <<2, <<1>>>>, <<4, <<2>>>>, <<5, <<1>>>>}
        \cup {e \in {6, 7, 8} \X {<<1, 1, 1>>, <<2, 1, 1>>, <<2, 2, 1>>} :
                 e[2] # (CASE e[1] = 6 -> <<1, 1, 1>> [] e[1] = 7 -> <<2, 1, 1>> [] e[1] = 8 -> <<2, 2, 1>>)}

ImportsValue ==
    LET tree(deps) == [s \in StepsValue |->
            [parent |-> Place[s][1], id |-> Place[s][2],
             content |-> IF s = 7 THEN second ELSE first, status |-> "draft",
             deps |-> {e[2] : e \in {x \in deps : x[1] = s}}]]
    IN  {tree({c, d, e}) : c, d, e \in DepsValue} \cup {tree({})}
=============================================================================
