--------------------------- MODULE MCWorkRecords ----------------------------
(***************************************************************************)
(* An instance of WorkRecords for TLC: three attempts at one step, two of  *)
(* them reviewed, and one attempt at another step.                         *)
(***************************************************************************)
EXTENDS WorkRecords

CONSTANTS todo1, todo2, todo3, escalation1, attempt1, attempt2, attempt3, attempt4,
          review1, review2, step1, step2

StepOfValue == [a \in Attempts |-> IF a = attempt4 THEN step2 ELSE step1]
ReviewOfValue == [r \in Reviews |-> IF r = review1 THEN attempt1 ELSE attempt2]
=============================================================================
