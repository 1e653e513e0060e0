--------------------------- MODULE PublishedPlan ---------------------------
(***************************************************************************)
(* What the version store and the cascades promise together: a plan has a  *)
(* published state and a working copy.                                     *)
(*                                                                         *)
(* bypassed says that a write has reached the published state past an open *)
(* cascade; nothing is promised from then on.                              *)
(***************************************************************************)
CONSTANT States

VARIABLES published, working, editing, bypassed

vars == <<published, working, editing, bypassed>>

Init ==
    /\ working \in States
    /\ published = working
    /\ editing = FALSE
    /\ bypassed = FALSE

\* Outside a cascade a change is published as it is made.
EditDirectly ==
    /\ ~editing
    /\ working' \in States
    /\ published' = working'
    /\ UNCHANGED <<editing, bypassed>>

\* Inside a cascade a change stays private.
EditInCascade ==
    /\ editing
    /\ working' \in States
    /\ UNCHANGED <<published, editing, bypassed>>

Begin ==
    /\ ~editing
    /\ editing' = TRUE
    /\ UNCHANGED <<published, working, bypassed>>

Commit ==
    /\ editing
    /\ editing' = FALSE
    /\ published' = working
    /\ UNCHANGED <<working, bypassed>>

Abort ==
    /\ editing
    /\ editing' = FALSE
    /\ working' = published
    /\ UNCHANGED <<published, bypassed>>

Bypass ==
    /\ bypassed' = TRUE
    /\ bypassed \/ editing

Next == EditDirectly \/ EditInCascade \/ Begin \/ Commit \/ Abort \/ Bypass

Spec == Init /\ [][Next]_vars
=============================================================================
