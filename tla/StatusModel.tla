---------------------------- MODULE StatusModel ----------------------------
(***************************************************************************)
(* The lifecycle tables of plan_manager/domain/status_model.py and the     *)
(* pure functions built on them: which status may follow which, what       *)
(* step_transition may do in one call, and the aggregate status of a plan. *)
(***************************************************************************)
EXTENDS Naturals

Statuses       == {"draft", "ready_for_review", "frozen", "needs_review"}
AtomicStatuses == {"in_progress", "done"}
AllStatuses    == Statuses \cup AtomicStatuses

GlobalLevel   == 3
TacticalLevel == 4
AtomicLevel   == 5
Levels        == {GlobalLevel, TacticalLevel, AtomicLevel}

KnownStatuses(level) ==
    IF level = AtomicLevel THEN AllStatuses ELSE Statuses

\* needs_review is in no row: only a cascade may set it.
LegalTargets(status, level) ==
    CASE status = "draft"            -> {"ready_for_review"}
      [] status = "ready_for_review" -> {"frozen", "draft"}
      [] status = "needs_review"     -> {"draft", "frozen"}
      [] status = "in_progress"      -> {"done"}
      [] status = "frozen"           ->
           IF level = AtomicLevel THEN {"in_progress"} ELSE {}
      [] OTHER                       -> {}

\* Mutant: is_atomic_step is passed as True for every step.
TransitionAsAtomic(from, to, level, viaCascade) ==
    IF to = "needs_review" THEN viaCascade ELSE to \in LegalTargets(from, AtomicLevel)

\* validate_transition: the cascade flag adds needs_review and nothing else.
LegalTransition(from, to, level, viaCascade) ==
    /\ from \in KnownStatuses(level)
    /\ to \in KnownStatuses(level)
    /\ IF to = "needs_review" THEN viaCascade
                              ELSE to \in LegalTargets(from, level)

TransitionTargets == {"draft", "ready_for_review", "frozen"}

\* _transition_path: step_transition also hops draft -> frozen and reopens
\* frozen -> draft; everything else is the table above.
TransitionAllowed(from, to, level) ==
    \/ from = "draft" /\ to = "frozen"
    \/ from = "frozen" /\ to = "draft"
    \/ LegalTransition(from, to, level, FALSE)

\* ATOMIC_EXECUTION_TRANSITIONS
ExecutionTransitions ==
    {<<"frozen", "in_progress">>, <<"in_progress", "done">>}

\* DIRECT_STATUSES
DirectStatuses == {"draft", "ready_for_review"}

PlanStatuses == {"draft", "frozen"}

\* derive_plan_status over the set of statuses present in the tree.
DerivePlanStatus(present) == IF present = {"frozen"} THEN "frozen" ELSE "draft"
=============================================================================
