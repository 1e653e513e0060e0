---------------------------- MODULE BugStatuses ----------------------------
(***************************************************************************)
(* The status vocabularies of the bug lifecycle, the tables of the legal   *)
(* transitions, and the two pure functions that read a bug's records: the  *)
(* status derived from them (domain/bug_derived_status.py) and the         *)
(* decision whether the bug may close (domain/bug_closure_discipline.py).  *)
(* Both are given the live fixes, impacts and propagations as sets of      *)
(* records; neither looks at their order or number.                        *)
(***************************************************************************)

BugStatuses ==
    {"reported", "triaged", "confirmed", "rejected", "duplicate", "fixing",
     "fixed_source", "propagating", "verified", "closed", "reopened"}

TerminalStatuses == {"closed", "rejected", "duplicate"}

\* LEGAL_SOURCES of domain/bug_status_transitions.py.
LegalSources(command) ==
    CASE command = "bug_triage"  -> {"reported"}
      [] command = "bug_confirm" -> {"reported", "triaged", "confirmed"}
      [] command = "bug_reopen"  -> TerminalStatuses
      [] command \in {"bug_reject", "bug_close", "bug_mark_duplicate"} ->
            BugStatuses \ TerminalStatuses

\* COMMAND_TARGET, for the commands that set a status and nothing else.
CommandTarget(command) ==
    CASE command = "bug_triage"  -> "triaged"
      [] command = "bug_confirm" -> "confirmed"
      [] command = "bug_reject"  -> "rejected"
      [] command = "bug_reopen"  -> "reopened"

----------------------------------------------------------------------------

FixStatuses ==
    {"proposed", "in_progress", "implemented", "failed", "partial",
     "reverted", "rejected", "verified"}

\* Mutant: a verified fix may be taken up again.
FixReverifiable(status) ==
    CASE status = "proposed"    -> {"in_progress", "rejected"}
      [] status = "in_progress" -> {"implemented", "failed", "partial", "rejected"}
      [] status = "implemented" -> {"verified", "failed"}
      [] status = "partial"     -> {"in_progress", "implemented", "failed"}
      [] status = "failed"      -> {"in_progress", "reverted"}
      [] status = "verified"    -> {"in_progress"}
      [] OTHER                  -> {}

\* FIX_LEGAL_TRANSITIONS
FixTargets(status) ==
    CASE status = "proposed"    -> {"in_progress", "rejected"}
      [] status = "in_progress" -> {"implemented", "failed", "partial", "rejected"}
      [] status = "implemented" -> {"verified", "failed"}
      [] status = "partial"     -> {"in_progress", "implemented", "failed"}
      [] status = "failed"      -> {"in_progress", "reverted"}
      [] OTHER                  -> {}

ImpactStatuses ==
    {"suspected", "confirmed", "unaffected", "pending_resolution",
     "resolved", "verified", "skipped"}

PropagationStatuses ==
    {"pending", "ready", "in_progress", "done", "failed", "blocked",
     "skipped", "verified"}

\* PROPAGATION_LEGAL_TRANSITIONS
PropagationTargets(status) ==
    CASE status = "pending"     -> {"ready", "in_progress", "blocked", "skipped"}
      [] status = "ready"       -> {"in_progress", "blocked", "skipped"}
      [] status = "in_progress" -> {"done", "failed", "blocked"}
      [] status = "blocked"     -> {"pending", "ready", "in_progress", "skipped"}
      [] status = "failed"      -> {"in_progress", "skipped"}
      [] status = "done"        -> {"verified"}
      [] OTHER                  -> {}

----------------------------------------------------------------------------

FinishedPropagations == {"done", "verified", "skipped"}
ClearedImpacts       == {"unaffected", "verified", "skipped"}

\* derive_bug_status gives None when there is no fix.
NoStatus == "none"

VerifiedAndPassed(fixes) ==
    \E f \in fixes : f.status = "verified" /\ f.passed = "yes"

DeriveBugStatus(fixes, impacts, props) ==
    CASE fixes = {}                 -> NoStatus
      [] ~VerifiedAndPassed(fixes)  -> "fixing"
      [] OTHER ->
           IF \E p \in props : p.status \notin FinishedPropagations
           THEN "propagating"
           ELSE IF \E i \in impacts : i.status \notin ClearedImpacts
                THEN "fixed_source"
                ELSE "verified"

\* evaluate_closure: can_close.  Here a skipped impact needs its reason and
\* its owner decision.
CanClose(fixes, impacts, props) ==
    /\ VerifiedAndPassed(fixes)
    /\ \A i \in impacts :
          \/ i.status \in {"unaffected", "verified"}
          \/ i.status = "skipped" /\ i.decided
    /\ \A p \in props : p.status \in FinishedPropagations
=============================================================================
