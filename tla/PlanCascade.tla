---------------------------- MODULE PlanCascade ----------------------------
(***************************************************************************)
(* One plan of plan_manager: its step and MRS rows, its version store, its *)
(* cascades and its aggregate status, under the commands that change them. *)
(*                                                                         *)
(* Every command runs in one database transaction (runtime/context.py), so *)
(* here a command is one action: a refused command rolls back and is a     *)
(* stuttering step.  The server runs its commands one after the other; the *)
(* queue workers beside it, whose transactions may overlap, are outside    *)
(* this module.                                                            *)
(*                                                                         *)
(* A command carries no cascade_uuid ("direct") or that of the open cascade*)
(* ("cascade"); any other uuid is refused.                                 *)
(***************************************************************************)
EXTENDS ExecutionGraph, VersionStore

CONSTANTS MrsEntities,   \* uuids concepts and relations may be given
          CascadeIds,    \* uuids cascades may be given
          ImportTrees,   \* step tables plan_import may create
          MaxRevs,       \* bound on the revisions recorded
          MaxEdits       \* bound on the references one edit adds or takes away

ASSUME EntitiesAssumption == Entities = Steps \cup MrsEntities
ASSUME MrsAssumption      == Steps \cap MrsEntities = {}
ASSUME AbsentAssumption   == /\ Absent \notin StepRow
                             /\ Absent \notin Contents
ASSUME ImportAssumption   ==
    ImportTrees \subseteq [Steps -> [parent : Steps \cup {NoParent}, id : StepIds,
                                     deps : SUBSET Refs, content : Contents,
                                     status : {"draft"}] \cup {Absent}]
\* The importer finds the parent of a step in the directory around its own, and
\* the table has the unique index step_scope_id.
ASSUME ImportTreesAssumption ==
    \A tree \in ImportTrees : LevelsFit(tree) /\ ParentsThere(tree) /\ IdsUnique(tree)
ASSUME MaxRevsAssumption  == MaxRevs \in Nat /\ MaxEdits \in Nat

VARIABLES
    rows,        \* tables step, concept and relation
    revs,        \* tables revision and node_version
    head,        \* plan.head_revision_uuid
    planStatus,  \* plan.status
    completed,   \* plan.completed
    cascades,    \* table cascade, with the target of the cascade's ref row
    bypassed     \* history: some revision reached the head past a cascade

vars == <<rows, revs, head, planStatus, completed, cascades, bypassed>>

Modes == {"direct", "cascade"}

Row(e) ==
    IF e \in Steps THEN {r \in StepRow : r.status \in KnownStatuses(LevelOf[e])}
                   ELSE Contents

Tables == {t \in [Entities -> StepRow \cup Contents \cup {Absent}] :
              \A e \in Entities : t[e] \in Row(e) \cup {Absent}}

RevisionRow == [parent : Nat, touched : SUBSET Entities, at : Tables,
                chain : SUBSET Nat]

CascadeRow == [status : {"none", "open", "committed", "aborted"},
               base : Nat, ref : Nat]

Revisions == 1..Len(revs)

NoCascade == [status |-> "none", base |-> NoRevision, ref |-> NoRevision]

OpenCascades == {c \in CascadeIds : cascades[c].status = "open"}

\* get_open_cascade
IsOpen      == OpenCascades # {}
OpenCascade == CHOOSE c \in OpenCascades : TRUE

\* current_working_state: the tip of the open cascade, else the head.
WorkingRevision == IF IsOpen THEN cascades[OpenCascade].ref ELSE head

TypeOK ==
    /\ rows \in Tables
    /\ revs \in Seq(RevisionRow)
    /\ head \in Revisions \cup {NoRevision}
    /\ planStatus \in PlanStatuses
    /\ completed \in BOOLEAN
    /\ bypassed \in BOOLEAN
    /\ cascades \in [CascadeIds -> CascadeRow]

\* plan_create leaves an empty plan without a head; plan_import also creates
\* a tree of draft steps and records it.
Init ==
    /\ \/ /\ rows = EmptyState
          /\ revs = <<>>
          /\ head = NoRevision
       \/ \E tree \in ImportTrees :
             LET present == {s \in Steps : tree[s] # Absent}
             IN  /\ rows = Overlay(EmptyState, [s \in present |-> tree[s]])
                 /\ revs = RecordRevision(<<>>, NoRevision, [s \in present |-> tree[s]])
                 /\ head = 1
    /\ planStatus = "draft"
    /\ completed = FALSE
    /\ cascades = [c \in CascadeIds |-> NoCascade]
    /\ bypassed = FALSE

----------------------------------------------------------------------------
(* Admission (cascade/regime.py).                                          *)

AdmitCascade(mode) == IF mode = "cascade" THEN IsOpen ELSE ~IsOpen

\* Mutant: only the step and what is below it are looked at.
AdmitBelowFrozen(s, mode) ==
    /\ AdmitCascade(mode)
    /\ mode = "direct" => /\ rows[s].status \in DirectStatuses
                          /\ ~FrozenAtOrBelow(rows, s)

AdmitStep(s, mode) ==
    /\ AdmitCascade(mode)
    /\ mode = "direct" =>
          /\ rows[s].status \in DirectStatuses
          /\ ~FrozenAtOrBelow(rows, s)
          /\ ~FrozenAncestor(rows, s)

\* The "paragraph" kind, under which step_create also files a new root step.
AdmitPlan(mode) ==
    /\ AdmitCascade(mode)
    /\ mode = "direct" => FrozenSteps(rows) = {}

----------------------------------------------------------------------------
(* Writing one revision: on the ref of the open cascade, or on the head.   *)

\* Mutant: the parent is read from the plan, as in direct mode.
RecordOnHead(mode, changes) ==
    /\ Len(revs) < MaxRevs
    /\ revs' = RecordRevision(revs, head, changes)
    /\ IF mode = "cascade"
       THEN /\ cascades' = [cascades EXCEPT ![OpenCascade].ref = Len(revs) + 1]
            /\ head' = head
       ELSE head' = Len(revs) + 1 /\ cascades' = cascades

\* Mutant: no ref name is passed, so the head moves as well.
RecordPublishes(mode, changes) ==
    /\ Len(revs) < MaxRevs
    /\ IF mode = "cascade"
       THEN /\ revs' = RecordRevision(revs, cascades[OpenCascade].ref, changes)
            /\ cascades' = [cascades EXCEPT ![OpenCascade].ref = Len(revs) + 1]
       ELSE /\ revs' = RecordRevision(revs, head, changes)
            /\ cascades' = cascades
    /\ head' = Len(revs) + 1

\* record_revision, cascade_write and cascade_write_many: the parent is the
\* ref's target in a cascade and the plan's head otherwise.
Record(mode, changes) ==
    /\ Len(revs) < MaxRevs
    /\ IF mode = "cascade"
       THEN /\ revs' = RecordRevision(revs, cascades[OpenCascade].ref, changes)
            /\ cascades' = [cascades EXCEPT ![OpenCascade].ref = Len(revs) + 1]
            /\ head' = head
       ELSE /\ revs' = RecordRevision(revs, head, changes)
            /\ head' = Len(revs) + 1
            /\ cascades' = cascades

\* A changed step s, with the invalidation of its descendants in a cascade.
\* table is the step table after the change to s.
WriteStep(s, table, mode) ==
    LET hit   == IF mode = "cascade" THEN StepInvalidation(table, s) ELSE {}
        final == Invalidated(table, hit)
    IN  /\ rows' = final
        /\ Record(mode, Snapshot(final, {s} \cup hit))

----------------------------------------------------------------------------
(* Commands on steps.                                                      *)

NewStepRow(p, id, content) ==
    [parent |-> p, id |-> id, deps |-> {}, content |-> content, status |-> "draft"]

\* step_create.  The uuid is fresh: no revision has ever named it.
StepCreate(s, p, content, mode) ==
    /\ ~completed
    /\ rows[s] = Absent /\ \A r \in Revisions : s \notin revs[r].touched
    /\ ValidParent(rows, LevelOf[s], p)
    /\ IF p = NoParent THEN AdmitPlan(mode) ELSE AdmitStep(p, mode)
    /\ \E id \in StepIds :
          /\ IsNextFreeId(id, rows, p, LevelOf[s])
          /\ rows' = [rows EXCEPT ![s] = NewStepRow(p, id, content)]
    /\ Record(mode, Snapshot(rows', {s}))
    /\ UNCHANGED <<planStatus, completed, bypassed>>

\* step_update
StepUpdate(s, content, mode) ==
    /\ ~completed
    /\ s \in Present(rows)
    /\ AdmitStep(s, mode)
    /\ WriteStep(s, [rows EXCEPT ![s].content = content], mode)
    /\ UNCHANGED <<planStatus, completed, bypassed>>

\* The regime exempts running a frozen atomic step while no cascade is open.
IsAtomicExecution(s, status, mode) ==
    /\ mode = "direct" /\ ~IsOpen
    /\ LevelOf[s] = AtomicLevel
    /\ <<rows[s].status, status>> \in ExecutionTransitions

\* step_set_status
StepSetStatus(s, status, mode) ==
    /\ ~completed
    /\ s \in Present(rows)
    /\ IsAtomicExecution(s, status, mode) \/ AdmitStep(s, mode)
    /\ LegalTransition(rows[s].status, status, LevelOf[s], FALSE)
    /\ WriteStep(s, [rows EXCEPT ![s] = SetStatus(@, status)], mode)
    /\ UNCHANGED <<planStatus, completed, bypassed>>

\* Mutant: the cascade is checked, the status of the steps is not.
PersistOutright(deps, mode) ==
    LET targets == DOMAIN deps
        after   == [e \in Entities |->
                       IF e \in targets THEN [rows[e] EXCEPT !.deps = deps[e]] ELSE rows[e]]
    IN  /\ ~completed
        /\ AdmitCascade(mode)
        /\ rows' = after
        /\ Record(mode, Snapshot(after, targets))
        /\ UNCHANGED <<planStatus, completed, bypassed>>

\* persist_changes: new dependencies for some steps, in one revision of these
\* steps, without invalidation.
PersistChanges(deps, mode) ==
    LET targets == DOMAIN deps
        after   == [e \in Entities |->
                       IF e \in targets THEN [rows[e] EXCEPT !.deps = deps[e]] ELSE rows[e]]
    IN  /\ ~completed
        /\ \A s \in targets : AdmitStep(s, mode)
        /\ rows' = after
        /\ Record(mode, Snapshot(after, targets))
        /\ UNCHANGED <<planStatus, completed, bypassed>>

\* What the references of the plan may become: old ones may dangle, new ones
\* name a step.
PossibleEdges ==
    LET refs(s) == rows[s].deps \cup (Refs \cap {RefTo(rows, s, t) : t \in Nameable(rows, s)})
    IN  UNION {{<<s, ref>> : ref \in refs(s)} : s \in Present(rows)}

CurrentEdges == UNION {{<<s, ref>> : ref \in rows[s].deps} : s \in Present(rows)}

\* One edit adds and takes away so many references.
Edits ==
    {edges \in SUBSET PossibleEdges :
        Cardinality(edges \ CurrentEdges) + Cardinality(CurrentEdges \ edges) <= MaxEdits}

\* Mutant: the edit is not simulated.
DependUnchecked(edges, mode) ==
    LET refs(s) == {e[2] : e \in {x \in edges : x[1] = s}}
        targets == {s \in Present(rows) : refs(s) # rows[s].deps}
    IN  targets # {} /\ PersistChanges([s \in targets |-> refs(s)], mode)

\* step_dependency_add, _set and _apply and execution_dependency_apply: the
\* references become edges.
StepDependencies(edges, mode) ==
    LET refs(s) == {e[2] : e \in {x \in edges : x[1] = s}}
        targets == {s \in Present(rows) : refs(s) # rows[s].deps}
        deps    == [s \in targets |-> refs(s)]
    IN  /\ targets # {}
        /\ PersistChanges(deps, mode)
        /\ OrderAdmits(rows, rows')

\* step_dependency_remove and _clear, which check nothing on the graph.
StepDependencyRemove(s, refs, mode) ==
    /\ s \in Present(rows)
    /\ refs # {} /\ refs \subseteq rows[s].deps
    /\ PersistChanges([t \in {s} |-> rows[s].deps \ refs], mode)

\* step_move.  Moving a step under the parent it has changes no row, yet the
\* revision and the invalidation of its descendants are written.
StepMove(s, p, mode) ==
    /\ ~completed
    /\ s \in Present(rows) /\ p \in Present(rows)
    /\ AdmitStep(s, mode)
    /\ mode = "direct" => ~FrozenAtOrBelow(rows, p) /\ ~FrozenAncestor(rows, p)
    /\ \/ /\ p = rows[s].parent
          /\ WriteStep(s, rows, mode)
       \/ /\ p # rows[s].parent
          /\ ValidParent(rows, LevelOf[s], p)
          /\ \E id \in StepIds :
                /\ IsNextFreeId(id, rows, p, LevelOf[s])
                /\ WriteStep(s, [Scrubbed(rows, s) EXCEPT ![s] =
                                   [@ EXCEPT !.parent = p, !.id = id, !.deps = {}]],
                             mode)
    /\ UNCHANGED <<planStatus, completed, bypassed>>

\* Mutant: the children of the step are forgotten.
DeleteAlone(s, recursive, mode) ==
    /\ ~completed
    /\ s \in Present(rows)
    /\ AdmitStep(s, mode)
    /\ rows' = Overlay(Scrubbed(rows, s), Deleted({s}))
    /\ Record(mode, Deleted({s}))
    /\ UNCHANGED <<planStatus, completed, bypassed>>

\* step_delete: a childless step, or recursively with its subtree.
StepDelete(s, recursive, mode) ==
    LET doomed == IF recursive THEN Subtree(rows, s) ELSE {s}
    IN  /\ ~completed
        /\ s \in Present(rows)
        /\ ~recursive => Children(rows, s) = {}
        /\ AdmitStep(s, mode)
        /\ rows' = Overlay(Scrubbed(rows, s), Deleted(doomed))
        /\ Record(mode, Deleted(doomed))
        /\ UNCHANGED <<planStatus, completed, bypassed>>

\* The scopes of step_transition: one step, a branch, the whole plan.
TransitionScopes ==
    {{s} : s \in Present(rows)}
        \cup {Subtree(rows, s) : s \in {t \in Present(rows) : LevelOf[t] # AtomicLevel}}
        \cup {Present(rows)}

\* step_transition.  Only reopening frozen steps demands a cascade; any other
\* transition without a cascade_uuid is written to the head, cascade or not.
StepTransition(scope, to, mode) ==
    LET moving == {s \in scope : rows[s].status # to}
        reopen == to # "frozen" /\ moving \cap FrozenSteps(rows) # {}
        after  == [e \in Entities |->
                      IF e \in moving THEN SetStatus(rows[e], to) ELSE rows[e]]
    IN  /\ ~completed
        /\ moving # {}
        /\ \A s \in moving : TransitionAllowed(rows[s].status, to, LevelOf[s])
        /\ reopen => mode = "cascade"
        /\ mode = "cascade" => IsOpen
        /\ rows' = after
        /\ planStatus' = DerivePlanStatus({after[s].status : s \in Present(rows)})
        /\ Record(mode, Snapshot(after, moving))
        /\ bypassed' = (bypassed \/ (mode = "direct" /\ IsOpen))
        /\ UNCHANGED completed

----------------------------------------------------------------------------
(* Commands on the MRS: concept_* and relation_*, cascade only.  A NULL    *)
(* row is added, updated or, with new = Absent, removed.                   *)

\* Mutant: the global steps are invalidated but not snapshotted.
MrsWriteAlone(e, new) ==
    LET after == [Invalidated(rows, MrsInvalidation(rows)) EXCEPT ![e] = new]
    IN  /\ ~completed
        /\ IsOpen
        /\ rows[e] = Absent => new # Absent
        /\ rows' = after
        /\ Record("cascade", Snapshot(after, {e}))
        /\ UNCHANGED <<planStatus, completed, bypassed>>

MrsWrite(e, new) ==
    LET hit   == MrsInvalidation(rows)
        after == [Invalidated(rows, hit) EXCEPT ![e] = new]
    IN  /\ ~completed
        /\ IsOpen
        /\ rows[e] = Absent => new # Absent
        /\ rows' = after
        /\ Record("cascade", Snapshot(after, {e} \cup hit))
        /\ UNCHANGED <<planStatus, completed, bypassed>>

----------------------------------------------------------------------------
(* Cascades (cascade/begin.py, close.py, restore.py; plan_unfreeze).       *)

AllFrozen == Present(rows) # {} /\ Present(rows) = FrozenSteps(rows)

OpenNewCascade(c) ==
    /\ ~IsOpen
    /\ head # NoRevision
    /\ cascades[c].status = "none"
    /\ cascades' = [cascades EXCEPT ![c] =
                       [status |-> "open", base |-> head, ref |-> head]]
    /\ UNCHANGED <<rows, revs, head, completed, bypassed>>

\* cascade_begin
CascadeBegin(c) ==
    /\ ~completed
    /\ planStatus # "frozen"
    /\ ~AllFrozen
    /\ OpenNewCascade(c)
    /\ UNCHANGED planStatus

\* plan_unfreeze: resets the aggregate first, so begin_cascade's test of
\* plan.status never refuses it.
PlanUnfreeze(c) ==
    /\ ~completed
    /\ AllFrozen
    /\ planStatus' = "draft"
    /\ OpenNewCascade(c)

\* Mutant: the ref outlives the cascade.
CommitKeepsRef(c) ==
    /\ ~completed
    /\ c \in OpenCascades
    /\ head' = cascades[c].ref
    /\ cascades' = [cascades EXCEPT ![c].status = "committed"]
    /\ UNCHANGED <<rows, revs, planStatus, completed, bypassed>>

\* cascade_commit on a green gate; on a red one it changes nothing.
CascadeCommit(c) ==
    /\ ~completed
    /\ c \in OpenCascades
    /\ head' = cascades[c].ref
    /\ cascades' = [cascades EXCEPT ![c].status = "committed", ![c].ref = NoRevision]
    /\ UNCHANGED <<rows, revs, planStatus, completed, bypassed>>

\* The unique index step_scope_id, met while restore_state writes one row
\* after another: changed rows first, removed rows next, each in uuid order,
\* and the added rows still in place.
RestoreCollides(base, tip) ==
    LET changed == Changed(revs, base, tip) \cap Steps
        removed == Removed(revs, base, tip) \cap Steps
        before(t, s) == \/ t \in changed /\ s \in removed
                        \/ t \in changed /\ s \in changed /\ t < s
                        \/ t \in removed /\ s \in removed /\ t < s
        seen(t, s) == IF before(t, s) THEN StateAt(revs, base)[t] ELSE rows[t]
    IN  \E s \in changed \cup removed : \E t \in Steps \ {s} :
           /\ seen(t, s) # Absent
           /\ LevelOf[t] = LevelOf[s]
           /\ seen(t, s).parent = StateAt(revs, base)[s].parent
           /\ seen(t, s).id = StateAt(revs, base)[s].id

\* cascade_abort
CascadeAbort(c) ==
    LET base == cascades[c].base
        tip  == cascades[c].ref
    IN  /\ ~completed
        /\ c \in OpenCascades
        /\ ~RestoreCollides(base, tip)
        /\ rows' = Restored(revs, rows, base, tip)
        /\ cascades' = [cascades EXCEPT ![c].status = "aborted", ![c].ref = NoRevision]
        /\ UNCHANGED <<revs, head, planStatus, completed, bypassed>>

\* plan_completed_set
PlanCompletedSet(flag) ==
    /\ completed' = flag
    /\ UNCHANGED <<rows, revs, head, planStatus, cascades, bypassed>>

----------------------------------------------------------------------------
StepCommand(mode) ==
    \E s \in Steps :
        \/ \E p \in Steps \cup {NoParent}, c \in Contents : StepCreate(s, p, c, mode)
        \/ \E c \in Contents : StepUpdate(s, c, mode)
        \/ \E status \in AllStatuses : StepSetStatus(s, status, mode)
        \/ \E p \in Steps : StepMove(s, p, mode)
        \/ \E recursive \in BOOLEAN : StepDelete(s, recursive, mode)

\* The guards that StepDependencies has too save TLC the search for edges.
DependencyCommand(mode) ==
    \/ /\ AdmitCascade(mode) /\ Len(revs) < MaxRevs
       /\ \E edges \in Edits : StepDependencies(edges, mode)
    \/ \E s \in Present(rows) :
          \E refs \in {rows[s].deps} \cup {{ref} : ref \in rows[s].deps} :
              StepDependencyRemove(s, refs, mode)

TransitionCommand(mode) ==
    \E scope \in TransitionScopes, to \in TransitionTargets : StepTransition(scope, to, mode)

CascadeCommand ==
    \E c \in CascadeIds :
        CascadeBegin(c) \/ PlanUnfreeze(c) \/ CascadeCommit(c) \/ CascadeAbort(c)

Next ==
    \/ \E mode \in Modes :
          StepCommand(mode) \/ DependencyCommand(mode) \/ TransitionCommand(mode)
    \/ \E e \in MrsEntities, new \in Contents \cup {Absent} : MrsWrite(e, new)
    \/ CascadeCommand
    \/ \E flag \in BOOLEAN : PlanCompletedSet(flag)

Spec == Init /\ [][Next]_vars
=============================================================================
