------------------------------ MODULE StepTree ------------------------------
(***************************************************************************)
(* The step table of one plan and the functions the commands compute on    *)
(* it: the tree spanned by parent_step_uuid, identifier assignment, sibling*)
(* dependencies, the frozen-truth tests of cascade/regime.py and the       *)
(* invalidation set of cascade/propagation.py.                             *)
(*                                                                         *)
(* A row keeps its parent, its step_id as the number after the prefix, its *)
(* depends_on as a set of references, its authored content (fields,        *)
(* concepts, project binding) and its status.  A reference is a sequence:  *)
(* the number of a sibling, or the three numbers on the canonical path of  *)
(* an atomic step.  The level never changes in the code, so it is a        *)
(* function of the uuid.  Uuids are numbers because restore_state visits   *)
(* rows in uuid order.                                                     *)
(***************************************************************************)
EXTENDS StatusModel, Rows, FiniteSets, Sequences

CONSTANTS Steps,      \* the uuids steps may be given
          LevelOf,    \* level of each uuid
          Contents,   \* authored contents told apart
          MaxStepId   \* largest number a three-digit identifier can carry

NoParent == 0

ASSUME StepsAssumption     == Steps \subseteq Nat \ {NoParent}
ASSUME FiniteStepsAssumption == IsFiniteSet(Steps)
ASSUME LevelOfAssumption   == LevelOf \in [Steps -> Levels]
ASSUME MaxStepIdAssumption == MaxStepId \in Nat
ASSUME AbsentStatusAssumption == Absent \notin AllStatuses

StepIds == 1..MaxStepId

SiblingRefs == {<<n>> : n \in StepIds}
PathRefs    == {<<g, t, a>> : g, t, a \in StepIds}
Refs        == SiblingRefs \cup PathRefs

StepRow == [parent : Steps \cup {NoParent}, id : StepIds,
            deps : SUBSET Refs, content : Contents, status : AllStatuses]

Present(rows) == {s \in Steps : rows[s] # Absent}

WithStatus(rows, set) == {s \in Present(rows) : rows[s].status \in set}
FrozenSteps(rows)     == WithStatus(rows, {"frozen"})
GlobalSteps(rows)     == {s \in Present(rows) : LevelOf[s] = GlobalLevel}

----------------------------------------------------------------------------
(* The tree. Three levels, so two links reach every ancestor.              *)

Children(rows, p) == {s \in Present(rows) : rows[s].parent = p}

\* Mutant: one link only.
ChildrenOnly(rows, s) == Children(rows, s)

\* impact_set: the transitive children of a step.
ImpactSet(rows, s) ==
    Children(rows, s) \cup UNION {Children(rows, c) : c \in Children(rows, s)}

Subtree(rows, s) == {s} \cup ImpactSet(rows, s)

Ancestors(rows, s) == {a \in Present(rows) : s \in ImpactSet(rows, a)}

FrozenAtOrBelow(rows, s) == Subtree(rows, s) \cap FrozenSteps(rows) # {}
FrozenAncestor(rows, s)  == Ancestors(rows, s) \cap FrozenSteps(rows) # {}

\* The level guard of step_create and move_step.
ValidParent(rows, level, p) ==
    IF p = NoParent THEN level = GlobalLevel
    ELSE p \in Present(rows) /\ LevelOf[p] = level - 1

\* No step has a parent of another level than the one above its own, whether
\* or not the parent is there.
LevelsFit(rows) ==
    \A s \in Present(rows) :
        IF rows[s].parent = NoParent THEN LevelOf[s] = GlobalLevel
        ELSE LevelOf[rows[s].parent] = LevelOf[s] - 1

ParentsThere(rows) ==
    \A s \in Present(rows) : rows[s].parent \in Present(rows) \cup {NoParent}

----------------------------------------------------------------------------
(* Identifiers, scoped to (parent, level), and the references made of them.*)

Scope(rows, p, level) == {t \in Children(rows, p) : LevelOf[t] = level}

Siblings(rows, s) == Scope(rows, rows[s].parent, LevelOf[s]) \ {s}

IdsUnique(rows) ==
    \A s \in Present(rows) : \A t \in Siblings(rows, s) : rows[t].id # rows[s].id

ScopeIds(rows, p, level) == {rows[t].id : t \in Scope(rows, p, level)}

\* Mutant: numbers count the steps of the scope.
IsCountPlusOne(id, rows, p, level) == id = Cardinality(ScopeIds(rows, p, level)) + 1

\* next_free_step_id: one more than the largest number in the scope.
IsNextFreeId(id, rows, p, level) ==
    LET ids == ScopeIds(rows, p, level)
    IN  /\ \A n \in ids : n < id
        /\ id = 1 \/ id - 1 \in ids

\* canonical_step_path, of an atomic step
PathOf(rows, a) ==
    LET t == rows[a].parent IN <<rows[rows[t].parent].id, rows[t].id, rows[a].id>>

\* resolve_dependency_target: the steps that a reference of s names.
Named(rows, s, ref) ==
    IF Len(ref) = 1
    THEN {t \in Scope(rows, rows[s].parent, LevelOf[s]) : rows[t].id = ref[1]}
    ELSE {t \in Present(rows) : LevelOf[t] = AtomicLevel /\ PathOf(rows, t) = ref}

\* resolve_dependency_bare: the steps that s may be made to depend on, and the
\* reference to one of them.
Nameable(rows, s) ==
    {t \in Present(rows) \ {s} :
        /\ LevelOf[t] = LevelOf[s]
        /\ rows[t].parent = rows[s].parent \/ LevelOf[s] = AtomicLevel}

RefTo(rows, s, t) ==
    IF rows[t].parent = rows[s].parent THEN <<rows[t].id>> ELSE PathOf(rows, t)

\* Mutant: the siblings are not visited.
NotScrubbed(rows, s) == rows

\* The scrub of delete_step and move_step: s leaves its scope.
Scrubbed(rows, s) ==
    [t \in DOMAIN rows |->
        IF t \in Siblings(rows, s)
        THEN [rows[t] EXCEPT !.deps = @ \ {<<rows[s].id>>}] ELSE rows[t]]

----------------------------------------------------------------------------
(* Status updates of a cascade.                                            *)

SetStatus(row, status) == [row EXCEPT !.status = status]

\* Mutant: atomic steps are treated like the others.
InvalidatesExecution(rows, s) ==
    {d \in ImpactSet(rows, s) : rows[d].status # "needs_review"}

\* step_invalidation: descendants that become needs_review when s changes;
\* an atomic step that runs or has run keeps its execution status.
StepInvalidation(rows, s) ==
    {d \in ImpactSet(rows, s) :
        /\ rows[d].status # "needs_review"
        /\ ~(LevelOf[d] = AtomicLevel /\ rows[d].status \in AtomicStatuses)}

\* The update list every concept and relation command builds, less the steps
\* apply_status_updates skips.
MrsInvalidation(rows) ==
    {s \in GlobalSteps(rows) : rows[s].status # "needs_review"}

\* apply_status_updates to needs_review, on the set of steps it touches.
Invalidated(rows, set) ==
    [t \in DOMAIN rows |->
        IF t \in set THEN SetStatus(rows[t], "needs_review") ELSE rows[t]]
=============================================================================
