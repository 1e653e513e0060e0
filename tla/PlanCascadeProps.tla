-------------------------- MODULE PlanCascadeProps --------------------------
(***************************************************************************)
(* What module PlanCascade has to satisfy: the safety invariants, the      *)
(* action properties, the refinement of PublishedPlan, and the claims of   *)
(* the documentation that the code does not keep.                          *)
(***************************************************************************)
EXTENDS PlanCascade

\* A table without the dependencies between siblings, which delete_step and
\* move_step rewrite without recording it.
WithoutDeps(table) ==
    [e \in Entities |-> IF e \in Steps /\ table[e] # Absent
                        THEN [table[e] EXCEPT !.deps = {}] ELSE table[e]]

\* The steps under s, by the parent links alone.
Below(table, s) ==
    {d \in Present(table) :
        \/ table[d].parent = s
        \/ \E m \in Present(table) : table[d].parent = m /\ table[m].parent = s}

Aborts == \E c \in OpenCascades : cascades'[c].status = "aborted"

----------------------------------------------------------------------------
(* Invariants                                                              *)

\* At most one cascade of the plan is open; an open cascade, and no other, has
\* its ref; the ref has grown from the base; and the head waits at the base
\* until the commit, unless a transition went past the cascade.
CascadeAnchored ==
    /\ \A c, d \in OpenCascades : c = d
    /\ \A c \in CascadeIds : (cascades[c].ref # NoRevision) <=> c \in OpenCascades
    /\ \A c \in OpenCascades :
          /\ cascades[c].base \in Chain(revs, cascades[c].ref)
          /\ ~bypassed => head = cascades[c].base

\* The working rows are what the version store reads at the working revision
\* (current_working_state), but for dependencies: those of the rows are at
\* most those recorded.  Every command that changes a row has snapshotted it,
\* the descendants it invalidated included.
RowsRecorded ==
    ~bypassed =>
        LET recorded == StateAt(revs, WorkingRevision)
        IN  /\ WithoutDeps(rows) = WithoutDeps(recorded)
            /\ \A s \in Present(rows) : rows[s].deps \subseteq recorded[s].deps

\* No edit is lost: a revision that log() does not reach from the working
\* revision was recorded on a cascade that was aborted.
HistoryKept ==
    ~bypassed =>
        \A r \in Revisions \ Chain(revs, WorkingRevision) :
            \E c \in CascadeIds : /\ cascades[c].status = "aborted"
                                  /\ cascades[c].base \in Chain(revs, r) \ {r}

\* parent_step_uuid carries no foreign key, yet every step has its parent, one
\* level up: deletions take the subtree, moves and restores keep the levels.
\* Once a transition has gone past a cascade, the abort of a later one may give
\* back a step whose parent went with the first; the levels fit even then.
TreeWellFormed ==
    /\ LevelsFit(rows)
    /\ ~bypassed => ParentsThere(rows)

\* Identifier assignment never runs into the unique index step_scope_id, and a
\* restored step does not share its identifier with a younger sibling.
StepIdsUnique == IdsUnique(rows)

----------------------------------------------------------------------------
(* Action properties                                                       *)

\* Outside a cascade a frozen step keeps its place, its content and all its
\* descendants with theirs; its status moves only by running an atomic step.
FrozenTruth ==
    [][~IsOpen =>
        \A f \in FrozenSteps(rows) :
            /\ f \in Present(rows')
            /\ \/ rows'[f].status = "frozen"
               \/ LevelOf[f] = AtomicLevel /\ rows'[f].status = "in_progress"
            /\ Below(rows', f) = Below(rows, f)
            /\ \A d \in {f} \cup Below(rows, f) :
                  /\ rows'[d].parent = rows[d].parent
                  /\ rows'[d].id = rows[d].id
                  /\ rows'[d].content = rows[d].content]_vars

\* Inside a cascade, a step that is rewritten or moved leaves none of its
\* descendants, on any level, looking reviewed, unless it runs or has run.
StaleDescendantsFlagged ==
    [][\A s \in Present(rows) \cap Present(rows') :
          /\ IsOpen /\ ~Aborts
          /\ \/ rows'[s].content # rows[s].content
             \/ rows'[s].parent # rows[s].parent
          => \A d \in Below(rows', s) :
                rows'[d].status \in {"needs_review"} \cup AtomicStatuses]_vars

\* Work done is not taken back: an atomic step that runs can only become done,
\* and a done one stays done, whatever happens above it, until it is deleted
\* or the cascade in which that happened is aborted.
ExecutionKept ==
    [][\A s \in WithStatus(rows, AtomicStatuses) \cap Present(rows') :
          \/ rows'[s].status \in {rows[s].status, "done"}
          \/ Aborts]_vars

\* Every number among the dependencies names a sibling.
NumbersNamed(table) ==
    \A s \in Present(table) : \A ref \in table[s].deps \cap SiblingRefs :
        Named(table, s, ref) # {}

\* A step is moved and takes others along, whose paths change with it.
Carries ==
    \E s \in Present(rows) \cap Present(rows') :
        rows'[s].parent # rows[s].parent /\ Children(rows, s) # {}

\* Every command but cascade_abort keeps the numbers among the dependencies
\* sound and keeps the steps from waiting for each other in a circle: deletions
\* and moves scrub, identifiers in use are not given again, edits are checked.
\* A circle closes only if a move takes atomic steps along while a path among
\* the dependencies names nothing: one of them may come to the place it names.
DepsKept ==
    [][ParentsThere(rows) /\ NumbersNamed(rows) /\ ~HasCycle(DeclaredEdges(rows)) /\ ~Aborts
       => /\ NumbersNamed(rows')
          /\ (Carries => AllResolve(rows)) => ~HasCycle(DeclaredEdges(rows'))]_vars

\* Outside a cascade a frozen step depends on what it depended on when it was
\* frozen, except for siblings that were deleted or moved away: delete_step and
\* move_step scrub their identifiers from frozen siblings too, which admission
\* does not look at.
FrozenDepsHeld ==
    [][~IsOpen =>
        \A f \in FrozenSteps(rows) \cap Present(rows') :
            /\ rows'[f].deps \subseteq rows[f].deps
            /\ \A t \in Siblings(rows, f) \cap Present(rows') :
                  <<rows[t].id>> \in rows[f].deps /\ rows'[t].parent = rows[t].parent
                  => <<rows'[t].id>> \in rows'[f].deps]_vars

\* A step the abort gives back is the step the cascade found at its base, and
\* a row the cascade added is gone.
AbortRestoresBase ==
    [][\A c \in OpenCascades :
          cascades'[c].status = "aborted" /\ ~bypassed =>
              WithoutDeps(rows') = WithoutDeps(StateAt(revs, cascades[c].base))]_vars

----------------------------------------------------------------------------
(* Refinement: what a reader of the head and an author of rows may rely on *)

Abstract == INSTANCE PublishedPlan WITH
    States    <- Tables,
    published <- WithoutDeps(StateAt(revs, head)),
    working   <- WithoutDeps(rows),
    editing   <- IsOpen,
    bypassed  <- bypassed

\* The plan is a published state and a working copy: edits publish at once
\* outside a cascade, and inside one only its commit publishes.
ImplementsPublishedPlan == Abstract!Spec

----------------------------------------------------------------------------
(* Claims of the documentation                                             *)

\* plan_unfreeze_command: "No state may exist where the tree is editable but
\* the shell says frozen."  While the shell says frozen and no cascade is
\* open, cascade_begin refuses, so plan_unfreeze, which wants every step
\* frozen, is the only door.
FrozenShellHasDoor == planStatus = "frozen" /\ ~IsOpen => AllFrozen

\* check_admission: direct mutation is rejected while a cascade is open, so
\* only the cascade's end may move the head.
HeadStillInCascade == [][IsOpen /\ IsOpen' => head' = head]_vars

\* cascade_abort ends every open cascade.
AbortNeverBlocked ==
    \A c \in OpenCascades : ~RestoreCollides(cascades[c].base, cascades[c].ref)
=============================================================================
