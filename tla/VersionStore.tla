---------------------------- MODULE VersionStore ----------------------------
(***************************************************************************)
(* The git-like version store of plan_manager/storage: an append-only      *)
(* sequence of revisions.  A revision is known by its position; NoRevision *)
(* stands for a NULL revision uuid.  Each revision keeps its parent, the   *)
(* entities it touched, the state state_at() reads at it and the chain     *)
(* log() walks from it.  The last two are computed by the code on demand;  *)
(* they are kept in the record so that a proof can refer to them, and      *)
(* module VersionStoreWalk checks that they are what the walks return.     *)
(***************************************************************************)
EXTENDS Naturals, Sequences, Rows

CONSTANT Entities   \* uuids of the versioned rows of one plan

NoRevision == 0

EmptyState == [e \in Entities |-> Absent]

StateAt(revs, r) == IF r = NoRevision THEN EmptyState ELSE revs[r].at

Chain(revs, r) == IF r = NoRevision THEN {} ELSE revs[r].chain

\* A snapshot marked deleted hides its entity from state_at, so a deletion is
\* the change to Absent.
NewRevision(revs, parent, changes) ==
    [parent  |-> parent,
     touched |-> DOMAIN changes,
     at      |-> Overlay(StateAt(revs, parent), changes),
     chain   |-> Chain(revs, parent) \cup {Len(revs) + 1}]

\* record_revision up to the move of a head or a ref, which the caller makes.
RecordRevision(revs, parent, changes) ==
    Append(revs, NewRevision(revs, parent, changes))

\* diff: by presence and, as node versions are content addressed, by content.
Added(revs, a, b) ==
    {e \in Entities : StateAt(revs, a)[e] = Absent /\ StateAt(revs, b)[e] # Absent}
Removed(revs, a, b) == Added(revs, b, a)
Changed(revs, a, b) ==
    {e \in Entities : /\ StateAt(revs, a)[e] # StateAt(revs, b)[e]
                      /\ Absent \notin {StateAt(revs, a)[e], StateAt(revs, b)[e]}}

\* Mutant: what the cascade deleted stays deleted.
RestoredWithoutRemoved(revs, rows, base, tip) ==
    [e \in Entities |->
        IF e \in Changed(revs, base, tip) THEN StateAt(revs, base)[e]
        ELSE IF e \in Added(revs, base, tip) THEN Absent ELSE rows[e]]

\* restore_state: rows changed or removed since base get their base snapshot
\* back, rows added since base are deleted, every other row is left alone.
Restored(revs, rows, base, tip) ==
    [e \in Entities |->
        IF e \in Changed(revs, base, tip) \cup Removed(revs, base, tip)
        THEN StateAt(revs, base)[e]
        ELSE IF e \in Added(revs, base, tip) THEN Absent ELSE rows[e]]
=============================================================================
