-------------------------- MODULE VersionStoreWalk --------------------------
(***************************************************************************)
(* The reads of plan_manager/storage/version_ops.py, which walk from a     *)
(* revision to the root, over a store that grows in all directions:        *)
(* revisions on the head, on the ref of a cascade at any earlier revision, *)
(* and reverts.                                                            *)
(***************************************************************************)
EXTENDS VersionStore

CONSTANTS Contents,   \* contents a snapshot may hold
          MaxRevs     \* bound on the revisions recorded

ASSUME AbsentIsNoContent == Absent \notin Contents

VARIABLES revs,   \* tables revision and node_version
          head    \* plan.head_revision_uuid

vars == <<revs, head>>

Revisions == 1..Len(revs)

Init == revs = <<>> /\ head = NoRevision

----------------------------------------------------------------------------
(* The walks                                                               *)

\* log: the revisions from r back to the root.
Log(r) ==
    LET from[q \in Revisions \cup {NoRevision}] ==
            IF q = NoRevision THEN <<>> ELSE <<q>> \o from[revs[q].parent]
    IN  from[r]

\* Mutant: a deleted snapshot does not hide the older ones.
VisitAlive(acc, q) ==
    LET alive == {e \in revs[q].touched : revs[q].at[e] # Absent}
    IN  [seen  |-> acc.seen \cup alive,
         state |-> [e \in Entities |-> IF e \in alive \ acc.seen
                                       THEN revs[q].at[e] ELSE acc.state[e]]]

\* One round of state_at: the first snapshot met counts, the deleted one too.
Visit(acc, q) ==
    [seen  |-> acc.seen \cup revs[q].touched,
     state |-> [e \in Entities |-> IF e \in revs[q].touched \ acc.seen
                                   THEN revs[q].at[e] ELSE acc.state[e]]]

\* state_at: the loop over the log, until the root is behind.
WalkedState(r) ==
    LET log == Log(r)
        met[n \in 0..Len(log)] ==
            IF n = 0 THEN [seen |-> {}, state |-> EmptyState] ELSE Visit(met[n - 1], log[n])
    IN  met[Len(log)].state

----------------------------------------------------------------------------
(* Operations                                                              *)

Grow(parent, changes) ==
    /\ Len(revs) < MaxRevs
    /\ revs' = RecordRevision(revs, parent, changes)

Changes == UNION {[set -> Contents \cup {Absent}] : set \in (SUBSET Entities) \ {{}}}

\* record_revision without a ref name.
RecordOnHead(changes) == Grow(head, changes) /\ head' = Len(revs) + 1

\* record_revision with the name of a ref whose tip is r.
RecordOnRef(r, changes) == Grow(r, changes) /\ head' = head

\* Mutant: what did not exist at r is not deleted.
RevertPresent(r) ==
    LET target == WalkedState(r)
        differ == {e \in Entities : target[e] \notin {Absent, WalkedState(head)[e]}}
    IN  head # NoRevision /\ Grow(head, Snapshot(target, differ)) /\ head' = Len(revs) + 1

\* revert: a revision with what differs between the head and r.
Revert(r) ==
    LET target == WalkedState(r)
        differ == {e \in Entities : target[e] # WalkedState(head)[e]}
    IN  head # NoRevision /\ Grow(head, Snapshot(target, differ)) /\ head' = Len(revs) + 1

Next ==
    \/ \E changes \in Changes :
          RecordOnHead(changes) \/ \E r \in Revisions : RecordOnRef(r, changes)
    \/ \E r \in Revisions : Revert(r)

Spec == Init /\ [][Next]_vars

----------------------------------------------------------------------------
(* Properties                                                              *)

\* state_at and log return what VersionStore keeps with each revision, across
\* branches, deletions and entities that come back, log each revision once.
WalksAgree ==
    \A r \in Revisions :
        /\ WalkedState(r) = revs[r].at
        /\ {Log(r)[i] : i \in DOMAIN Log(r)} = revs[r].chain
        /\ \A i, j \in DOMAIN Log(r) : Log(r)[i] = Log(r)[j] => i = j

\* A revert brings the head to the state of the revision named, and keeps the
\* head it replaces in the log.
RevertRestores ==
    [][\A r \in Revisions : Revert(r) =>
          /\ StateAt(revs', head') = StateAt(revs, r)
          /\ head # NoRevision => head \in revs'[head'].chain]_vars
=============================================================================
