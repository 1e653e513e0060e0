------------------------- MODULE PlanCascade_proofs -------------------------
(***************************************************************************)
(* Proofs about PlanCascade, for every tree, every set of cascades and any *)
(* number of revisions: cascades, history and what is published; what the  *)
(* walks of the version store read; that the tree stays well formed and    *)
(* its identifiers unique; and what the steps that are frozen, that run,   *)
(* or that lie below a rewritten step may count on.                        *)
(***************************************************************************)
EXTENDS PlanCascadeProps, FiniteSetTheorems, TLAPS

\* What every revision written by a command consists of: rows, or Absent for
\* a deletion, of entities of the plan.
IsChange(changes) ==
    /\ DOMAIN changes \subseteq Entities
    /\ \A e \in DOMAIN changes : changes[e] \in Row(e) \cup {Absent}

----------------------------------------------------------------------------
(* Rows and tables                                                         *)

LEMMA StepsAreEntities ==
    /\ Steps \subseteq Entities
    /\ MrsEntities \subseteq Entities
    /\ \A e \in Entities : e \in Steps \/ e \in MrsEntities
    /\ \A e \in MrsEntities : e \notin Steps
BY EntitiesAssumption, MrsAssumption

\* A table is a function whose rows have the type of their entity.
LEMMA TableFact ==
    ASSUME NEW t \in Tables, NEW e \in Entities
    PROVE  t[e] \in Row(e) \cup {Absent}
BY DEF Tables

LEMMA TableMade ==
    ASSUME NEW t,
           t = [e \in Entities |-> t[e]],
           \A e \in Entities : t[e] \in Row(e) \cup {Absent}
    PROVE  t \in Tables
<1>1. \A e \in Entities : t[e] \in StepRow \cup Contents \cup {Absent}
  BY DEF Row
<1>2. t \in [Entities -> StepRow \cup Contents \cup {Absent}]
  BY <1>1
<1>3. QED BY <1>2 DEF Tables

LEMMA PresentFact ==
    ASSUME NEW t \in Tables, NEW s \in Present(t)
    PROVE  /\ s \in Steps
           /\ s \in Entities
           /\ t[s] # Absent
           /\ t[s] \in StepRow
           /\ t[s].status \in KnownStatuses(LevelOf[s])
           /\ t[s] \in Row(s)
BY StepsAreEntities, TableFact DEF Present, Row

LEMMA EmptyTyped == EmptyState \in Tables
BY TableMade DEF EmptyState

LEMMA OverlayTyped ==
    ASSUME NEW t \in Tables, NEW changes, IsChange(changes)
    PROVE  /\ Overlay(t, changes) \in Tables
           /\ \A e \in Entities :
                 Overlay(t, changes)[e] = IF e \in DOMAIN changes THEN changes[e] ELSE t[e]
<1>1. DOMAIN t = Entities
  BY DEF Tables
<1>2. \A e \in Entities : Overlay(t, changes)[e] \in Row(e) \cup {Absent}
  BY <1>1, TableFact DEF Overlay, IsChange
<1>3. Overlay(t, changes) = [e \in Entities |-> Overlay(t, changes)[e]]
  BY <1>1 DEF Overlay
<1>4. QED BY <1>1, <1>2, <1>3, TableMade DEF Overlay

LEMMA SnapshotIsChange ==
    ASSUME NEW t \in Tables, NEW set, set \subseteq Entities
    PROVE  IsChange(Snapshot(t, set)) /\ DOMAIN Snapshot(t, set) = set
BY TableFact DEF IsChange, Snapshot

LEMMA DeletedIsChange ==
    ASSUME NEW set, set \subseteq Entities
    PROVE  IsChange(Deleted(set)) /\ DOMAIN Deleted(set) = set
BY DEF IsChange, Deleted

----------------------------------------------------------------------------
(* Revisions                                                               *)

\* Every revision reaches itself, and what it reaches exists.
ChainsSound(store) ==
    \A r \in 1..Len(store) : r \in store[r].chain /\ store[r].chain \subseteq 1..Len(store)

LEMMA RevisionFact ==
    ASSUME NEW store \in Seq(RevisionRow), NEW r \in 0..Len(store), ChainsSound(store)
    PROVE  /\ StateAt(store, r) \in Tables
           /\ Chain(store, r) \subseteq 1..Len(store)
           /\ r # NoRevision => r \in Chain(store, r)
<1>1. CASE r = NoRevision
  BY <1>1, EmptyTyped DEF StateAt, Chain
<1>2. CASE r # NoRevision
  <2>1. r \in 1..Len(store)
    BY <1>2 DEF NoRevision
  <2>2. store[r] \in RevisionRow
    BY <2>1
  <2>3. QED BY <1>2, <2>1, <2>2 DEF StateAt, Chain, RevisionRow, ChainsSound
<1>3. QED BY <1>1, <1>2

\* Recording a revision leaves the others as they are.
LEMMA RecordRevisionFact ==
    ASSUME NEW store \in Seq(RevisionRow), NEW parent \in 0..Len(store),
           ChainsSound(store), NEW changes, IsChange(changes),
           NEW after, after = RecordRevision(store, parent, changes)
    PROVE  /\ after \in Seq(RevisionRow)
           /\ Len(after) = Len(store) + 1
           /\ \A r \in 1..Len(store) : after[r] = store[r]
           /\ after[Len(store) + 1] = NewRevision(store, parent, changes)
           /\ ChainsSound(after)
<1> DEFINE new == NewRevision(store, parent, changes)
<1>1. /\ StateAt(store, parent) \in Tables
      /\ Chain(store, parent) \subseteq 1..Len(store)
  BY RevisionFact
<1>2. Overlay(StateAt(store, parent), changes) \in Tables
  BY <1>1, OverlayTyped
<1>3. Len(store) \in Nat
  OBVIOUS
<1>4. Chain(store, parent) \cup {Len(store) + 1} \in SUBSET Nat
  BY <1>1, <1>3
<1>5. DOMAIN changes \in SUBSET Entities
  BY DEF IsChange
<1>6. new \in RevisionRow
  BY <1>2, <1>3, <1>4, <1>5 DEF NewRevision, RevisionRow
<1>7. after = Append(store, new)
  BY DEF RecordRevision
<1>8. /\ after \in Seq(RevisionRow)
      /\ Len(after) = Len(store) + 1
      /\ \A r \in 1..Len(store) : after[r] = store[r]
      /\ after[Len(store) + 1] = new
  BY <1>6, <1>7
<1>9. ChainsSound(after)
  <2> SUFFICES ASSUME NEW r \in 1..Len(after)
               PROVE  r \in after[r].chain /\ after[r].chain \subseteq 1..Len(after)
    BY DEF ChainsSound
  <2>1. CASE r \in 1..Len(store)
    <3>1. r \in store[r].chain /\ store[r].chain \subseteq 1..Len(store)
      BY <2>1 DEF ChainsSound
    <3>2. QED BY <2>1, <3>1, <1>3, <1>8
  <2>2. CASE r = Len(store) + 1
    <3>1. new.chain = Chain(store, parent) \cup {Len(store) + 1}
      BY DEF NewRevision
    <3>2. QED BY <2>2, <3>1, <1>1, <1>3, <1>8
  <2>3. QED BY <2>1, <2>2, <1>3, <1>8
<1>10. QED BY <1>8, <1>9

----------------------------------------------------------------------------
(* The inductive invariant                                                 *)

\* The references of an open cascade, like the head, are revisions.
RefsExist ==
    \A c \in OpenCascades : /\ cascades[c].base \in Revisions
                            /\ cascades[c].ref \in Revisions

\* A row agrees with a recorded one: equal, but for dependencies it may lack.
AgreesAt(t, u, e) ==
    /\ t[e] = Absent <=> u[e] = Absent
    /\ e \notin Steps => t[e] = u[e]
    /\ e \in Steps /\ t[e] # Absent =>
          /\ t[e].parent = u[e].parent
          /\ t[e].id = u[e].id
          /\ t[e].content = u[e].content
          /\ t[e].status = u[e].status
          /\ t[e].deps \subseteq u[e].deps

RowsAgree == ~bypassed => \A e \in Entities : AgreesAt(rows, StateAt(revs, WorkingRevision), e)

StoreInv == ChainsSound(revs) /\ RefsExist /\ CascadeAnchored

Inv == TypeOK /\ StoreInv /\ RowsAgree

LEMMA AgreesIsRecorded ==
    ASSUME NEW t \in Tables, NEW u \in Tables
    PROVE  (\A e \in Entities : AgreesAt(t, u, e)) <=>
              /\ WithoutDeps(t) = WithoutDeps(u)
              /\ \A s \in Present(t) : t[s].deps \subseteq u[s].deps
<1> DEFINE bare(r) == [r EXCEPT !.deps = {}]
<1>1. \A r, q \in StepRow :
         bare(r) = bare(q) <=> /\ r.parent = q.parent
                               /\ r.id = q.id
                               /\ r.content = q.content
                               /\ r.status = q.status
  <2> SUFFICES ASSUME NEW r \in StepRow, NEW q \in StepRow
               PROVE  bare(r) = bare(q) <=> /\ r.parent = q.parent
                                            /\ r.id = q.id
                                            /\ r.content = q.content
                                            /\ r.status = q.status
    OBVIOUS
  <2>1. /\ bare(r) = [parent |-> r.parent, id |-> r.id, deps |-> {},
                      content |-> r.content, status |-> r.status]
        /\ bare(q) = [parent |-> q.parent, id |-> q.id, deps |-> {},
                      content |-> q.content, status |-> q.status]
    BY DEF StepRow
  <2>2. QED BY <2>1
<1>2. \A r \in StepRow : bare(r) \in StepRow
  BY DEF StepRow
<1>3. \A e \in Entities : (WithoutDeps(t)[e] = WithoutDeps(u)[e]) <=>
         /\ t[e] = Absent <=> u[e] = Absent
         /\ e \notin Steps => t[e] = u[e]
         /\ e \in Steps /\ t[e] # Absent =>
               /\ t[e].parent = u[e].parent
               /\ t[e].id = u[e].id
               /\ t[e].content = u[e].content
               /\ t[e].status = u[e].status
  <2> SUFFICES ASSUME NEW e \in Entities
               PROVE  (WithoutDeps(t)[e] = WithoutDeps(u)[e]) <=>
                         /\ t[e] = Absent <=> u[e] = Absent
                         /\ e \notin Steps => t[e] = u[e]
                         /\ e \in Steps /\ t[e] # Absent =>
                               /\ t[e].parent = u[e].parent
                               /\ t[e].id = u[e].id
                               /\ t[e].content = u[e].content
                               /\ t[e].status = u[e].status
    OBVIOUS
  <2>1. CASE e \notin Steps
    <3>1. WithoutDeps(t)[e] = t[e] /\ WithoutDeps(u)[e] = u[e]
      BY <2>1 DEF WithoutDeps
    <3>2. QED BY <2>1, <3>1
  <2>2. CASE e \in Steps
    <3>1. /\ WithoutDeps(t)[e] = IF t[e] # Absent THEN bare(t[e]) ELSE t[e]
          /\ WithoutDeps(u)[e] = IF u[e] # Absent THEN bare(u[e]) ELSE u[e]
      BY <2>2 DEF WithoutDeps
    <3>2. /\ t[e] # Absent => t[e] \in StepRow
          /\ u[e] # Absent => u[e] \in StepRow
      BY <2>2, PresentFact DEF Present
    <3>3. Absent \notin StepRow
      BY AbsentAssumption
    <3> HIDE DEF bare
    <3>4. QED BY <2>2, <3>1, <3>2, <3>3, <1>1, <1>2
  <2>3. QED BY <2>1, <2>2
<1>4. WithoutDeps(t) = WithoutDeps(u) <=>
         \A e \in Entities : WithoutDeps(t)[e] = WithoutDeps(u)[e]
  BY DEF WithoutDeps
<1>5. (\A s \in Present(t) : t[s].deps \subseteq u[s].deps) <=>
         \A e \in Entities : e \in Steps /\ t[e] # Absent => t[e].deps \subseteq u[e].deps
  BY StepsAreEntities DEF Present
<1>6. QED BY <1>3, <1>4, <1>5 DEF AgreesAt

\* The invariant implies what the runs check of the rows.
LEMMA InvImpliesRowsRecorded == ASSUME Inv PROVE RowsRecorded
<1>1. CASE bypassed
  BY <1>1 DEF RowsRecorded
<1>2. CASE ~bypassed
  <2>1. WorkingRevision \in 0..Len(revs)
    <3>1. CASE IsOpen
      <4>1. OpenCascade \in OpenCascades
        BY <3>1 DEF IsOpen, OpenCascade
      <4>2. QED BY <3>1, <4>1 DEF Inv, StoreInv, RefsExist, WorkingRevision, Revisions
    <3>2. CASE ~IsOpen
      BY <3>2 DEF Inv, TypeOK, WorkingRevision, Revisions, NoRevision
    <3>3. QED BY <3>1, <3>2
  <2>2. StateAt(revs, WorkingRevision) \in Tables
    BY <2>1, RevisionFact DEF Inv, TypeOK, StoreInv
  <2>3. rows \in Tables
    BY DEF Inv, TypeOK
  <2>4. QED BY <1>2, <2>2, <2>3, AgreesIsRecorded DEF Inv, RowsAgree, RowsRecorded
<1>3. QED BY <1>1, <1>2

----------------------------------------------------------------------------
(* Writing a revision                                                      *)

\* With at most one open cascade, OpenCascade names it.
LEMMA TheOpenCascade ==
    ASSUME CascadeAnchored, NEW c \in OpenCascades
    PROVE  IsOpen /\ OpenCascade = c
BY DEF CascadeAnchored, IsOpen, OpenCascade

LEMMA WorkingRevisionExists ==
    ASSUME TypeOK, StoreInv
    PROVE  WorkingRevision \in 0..Len(revs)
<1>1. CASE IsOpen
  <2>1. OpenCascade \in OpenCascades
    BY <1>1 DEF IsOpen, OpenCascade
  <2>2. QED BY <1>1, <2>1 DEF StoreInv, RefsExist, WorkingRevision, Revisions
<1>2. CASE ~IsOpen
  BY <1>2 DEF TypeOK, WorkingRevision, Revisions, NoRevision
<1>3. QED BY <1>1, <1>2

\* What every command that writes does: it records some changes, and the rows
\* become what it recorded, or lose dependencies.
Writes(mode) ==
    \E changes :
        /\ IsChange(changes)
        /\ Record(mode, changes)
        /\ rows' \in Tables
        /\ \A e \in DOMAIN changes : rows'[e] = changes[e]
        /\ \A e \in Entities \ DOMAIN changes : AgreesAt(rows', rows, e)
        /\ mode \in Modes
        /\ mode = "cascade" => IsOpen
        /\ mode = "direct" /\ IsOpen => bypassed'
        /\ bypassed' \in BOOLEAN /\ (bypassed => bypassed')
        /\ bypassed' => bypassed \/ IsOpen
        /\ planStatus' \in PlanStatuses
        /\ UNCHANGED completed

LEMMA AgreesReflexive ==
    ASSUME NEW t, NEW e PROVE AgreesAt(t, t, e)
BY DEF AgreesAt

LEMMA AgreesTransitive ==
    ASSUME NEW t, NEW u, NEW v, NEW e, AgreesAt(t, u, e), AgreesAt(u, v, e)
    PROVE  AgreesAt(t, v, e)
BY DEF AgreesAt

\* The state read at a new revision.
LEMMA StateAtNewRevision ==
    ASSUME TypeOK, ChainsSound(revs), NEW parent \in 0..Len(revs),
           NEW changes, IsChange(changes), revs' = RecordRevision(revs, parent, changes)
    PROVE  \A e \in Entities :
              StateAt(revs', Len(revs) + 1)[e] =
                 IF e \in DOMAIN changes THEN changes[e] ELSE StateAt(revs, parent)[e]
<1>1. revs \in Seq(RevisionRow) /\ Len(revs) \in Nat
  BY DEF TypeOK
<1>2. revs'[Len(revs) + 1] = NewRevision(revs, parent, changes)
  BY <1>1, RecordRevisionFact
<1>3. StateAt(revs, parent) \in Tables
  BY <1>1, RevisionFact
<1>4. StateAt(revs', Len(revs) + 1) = Overlay(StateAt(revs, parent), changes)
  <2>1. Len(revs) + 1 # NoRevision
    BY <1>1 DEF NoRevision
  <2>2. NewRevision(revs, parent, changes).at = Overlay(StateAt(revs, parent), changes)
    BY DEF NewRevision
  <2>3. QED BY <1>2, <2>1, <2>2 DEF StateAt
<1>5. QED BY <1>3, <1>4, OverlayTyped

LEMMA WritesInCascade ==
    ASSUME TypeOK, StoreInv, RowsAgree, Writes("cascade")
    PROVE  Inv'
<1>1. PICK changes :
        /\ IsChange(changes)
        /\ Record("cascade", changes)
        /\ rows' \in Tables
        /\ \A e \in DOMAIN changes : rows'[e] = changes[e]
        /\ \A e \in Entities \ DOMAIN changes : AgreesAt(rows', rows, e)
        /\ IsOpen
        /\ bypassed' \in BOOLEAN /\ (bypassed => bypassed')
        /\ planStatus' \in PlanStatuses
        /\ UNCHANGED completed
  BY DEF Writes
<1> DEFINE c == OpenCascade
           tip == cascades[c].ref
           new == Len(revs) + 1
<1>2. /\ revs' = RecordRevision(revs, tip, changes)
      /\ cascades' = [cascades EXCEPT ![c].ref = new]
      /\ head' = head
  BY <1>1 DEF Record
<1>3. c \in OpenCascades /\ c \in CascadeIds /\ cascades[c].status = "open"
  BY <1>1 DEF IsOpen, OpenCascade, OpenCascades
<1>4. /\ tip \in 1..Len(revs)
      /\ cascades[c].base \in 1..Len(revs)
      /\ Len(revs) \in Nat
      /\ revs \in Seq(RevisionRow)
  BY <1>3 DEF StoreInv, RefsExist, Revisions, TypeOK
<1>5. /\ revs' \in Seq(RevisionRow)
      /\ Len(revs') = new
      /\ \A r \in 1..Len(revs) : revs'[r] = revs[r]
      /\ revs'[new] = NewRevision(revs, tip, changes)
      /\ ChainsSound(revs')
  BY <1>1, <1>2, <1>4, RecordRevisionFact DEF StoreInv
<1>6. cascades' \in [CascadeIds -> CascadeRow]
  BY <1>2, <1>3, <1>4 DEF TypeOK, CascadeRow
<1>7. /\ \A d \in CascadeIds : cascades'[d].status = cascades[d].status
      /\ \A d \in CascadeIds : cascades'[d].base = cascades[d].base
      /\ cascades'[c].ref = new
      /\ \A d \in CascadeIds : d # c => cascades'[d].ref = cascades[d].ref
  BY <1>2, <1>3 DEF TypeOK, CascadeRow
<1>8. OpenCascades' = OpenCascades
  BY <1>7 DEF OpenCascades
<1>9. \A d \in OpenCascades : d = c
  BY <1>3 DEF StoreInv, CascadeAnchored
<1>10. TypeOK'
  BY <1>1, <1>2, <1>4, <1>5, <1>6 DEF TypeOK, Revisions, NoRevision
<1>11. RefsExist'
  BY <1>3, <1>4, <1>5, <1>7, <1>8, <1>9 DEF RefsExist, Revisions
<1>12. CascadeAnchored'
  <2>1. cascades[c].base \in Chain(revs, tip)
    BY <1>3 DEF StoreInv, CascadeAnchored
  <2>2. Chain(revs', new) = Chain(revs, tip) \cup {new}
    <3>1. new # NoRevision
      BY <1>4 DEF NoRevision
    <3>2. QED BY <3>1, <1>5 DEF Chain, NewRevision
  <2>3. \A d \in CascadeIds : (cascades'[d].ref # NoRevision) <=> d \in OpenCascades'
    <3> SUFFICES ASSUME NEW d \in CascadeIds
                 PROVE  (cascades'[d].ref # NoRevision) <=> d \in OpenCascades'
      OBVIOUS
    <3>1. CASE d = c
      BY <3>1, <1>3, <1>4, <1>7, <1>8 DEF NoRevision
    <3>2. CASE d # c
      BY <3>2, <1>7, <1>8 DEF StoreInv, CascadeAnchored
    <3>3. QED BY <3>1, <3>2
  <2>4. ~bypassed' => head' = cascades'[c].base
    BY <1>1, <1>2, <1>3, <1>7 DEF StoreInv, CascadeAnchored
  <2>5. QED BY <1>3, <1>7, <1>8, <1>9, <2>1, <2>2, <2>3, <2>4 DEF CascadeAnchored
<1>13. WorkingRevision = tip /\ WorkingRevision' = new
  <2>1. IsOpen' /\ OpenCascade' = c
    BY <1>1, <1>8 DEF IsOpen, OpenCascade
  <2>2. QED BY <1>1, <1>7, <2>1 DEF WorkingRevision
<1>14. RowsAgree'
  <2> SUFFICES ASSUME ~bypassed', NEW e \in Entities
               PROVE  AgreesAt(rows', StateAt(revs', new), e)
    BY <1>13 DEF RowsAgree
  <2>1. AgreesAt(rows, StateAt(revs, tip), e)
    BY <1>1, <1>13 DEF RowsAgree
  <2>2. StateAt(revs', new)[e] =
           IF e \in DOMAIN changes THEN changes[e] ELSE StateAt(revs, tip)[e]
    BY <1>1, <1>2, <1>4, StateAtNewRevision DEF StoreInv
  <2>3. CASE e \in DOMAIN changes
    BY <1>1, <2>2, <2>3 DEF AgreesAt
  <2>4. CASE e \notin DOMAIN changes
    <3>1. AgreesAt(rows', rows, e)
      BY <1>1, <2>4
    <3>2. AgreesAt(rows', StateAt(revs, tip), e)
      BY <3>1, <2>1, AgreesTransitive
    <3>3. QED BY <2>2, <2>4, <3>2 DEF AgreesAt
  <2>5. QED BY <2>3, <2>4
<1>15. QED BY <1>5, <1>10, <1>11, <1>12, <1>14 DEF Inv, StoreInv

LEMMA WritesDirect ==
    ASSUME TypeOK, StoreInv, RowsAgree, Writes("direct")
    PROVE  Inv'
<1>1. PICK changes :
        /\ IsChange(changes)
        /\ Record("direct", changes)
        /\ rows' \in Tables
        /\ \A e \in DOMAIN changes : rows'[e] = changes[e]
        /\ \A e \in Entities \ DOMAIN changes : AgreesAt(rows', rows, e)
        /\ IsOpen => bypassed'
        /\ bypassed' \in BOOLEAN /\ (bypassed => bypassed')
        /\ planStatus' \in PlanStatuses
        /\ UNCHANGED completed
  BY DEF Writes
<1> DEFINE new == Len(revs) + 1
<1>2. /\ revs' = RecordRevision(revs, head, changes)
      /\ cascades' = cascades
      /\ head' = new
  BY <1>1 DEF Record
<1>3. /\ head \in 0..Len(revs)
      /\ Len(revs) \in Nat
      /\ revs \in Seq(RevisionRow)
  BY DEF TypeOK, Revisions, NoRevision
<1>4. /\ revs' \in Seq(RevisionRow)
      /\ Len(revs') = new
      /\ \A r \in 1..Len(revs) : revs'[r] = revs[r]
      /\ ChainsSound(revs')
  BY <1>1, <1>2, <1>3, RecordRevisionFact DEF StoreInv
<1>5. OpenCascades' = OpenCascades
  BY <1>2 DEF OpenCascades
<1>6. TypeOK'
  BY <1>1, <1>2, <1>3, <1>4 DEF TypeOK, Revisions, NoRevision
<1>7. RefsExist'
  BY <1>2, <1>3, <1>4, <1>5 DEF StoreInv, RefsExist, Revisions
<1>8. CascadeAnchored'
  <2>1. \A d \in OpenCascades : Chain(revs', cascades[d].ref) = Chain(revs, cascades[d].ref)
    BY <1>3, <1>4 DEF StoreInv, RefsExist, Chain, Revisions
  <2>2. \A d \in OpenCascades : IsOpen
    BY DEF IsOpen
  <2>3. QED BY <1>1, <1>2, <1>5, <2>1, <2>2 DEF StoreInv, CascadeAnchored
<1>9. RowsAgree'
  <2> SUFFICES ASSUME ~bypassed', NEW e \in Entities
               PROVE  AgreesAt(rows', StateAt(revs', WorkingRevision'), e)
    BY DEF RowsAgree
  <2>1. ~IsOpen /\ ~bypassed
    BY <1>1
  <2>2. WorkingRevision = head /\ WorkingRevision' = new
    BY <1>2, <1>5, <2>1 DEF WorkingRevision, IsOpen
  <2>3. AgreesAt(rows, StateAt(revs, head), e)
    BY <2>1, <2>2 DEF RowsAgree
  <2>4. StateAt(revs', new)[e] =
           IF e \in DOMAIN changes THEN changes[e] ELSE StateAt(revs, head)[e]
    BY <1>1, <1>2, <1>3, StateAtNewRevision DEF StoreInv
  <2>5. CASE e \in DOMAIN changes
    BY <1>1, <2>2, <2>4, <2>5 DEF AgreesAt
  <2>6. CASE e \notin DOMAIN changes
    <3>1. AgreesAt(rows', rows, e)
      BY <1>1, <2>6
    <3>2. AgreesAt(rows', StateAt(revs, head), e)
      BY <3>1, <2>3, AgreesTransitive
    <3>3. QED BY <2>2, <2>4, <2>6, <3>2 DEF AgreesAt
  <2>7. QED BY <2>5, <2>6
<1>10. QED BY <1>4, <1>6, <1>7, <1>8, <1>9 DEF Inv, StoreInv

LEMMA WritesKeepInv ==
    ASSUME Inv, NEW mode \in Modes, Writes(mode)
    PROVE  Inv'
<1>1. CASE mode = "direct"
  BY <1>1, WritesDirect DEF Inv
<1>2. CASE mode = "cascade"
  BY <1>2, WritesInCascade DEF Inv
<1>3. QED BY <1>1, <1>2 DEF Modes

----------------------------------------------------------------------------
(* The commands that write                                                 *)

\* A command that is admitted writes where it says: on the cascade, or, with
\* none open, on the head.
LEMMA AdmittedWrites ==
    ASSUME Inv, NEW mode \in Modes, AdmitCascade(mode),
           NEW changes, IsChange(changes), Record(mode, changes), rows' \in Tables,
           \A e \in DOMAIN changes : rows'[e] = changes[e],
           \A e \in Entities \ DOMAIN changes : AgreesAt(rows', rows, e),
           UNCHANGED <<planStatus, completed, bypassed>>
    PROVE  Writes(mode)
<1>1. /\ mode = "cascade" => IsOpen
      /\ mode = "direct" /\ IsOpen => bypassed'
  BY DEF AdmitCascade, Modes
<1>2. /\ bypassed' \in BOOLEAN /\ (bypassed <=> bypassed')
      /\ planStatus' \in PlanStatuses
  BY DEF Inv, TypeOK
<1>3. QED BY <1>1, <1>2 DEF Writes

LEMMA InvalidatedTyped ==
    ASSUME NEW t \in Tables, NEW hit, hit \subseteq Present(t)
    PROVE  /\ Invalidated(t, hit) \in Tables
           /\ \A e \in Entities :
                 Invalidated(t, hit)[e] =
                    IF e \in hit THEN SetStatus(t[e], "needs_review") ELSE t[e]
<1>1. DOMAIN t = Entities
  BY DEF Tables
<1>2. \A e \in Entities : Invalidated(t, hit)[e] =
         IF e \in hit THEN SetStatus(t[e], "needs_review") ELSE t[e]
  BY <1>1 DEF Invalidated
<1>3. \A e \in hit : SetStatus(t[e], "needs_review") \in Row(e)
  <2> SUFFICES ASSUME NEW e \in hit
               PROVE  SetStatus(t[e], "needs_review") \in Row(e)
    OBVIOUS
  <2>1. e \in Steps /\ t[e] \in StepRow
    BY PresentFact
  <2>2. "needs_review" \in AllStatuses /\ "needs_review" \in KnownStatuses(LevelOf[e])
    BY DEF AllStatuses, Statuses, KnownStatuses
  <2>3. /\ SetStatus(t[e], "needs_review") \in StepRow
        /\ SetStatus(t[e], "needs_review").status = "needs_review"
    BY <2>1, <2>2 DEF SetStatus, StepRow
  <2>4. QED BY <2>1, <2>2, <2>3 DEF Row
<1>4. \A e \in Entities : Invalidated(t, hit)[e] \in Row(e) \cup {Absent}
  BY <1>2, <1>3, TableFact
<1>5. Invalidated(t, hit) = [e \in Entities |-> Invalidated(t, hit)[e]]
  BY <1>1 DEF Invalidated
<1>6. QED BY <1>2, <1>4, <1>5, TableMade

\* Replacing one step by another row of its type.
LEMMA UpdateTyped ==
    ASSUME NEW t \in Tables, NEW s \in Entities, NEW row, row \in Row(s) \cup {Absent}
    PROVE  /\ [t EXCEPT ![s] = row] \in Tables
           /\ [t EXCEPT ![s] = row][s] = row
           /\ \A e \in Entities \ {s} : [t EXCEPT ![s] = row][e] = t[e]
<1>1. DOMAIN t = Entities
  BY DEF Tables
<1>2. /\ [t EXCEPT ![s] = row][s] = row
      /\ \A e \in Entities \ {s} : [t EXCEPT ![s] = row][e] = t[e]
  BY <1>1
<1>3. \A e \in Entities : [t EXCEPT ![s] = row][e] \in Row(e) \cup {Absent}
  BY <1>2, TableFact
<1>4. [t EXCEPT ![s] = row] = [e \in Entities |-> [t EXCEPT ![s] = row][e]]
  BY <1>1
<1>5. QED BY <1>2, <1>3, <1>4, TableMade

\* A changed step and what it invalidates are recorded together.
LEMMA WriteStepWrites ==
    ASSUME Inv, NEW mode \in Modes, AdmitCascade(mode), NEW s \in Steps,
           NEW table \in Tables,
           \A e \in Entities \ {s} : AgreesAt(table, rows, e),
           WriteStep(s, table, mode),
           UNCHANGED <<planStatus, completed, bypassed>>
    PROVE  Writes(mode)
<1> DEFINE hit     == IF mode = "cascade" THEN StepInvalidation(table, s) ELSE {}
           final   == Invalidated(table, hit)
           changes == Snapshot(final, {s} \cup hit)
<1>1. hit \subseteq Present(table)
  BY DEF StepInvalidation, ImpactSet, Children
<1>2. /\ final \in Tables
      /\ \A e \in Entities \ hit : final[e] = table[e]
  BY <1>1, InvalidatedTyped
<1>3. {s} \cup hit \subseteq Entities
  BY <1>1, StepsAreEntities DEF Present
<1>4. IsChange(changes) /\ DOMAIN changes = {s} \cup hit
  BY <1>2, <1>3, SnapshotIsChange
<1>5. rows' = final /\ Record(mode, changes)
  BY DEF WriteStep
<1>6. \A e \in DOMAIN changes : rows'[e] = changes[e]
  BY <1>4, <1>5 DEF Snapshot
<1>7. \A e \in Entities \ DOMAIN changes : AgreesAt(rows', rows, e)
  BY <1>2, <1>4, <1>5 DEF AgreesAt
<1> HIDE DEF hit, final, changes
<1>8. QED BY <1>2, <1>4, <1>5, <1>6, <1>7, AdmittedWrites

LEMMA StepCreateWrites ==
    ASSUME Inv, NEW mode \in Modes, NEW s \in Steps, NEW p \in Steps \cup {NoParent},
           NEW content \in Contents, StepCreate(s, p, content, mode)
    PROVE  Writes(mode)
<1>1. PICK id \in StepIds : rows' = [rows EXCEPT ![s] = NewStepRow(p, id, content)]
  BY DEF StepCreate
<1> DEFINE row == NewStepRow(p, id, content)
<1>2. row \in Row(s)
  BY DEF NewStepRow, Row, StepRow, AllStatuses, Statuses, KnownStatuses
<1>3. s \in Entities /\ rows \in Tables /\ rows' = [rows EXCEPT ![s] = row]
  BY <1>1, StepsAreEntities DEF Inv, TypeOK
<1>4. rows' \in Tables /\ \A e \in Entities \ {s} : rows'[e] = rows[e]
  <2> DEFINE table == [rows EXCEPT ![s] = row]
  <2> HIDE DEF row
  <2>1. s \in Entities /\ rows \in Tables
    BY <1>3
  <2>2. table \in Tables /\ \A e \in Entities \ {s} : table[e] = rows[e]
    BY <1>2, <2>1, UpdateTyped
  <2>3. rows' = table
    BY <1>3
  <2> HIDE DEF table
  <2>4. QED BY <2>2, <2>3
<1>5. Record(mode, Snapshot(rows', {s}))
  BY DEF StepCreate
<1>6. IsChange(Snapshot(rows', {s})) /\ DOMAIN Snapshot(rows', {s}) = {s}
  BY <1>3, <1>4, SnapshotIsChange
<1>7. \A e \in {s} : rows'[e] = Snapshot(rows', {s})[e]
  BY DEF Snapshot
<1>8. AdmitCascade(mode)
  BY DEF StepCreate, AdmitPlan, AdmitStep
<1>9. \A e \in Entities \ {s} : AgreesAt(rows', rows, e)
  BY <1>4 DEF AgreesAt
<1>10. UNCHANGED <<planStatus, completed, bypassed>>
  BY DEF StepCreate
<1>11. QED BY <1>4, <1>5, <1>6, <1>7, <1>8, <1>9, <1>10, AdmittedWrites

LEMMA StepUpdateWrites ==
    ASSUME Inv, NEW mode \in Modes, NEW s \in Steps,
           NEW content \in Contents, StepUpdate(s, content, mode)
    PROVE  Writes(mode)
<1> DEFINE row   == [rows[s] EXCEPT !.content = content]
           table == [rows EXCEPT ![s] = row]
<1>1. s \in Present(rows) /\ AdmitCascade(mode)
  BY DEF StepUpdate, AdmitStep
<1>2. WriteStep(s, table, mode) /\ UNCHANGED <<planStatus, completed, bypassed>>
  BY DEF StepUpdate
<1>3. /\ rows \in Tables /\ s \in Entities
      /\ rows[s] \in StepRow /\ rows[s].status \in KnownStatuses(LevelOf[s])
  BY <1>1, PresentFact DEF Inv, TypeOK
<1>4. row \in StepRow /\ row.status = rows[s].status
  BY <1>3 DEF StepRow
<1>5. row \in Row(s)
  BY <1>3, <1>4 DEF Row
<1> HIDE DEF row
<1>6. table \in Tables /\ \A e \in Entities \ {s} : AgreesAt(table, rows, e)
  BY <1>3, <1>5, UpdateTyped DEF AgreesAt
<1> HIDE DEF table
<1>7. QED BY <1>1, <1>2, <1>6, WriteStepWrites

LEMMA StatusUpdateTyped ==
    ASSUME NEW t \in Tables, NEW s \in Present(t),
           NEW status, status \in KnownStatuses(LevelOf[s])
    PROVE  SetStatus(t[s], status) \in Row(s)
<1>1. s \in Steps /\ t[s] \in StepRow
  BY PresentFact
<1>2. status \in AllStatuses
  BY DEF KnownStatuses, AllStatuses
<1>3. SetStatus(t[s], status) \in StepRow /\ SetStatus(t[s], status).status = status
  BY <1>1, <1>2 DEF SetStatus, StepRow
<1>4. QED BY <1>1, <1>3 DEF Row

LEMMA StepSetStatusWrites ==
    ASSUME Inv, NEW mode \in Modes, NEW s \in Steps, NEW status,
           StepSetStatus(s, status, mode)
    PROVE  Writes(mode)
<1> DEFINE row   == SetStatus(rows[s], status)
           table == [rows EXCEPT ![s] = row]
<1>1. s \in Present(rows) /\ rows \in Tables /\ s \in Entities
  BY StepsAreEntities DEF StepSetStatus, Inv, TypeOK
<1>2. AdmitCascade(mode)
  BY DEF StepSetStatus, AdmitStep, IsAtomicExecution, AdmitCascade
<1>3. status \in KnownStatuses(LevelOf[s])
  BY DEF StepSetStatus, LegalTransition
<1>4. row \in Row(s)
  BY <1>1, <1>3, StatusUpdateTyped
<1>5. WriteStep(s, table, mode) /\ UNCHANGED <<planStatus, completed, bypassed>>
  BY DEF StepSetStatus
<1> HIDE DEF row
<1>6. table \in Tables /\ \A e \in Entities \ {s} : AgreesAt(table, rows, e)
  BY <1>1, <1>4, UpdateTyped DEF AgreesAt
<1> HIDE DEF table
<1>7. QED BY <1>2, <1>5, <1>6, WriteStepWrites

LEMMA PersistChangesWrites ==
    ASSUME Inv, NEW mode \in Modes, NEW deps,
           DOMAIN deps \subseteq Present(rows), DOMAIN deps # {},
           \A s \in DOMAIN deps : deps[s] \subseteq Refs,
           PersistChanges(deps, mode)
    PROVE  Writes(mode)
<1> DEFINE targets == DOMAIN deps
           row(e)  == [rows[e] EXCEPT !.deps = deps[e]]
           after   == [e \in Entities |-> IF e \in targets THEN row(e) ELSE rows[e]]
<1>1. /\ rows' = after
      /\ Record(mode, Snapshot(after, targets))
      /\ UNCHANGED <<planStatus, completed, bypassed>>
  BY DEF PersistChanges
<1>2. PICK s \in targets : AdmitStep(s, mode)
  BY DEF PersistChanges
<1>3. AdmitCascade(mode)
  BY <1>2 DEF AdmitStep
<1>4. targets \subseteq Entities /\ rows \in Tables
  BY StepsAreEntities DEF Present, Inv, TypeOK
<1>5. \A e \in targets : row(e) \in Row(e)
  <2> SUFFICES ASSUME NEW e \in targets PROVE row(e) \in Row(e)
    OBVIOUS
  <2>1. /\ e \in Steps /\ rows[e] \in StepRow
        /\ rows[e].status \in KnownStatuses(LevelOf[e])
    BY <1>4, PresentFact
  <2>2. deps[e] \subseteq Refs
    OBVIOUS
  <2>3. row(e) \in StepRow /\ row(e).status = rows[e].status
    BY <2>1, <2>2 DEF StepRow
  <2>4. QED BY <2>1, <2>3 DEF Row
<1>6. /\ \A e \in targets : after[e] = row(e)
      /\ \A e \in Entities \ targets : after[e] = rows[e]
      /\ after = [e \in Entities |-> after[e]]
  BY <1>4
<1> HIDE DEF row, targets, after
<1>7. after \in Tables
  BY <1>4, <1>5, <1>6, TableFact, TableMade
<1>8. IsChange(Snapshot(after, targets)) /\ DOMAIN Snapshot(after, targets) = targets
  BY <1>4, <1>7, SnapshotIsChange
<1>9. \A e \in targets : rows'[e] = Snapshot(after, targets)[e]
  BY <1>1 DEF Snapshot
<1>10. \A e \in Entities \ targets : AgreesAt(rows', rows, e)
  BY <1>1, <1>6 DEF AgreesAt
<1>11. QED BY <1>1, <1>3, <1>7, <1>8, <1>9, <1>10, AdmittedWrites

LEMMA PossibleEdgesTyped ==
    ASSUME Inv, NEW e \in PossibleEdges
    PROVE  e[2] \in Refs
<1> DEFINE refs(s) == rows[s].deps \cup (Refs \cap {RefTo(rows, s, t) : t \in Nameable(rows, s)})
<1>1. PICK s \in Present(rows) : \E ref \in refs(s) : e = <<s, ref>>
  BY DEF PossibleEdges
<1>2. rows[s] \in StepRow
  BY PresentFact DEF Inv, TypeOK
<1>3. refs(s) \subseteq Refs
  BY <1>2 DEF StepRow
<1> HIDE DEF refs
<1>4. QED BY <1>1, <1>3

LEMMA StepDependenciesWrites ==
    ASSUME Inv, NEW mode \in Modes, NEW edges \in SUBSET PossibleEdges,
           StepDependencies(edges, mode)
    PROVE  Writes(mode)
<1> DEFINE refs(s) == {e[2] : e \in {x \in edges : x[1] = s}}
           targets == {s \in Present(rows) : refs(s) # rows[s].deps}
           deps    == [s \in targets |-> refs(s)]
<1>1. targets # {} /\ PersistChanges(deps, mode)
  BY DEF StepDependencies
<1>2. \A e \in edges : e[2] \in Refs
  BY PossibleEdgesTyped
<1>3. \A s \in targets : deps[s] \subseteq Refs
  BY <1>2
<1>4. DOMAIN deps = targets /\ targets \subseteq Present(rows)
  OBVIOUS
<1> HIDE DEF deps, targets
<1>5. QED BY <1>1, <1>3, <1>4, PersistChangesWrites

LEMMA StepDependencyRemoveWrites ==
    ASSUME Inv, NEW mode \in Modes, NEW s \in Present(rows), NEW refs,
           StepDependencyRemove(s, refs, mode)
    PROVE  Writes(mode)
<1> DEFINE deps == [t \in {s} |-> rows[s].deps \ refs]
<1>1. PersistChanges(deps, mode)
  BY DEF StepDependencyRemove
<1>2. DOMAIN deps = {s}
  OBVIOUS
<1>3. rows[s] \in StepRow
  BY PresentFact DEF Inv, TypeOK
<1>4. \A t \in DOMAIN deps : deps[t] \subseteq Refs
  BY <1>3 DEF StepRow
<1> HIDE DEF deps
<1>5. QED BY <1>1, <1>2, <1>4, PersistChangesWrites

\* The scrub only takes dependencies away.
LEMMA ScrubbedTyped ==
    ASSUME NEW t \in Tables, NEW s \in Present(t)
    PROVE  /\ Scrubbed(t, s) \in Tables
           /\ Scrubbed(t, s)[s] = t[s]
           /\ \A e \in Entities : AgreesAt(Scrubbed(t, s), t, e)
<1> DEFINE row(e) == [t[e] EXCEPT !.deps = @ \ {<<t[s].id>>}]
<1>1. DOMAIN t = Entities
  BY DEF Tables
<1>2. Siblings(t, s) \subseteq Present(t) /\ s \notin Siblings(t, s)
  BY DEF Siblings, Scope, Children
<1>3. \A e \in Entities : Scrubbed(t, s)[e] = IF e \in Siblings(t, s) THEN row(e) ELSE t[e]
  BY <1>1 DEF Scrubbed
<1>4. \A e \in Siblings(t, s) :
         /\ row(e) \in Row(e)
         /\ row(e) \in StepRow
         /\ row(e).parent = t[e].parent
         /\ row(e).id = t[e].id
         /\ row(e).content = t[e].content
         /\ row(e).status = t[e].status
         /\ row(e).deps \subseteq t[e].deps
  <2> SUFFICES ASSUME NEW e \in Siblings(t, s)
               PROVE  /\ row(e) \in Row(e)
                      /\ row(e) \in StepRow
                      /\ row(e).parent = t[e].parent
                      /\ row(e).id = t[e].id
                      /\ row(e).content = t[e].content
                      /\ row(e).status = t[e].status
                      /\ row(e).deps \subseteq t[e].deps
    OBVIOUS
  <2>1. /\ e \in Steps /\ t[e] \in StepRow
        /\ t[e].status \in KnownStatuses(LevelOf[e])
    BY <1>2, PresentFact
  <2>2. /\ row(e) \in StepRow
        /\ row(e).parent = t[e].parent
        /\ row(e).id = t[e].id
        /\ row(e).content = t[e].content
        /\ row(e).status = t[e].status
        /\ row(e).deps \subseteq t[e].deps
    BY <2>1 DEF StepRow
  <2>3. QED BY <2>1, <2>2 DEF Row
<1> HIDE DEF row
<1>5. Scrubbed(t, s) = [e \in Entities |-> Scrubbed(t, s)[e]]
  BY <1>1 DEF Scrubbed
<1>6. \A e \in Entities : Scrubbed(t, s)[e] \in Row(e) \cup {Absent}
  BY <1>3, <1>4, TableFact
<1>7. Scrubbed(t, s) \in Tables
  BY <1>5, <1>6, TableMade
<1>8. \A e \in Entities : AgreesAt(Scrubbed(t, s), t, e)
  <2> SUFFICES ASSUME NEW e \in Entities PROVE AgreesAt(Scrubbed(t, s), t, e)
    OBVIOUS
  <2>1. CASE e \in Siblings(t, s)
    <3>1. e \in Steps /\ t[e] # Absent
      BY <1>2, <2>1 DEF Present
    <3>2. row(e) # Absent
      BY <1>4, <2>1, AbsentAssumption
    <3>3. QED BY <1>3, <1>4, <2>1, <3>1, <3>2 DEF AgreesAt
  <2>2. CASE e \notin Siblings(t, s)
    BY <1>3, <2>2 DEF AgreesAt
  <2>3. QED BY <2>1, <2>2
<1>9. s \in Entities
  BY PresentFact
<1>10. Scrubbed(t, s)[s] = t[s]
  BY <1>2, <1>3, <1>9
<1>11. QED BY <1>7, <1>8, <1>10

LEMMA StepMoveWrites ==
    ASSUME Inv, NEW mode \in Modes, NEW s \in Steps, NEW p \in Steps, StepMove(s, p, mode)
    PROVE  Writes(mode)
<1>1. /\ s \in Present(rows) /\ p \in Present(rows)
      /\ AdmitCascade(mode)
      /\ UNCHANGED <<planStatus, completed, bypassed>>
      /\ rows \in Tables
  BY DEF StepMove, AdmitStep, Inv, TypeOK
<1>2. CASE WriteStep(s, rows, mode)
  BY <1>1, <1>2, AgreesReflexive, WriteStepWrites
<1>3. ASSUME NEW id \in StepIds,
             WriteStep(s, [Scrubbed(rows, s) EXCEPT ![s] =
                              [@ EXCEPT !.parent = p, !.id = id, !.deps = {}]], mode)
      PROVE  Writes(mode)
  <2> DEFINE before == Scrubbed(rows, s)
             row    == [rows[s] EXCEPT !.parent = p, !.id = id, !.deps = {}]
             table  == [before EXCEPT ![s] = row]
  <2>1. /\ before \in Tables
        /\ before[s] = rows[s]
        /\ \A e \in Entities : AgreesAt(before, rows, e)
    BY <1>1, ScrubbedTyped
  <2>2. /\ s \in Entities /\ rows[s] \in StepRow
        /\ rows[s].status \in KnownStatuses(LevelOf[s])
    BY <1>1, PresentFact
  <2>3. row \in StepRow /\ row.status = rows[s].status
    BY <2>2 DEF StepRow
  <2>4. row \in Row(s)
    BY <2>2, <2>3 DEF Row
  <2>5. WriteStep(s, table, mode)
    BY <1>3, <2>1
  <2> HIDE DEF row, before
  <2>6. table \in Tables /\ \A e \in Entities \ {s} : table[e] = before[e]
    BY <2>1, <2>2, <2>4, UpdateTyped
  <2>7. \A e \in Entities \ {s} : AgreesAt(table, rows, e)
    BY <2>1, <2>6 DEF AgreesAt
  <2> HIDE DEF table
  <2>8. QED BY <1>1, <2>5, <2>6, <2>7, WriteStepWrites
<1>4. QED BY <1>2, <1>3 DEF StepMove

LEMMA StepDeleteWrites ==
    ASSUME Inv, NEW mode \in Modes, NEW s \in Steps, NEW recursive \in BOOLEAN,
           StepDelete(s, recursive, mode)
    PROVE  Writes(mode)
<1> DEFINE doomed == IF recursive THEN Subtree(rows, s) ELSE {s}
           before == Scrubbed(rows, s)
<1>1. /\ s \in Present(rows) /\ rows \in Tables
      /\ AdmitCascade(mode)
      /\ rows' = Overlay(before, Deleted(doomed))
      /\ Record(mode, Deleted(doomed))
      /\ UNCHANGED <<planStatus, completed, bypassed>>
  BY DEF StepDelete, AdmitStep, Inv, TypeOK
<1>2. doomed \subseteq Entities
  BY <1>1, StepsAreEntities DEF Subtree, ImpactSet, Children, Present
<1>3. before \in Tables /\ \A e \in Entities : AgreesAt(before, rows, e)
  BY <1>1, ScrubbedTyped
<1> HIDE DEF doomed, before
<1>4. IsChange(Deleted(doomed)) /\ DOMAIN Deleted(doomed) = doomed
  BY <1>2, DeletedIsChange
<1>5. /\ rows' \in Tables
      /\ \A e \in Entities : rows'[e] = IF e \in doomed THEN Deleted(doomed)[e] ELSE before[e]
  BY <1>1, <1>3, <1>4, OverlayTyped
<1>6. \A e \in doomed : rows'[e] = Deleted(doomed)[e]
  BY <1>2, <1>5
<1>7. \A e \in Entities \ doomed : AgreesAt(rows', rows, e)
  BY <1>3, <1>5 DEF AgreesAt
<1>8. QED BY <1>1, <1>4, <1>5, <1>6, <1>7, AdmittedWrites

LEMMA StepTransitionWrites ==
    ASSUME Inv, NEW mode \in Modes, NEW scope, scope \subseteq Present(rows),
           NEW to \in TransitionTargets, StepTransition(scope, to, mode)
    PROVE  Writes(mode)
<1> DEFINE moving == {s \in scope : rows[s].status # to}
           after  == [e \in Entities |-> IF e \in moving THEN SetStatus(rows[e], to) ELSE rows[e]]
<1>1. /\ rows' = after
      /\ planStatus' = DerivePlanStatus({after[s].status : s \in Present(rows)})
      /\ Record(mode, Snapshot(after, moving))
      /\ bypassed' = (bypassed \/ (mode = "direct" /\ IsOpen))
      /\ mode = "cascade" => IsOpen
      /\ UNCHANGED completed
  BY DEF StepTransition
<1>2. moving \subseteq Present(rows) /\ moving \subseteq Entities /\ rows \in Tables
  BY StepsAreEntities DEF Present, Inv, TypeOK
<1>3. \A e \in moving : SetStatus(rows[e], to) \in Row(e)
  <2>1. \A level \in Levels : to \in KnownStatuses(level)
    BY DEF TransitionTargets, KnownStatuses, AllStatuses, Statuses
  <2>2. \A e \in moving : to \in KnownStatuses(LevelOf[e])
    BY <1>2, <2>1, PresentFact, LevelOfAssumption
  <2>3. QED BY <1>2, <2>2, StatusUpdateTyped
<1>4. /\ \A e \in moving : after[e] = SetStatus(rows[e], to)
      /\ \A e \in Entities \ moving : after[e] = rows[e]
      /\ after = [e \in Entities |-> after[e]]
  BY <1>2
<1>5. planStatus' \in PlanStatuses
  BY <1>1 DEF DerivePlanStatus, PlanStatuses
<1> HIDE DEF moving, after
<1>6. after \in Tables
  BY <1>2, <1>3, <1>4, TableFact, TableMade
<1>7. IsChange(Snapshot(after, moving)) /\ DOMAIN Snapshot(after, moving) = moving
  BY <1>2, <1>6, SnapshotIsChange
<1>8. \A e \in moving : rows'[e] = Snapshot(after, moving)[e]
  BY <1>1 DEF Snapshot
<1>9. \A e \in Entities \ moving : AgreesAt(rows', rows, e)
  BY <1>1, <1>4 DEF AgreesAt
<1>10. /\ bypassed' \in BOOLEAN /\ (bypassed => bypassed')
       /\ bypassed' => bypassed \/ IsOpen
       /\ mode = "direct" /\ IsOpen => bypassed'
  BY <1>1 DEF Inv, TypeOK
<1>11. QED BY <1>1, <1>5, <1>6, <1>7, <1>8, <1>9, <1>10 DEF Writes

LEMMA MrsWriteWrites ==
    ASSUME Inv, NEW e \in MrsEntities, NEW new \in Contents \cup {Absent}, MrsWrite(e, new)
    PROVE  Writes("cascade")
<1> DEFINE hit   == MrsInvalidation(rows)
           table == Invalidated(rows, hit)
           after == [table EXCEPT ![e] = new]
<1>1. /\ IsOpen
      /\ rows' = after
      /\ Record("cascade", Snapshot(after, {e} \cup hit))
      /\ UNCHANGED <<planStatus, completed, bypassed>>
  BY DEF MrsWrite
<1>2. /\ rows \in Tables /\ hit \subseteq Present(rows) /\ hit \subseteq Entities
      /\ e \in Entities /\ new \in Row(e) \cup {Absent}
  BY StepsAreEntities DEF Inv, TypeOK, MrsInvalidation, GlobalSteps, Present, Row
<1>3. table \in Tables /\ \A d \in Entities \ hit : table[d] = rows[d]
  BY <1>2, InvalidatedTyped
<1> HIDE DEF hit, table
<1>4. after \in Tables /\ \A d \in Entities \ {e} : after[d] = table[d]
  BY <1>2, <1>3, UpdateTyped
<1> HIDE DEF after
<1>5. /\ IsChange(Snapshot(after, {e} \cup hit))
      /\ DOMAIN Snapshot(after, {e} \cup hit) = {e} \cup hit
  BY <1>2, <1>4, SnapshotIsChange
<1>6. \A d \in {e} \cup hit : rows'[d] = Snapshot(after, {e} \cup hit)[d]
  BY <1>1 DEF Snapshot
<1>7. \A d \in Entities \ ({e} \cup hit) : AgreesAt(rows', rows, d)
  BY <1>1, <1>3, <1>4 DEF AgreesAt
<1>8. AdmitCascade("cascade") /\ "cascade" \in Modes
  BY <1>1 DEF AdmitCascade, Modes
<1>9. QED BY <1>1, <1>4, <1>5, <1>6, <1>7, <1>8, AdmittedWrites

----------------------------------------------------------------------------
(* The beginning and the ends of a cascade                                 *)

LEMMA NextIsWriteOrCascade ==
    ASSUME Inv, Next
    PROVE  \/ \E mode \in Modes : Writes(mode)
           \/ \E c \in CascadeIds : CascadeBegin(c) \/ PlanUnfreeze(c)
           \/ \E c \in CascadeIds : CascadeCommit(c) \/ CascadeAbort(c)
           \/ \E flag \in BOOLEAN : PlanCompletedSet(flag)
<1>1. ASSUME NEW mode \in Modes, StepCommand(mode) PROVE Writes(mode)
  BY <1>1, StepCreateWrites, StepUpdateWrites, StepSetStatusWrites, StepMoveWrites,
     StepDeleteWrites DEF StepCommand
<1>2. ASSUME NEW mode \in Modes, DependencyCommand(mode) PROVE Writes(mode)
  BY <1>2, StepDependenciesWrites, StepDependencyRemoveWrites DEF DependencyCommand, Edits
<1>3. ASSUME NEW mode \in Modes, TransitionCommand(mode) PROVE Writes(mode)
  <2>1. PICK scope \in TransitionScopes, to \in TransitionTargets :
           StepTransition(scope, to, mode)
    BY <1>3 DEF TransitionCommand
  <2>2. scope \subseteq Present(rows)
    BY DEF TransitionScopes, Subtree, ImpactSet, Children
  <2>3. QED BY <2>1, <2>2, StepTransitionWrites
<1>4. ASSUME NEW e \in MrsEntities, NEW new \in Contents \cup {Absent}, MrsWrite(e, new)
      PROVE  Writes("cascade") /\ "cascade" \in Modes
  BY <1>4, MrsWriteWrites DEF Modes
<1>5. QED BY <1>1, <1>2, <1>3, <1>4 DEF Next, CascadeCommand

LEMMA OpenNewCascadeKeepsInv ==
    ASSUME Inv, NEW c \in CascadeIds, OpenNewCascade(c), planStatus' \in PlanStatuses
    PROVE  /\ Inv'
           /\ IsOpen'
<1> DEFINE row == [status |-> "open", base |-> head, ref |-> head]
<1>1. /\ ~IsOpen /\ cascades[c].status = "none"
      /\ cascades' = [cascades EXCEPT ![c] = row]
      /\ UNCHANGED <<rows, revs, head, completed, bypassed>>
  BY DEF OpenNewCascade
<1>2. head \in 1..Len(revs) /\ head \in Nat /\ head # NoRevision
  BY DEF OpenNewCascade, Inv, TypeOK, Revisions, NoRevision
<1>3. row \in CascadeRow
  BY <1>2 DEF CascadeRow
<1>4. /\ cascades' \in [CascadeIds -> CascadeRow]
      /\ cascades'[c] = row
      /\ \A d \in CascadeIds \ {c} : cascades'[d] = cascades[d]
  BY <1>1, <1>3 DEF Inv, TypeOK
<1>5. OpenCascades = {}
  BY <1>1 DEF IsOpen
<1>6. OpenCascades' = {c}
  BY <1>4, <1>5 DEF OpenCascades
<1>7. TypeOK'
  BY <1>1, <1>4 DEF Inv, TypeOK, Revisions
<1>8. RefsExist'
  BY <1>1, <1>2, <1>4, <1>6 DEF RefsExist, Revisions
<1>9. head \in Chain(revs, head)
  BY <1>2, RevisionFact DEF Inv, TypeOK, StoreInv
<1>10. CascadeAnchored'
  <2>1. \A d \in CascadeIds \ {c} : cascades'[d].ref = NoRevision
    BY <1>4, <1>5 DEF Inv, StoreInv, CascadeAnchored
  <2>2. QED BY <1>1, <1>2, <1>4, <1>6, <1>9, <2>1 DEF CascadeAnchored
<1>11. WorkingRevision' = head /\ WorkingRevision = head /\ IsOpen'
  <2>1. IsOpen' /\ OpenCascade' = c
    BY <1>6 DEF IsOpen, OpenCascade
  <2>2. QED BY <1>1, <1>4, <2>1 DEF WorkingRevision
<1>12. RowsAgree'
  BY <1>1, <1>11 DEF Inv, RowsAgree
<1>13. QED BY <1>1, <1>7, <1>8, <1>10, <1>11, <1>12 DEF Inv, StoreInv

LEMMA BeginKeepsInv ==
    ASSUME Inv, NEW c \in CascadeIds, CascadeBegin(c) \/ PlanUnfreeze(c)
    PROVE  /\ Inv'
           /\ IsOpen'
           /\ OpenNewCascade(c)
<1>1. OpenNewCascade(c) /\ planStatus' \in PlanStatuses
  BY DEF CascadeBegin, PlanUnfreeze, Inv, TypeOK, PlanStatuses
<1>2. QED BY <1>1, OpenNewCascadeKeepsInv

\* Whichever way a cascade ends, none is open and every ref is gone.
LEMMA CascadeEnds ==
    ASSUME TypeOK, StoreInv, NEW c \in OpenCascades, NEW st \in {"committed", "aborted"},
           cascades' = [cascades EXCEPT ![c].status = st, ![c].ref = NoRevision],
           revs' = revs
    PROVE  /\ cascades' \in [CascadeIds -> CascadeRow]
           /\ cascades'[c].status = st
           /\ \A d \in CascadeIds : cascades'[d].base = cascades[d].base
           /\ \A d \in CascadeIds \ {c} : cascades'[d] = cascades[d]
           /\ ~IsOpen'
           /\ StoreInv'
           /\ IsOpen
           /\ WorkingRevision = cascades[c].ref
<1>1. c \in CascadeIds /\ cascades \in [CascadeIds -> CascadeRow]
  BY DEF OpenCascades, TypeOK
<1>2. NoRevision \in Nat
  BY DEF NoRevision
<1>3. /\ cascades' \in [CascadeIds -> CascadeRow]
      /\ cascades'[c].status = st
      /\ cascades'[c].ref = NoRevision
      /\ \A d \in CascadeIds : cascades'[d].base = cascades[d].base
      /\ \A d \in CascadeIds \ {c} : cascades'[d] = cascades[d]
  BY <1>1, <1>2 DEF CascadeRow
<1>4. \A d \in OpenCascades : d = c
  BY DEF StoreInv, CascadeAnchored
<1>5. OpenCascades' = {}
  BY <1>1, <1>3, <1>4 DEF OpenCascades
<1>6. \A d \in CascadeIds : cascades'[d].ref = NoRevision
  BY <1>3, <1>4 DEF StoreInv, CascadeAnchored
<1>7. CascadeAnchored' /\ RefsExist'
  BY <1>5, <1>6 DEF CascadeAnchored, RefsExist
<1>8. IsOpen /\ OpenCascade = c
  BY TheOpenCascade DEF StoreInv
<1>9. QED BY <1>3, <1>5, <1>7, <1>8 DEF StoreInv, IsOpen, WorkingRevision

LEMMA CommitKeepsInv ==
    ASSUME Inv, NEW c \in CascadeIds, CascadeCommit(c)
    PROVE  /\ Inv'
           /\ ~IsOpen'
           /\ WorkingRevision' = WorkingRevision
<1>1. /\ c \in OpenCascades
      /\ head' = cascades[c].ref
      /\ cascades' = [cascades EXCEPT ![c].status = "committed", ![c].ref = NoRevision]
      /\ UNCHANGED <<rows, revs, planStatus, completed, bypassed>>
  BY DEF CascadeCommit
<1>2. /\ cascades' \in [CascadeIds -> CascadeRow]
      /\ ~IsOpen' /\ StoreInv'
      /\ WorkingRevision = cascades[c].ref
  BY <1>1, CascadeEnds DEF Inv
<1>3. head' \in Revisions
  BY <1>1 DEF Inv, StoreInv, RefsExist
<1>4. TypeOK'
  BY <1>1, <1>2, <1>3 DEF Inv, TypeOK, Revisions
<1>5. WorkingRevision' = WorkingRevision
  BY <1>1, <1>2 DEF WorkingRevision
<1>6. RowsAgree'
  BY <1>1, <1>5 DEF Inv, RowsAgree
<1>7. QED BY <1>2, <1>4, <1>5, <1>6 DEF Inv

\* What restore_state leaves alone is the same at both ends of the cascade.
LEMMA RestoredAgrees ==
    ASSUME NEW store \in Seq(RevisionRow), ChainsSound(store), NEW t \in Tables,
           NEW base \in 0..Len(store), NEW tip \in 0..Len(store)
    PROVE  /\ Restored(store, t, base, tip) \in Tables
           /\ \A e \in Entities :
                 AgreesAt(t, StateAt(store, tip), e) =>
                    AgreesAt(Restored(store, t, base, tip), StateAt(store, base), e)
<1> DEFINE B == StateAt(store, base)
           T == StateAt(store, tip)
           R == Restored(store, t, base, tip)
<1>1. B \in Tables /\ T \in Tables
  BY RevisionFact
<1>2. \A e \in Entities :
         R[e] = IF e \in Changed(store, base, tip) \cup Removed(store, base, tip) THEN B[e]
                ELSE IF e \in Added(store, base, tip) THEN Absent ELSE t[e]
  BY DEF Restored
<1>3. R = [e \in Entities |-> R[e]]
  BY DEF Restored
<1>4. \A e \in Entities :
         /\ e \in Added(store, base, tip) => B[e] = Absent
         /\ e \notin Changed(store, base, tip) \cup Removed(store, base, tip)
                        \cup Added(store, base, tip) => B[e] = T[e]
  BY DEF Changed, Removed, Added
<1> HIDE DEF B, T, R
<1>5. \A e \in Entities : R[e] \in Row(e) \cup {Absent}
  BY <1>1, <1>2, TableFact
<1>6. R \in Tables
  BY <1>3, <1>5, TableMade
<1>7. ASSUME NEW e \in Entities, AgreesAt(t, T, e) PROVE AgreesAt(R, B, e)
  <2>1. CASE R[e] = B[e]
    BY <2>1 DEF AgreesAt
  <2>2. CASE R[e] = t[e] /\ B[e] = T[e]
    BY <1>7, <2>2 DEF AgreesAt
  <2>3. QED BY <1>2, <1>4, <2>1, <2>2
<1>8. QED BY <1>6, <1>7 DEF B, T, R

LEMMA AbortKeepsInv ==
    ASSUME Inv, NEW c \in CascadeIds, CascadeAbort(c)
    PROVE  /\ Inv'
           /\ ~IsOpen'
           /\ WorkingRevision' = head
           /\ c \in OpenCascades
           /\ ~bypassed => head = cascades[c].base
<1> DEFINE base == cascades[c].base
           tip  == cascades[c].ref
<1>1. /\ c \in OpenCascades
      /\ rows' = Restored(revs, rows, base, tip)
      /\ cascades' = [cascades EXCEPT ![c].status = "aborted", ![c].ref = NoRevision]
      /\ UNCHANGED <<revs, head, planStatus, completed, bypassed>>
  BY DEF CascadeAbort
<1>2. /\ cascades' \in [CascadeIds -> CascadeRow]
      /\ ~IsOpen' /\ StoreInv'
      /\ WorkingRevision = tip
  BY <1>1, CascadeEnds DEF Inv
<1>3. base \in 0..Len(revs) /\ tip \in 0..Len(revs)
  BY <1>1 DEF Inv, StoreInv, RefsExist, Revisions
<1>4. /\ rows' \in Tables
      /\ \A e \in Entities : AgreesAt(rows, StateAt(revs, tip), e) =>
                                AgreesAt(rows', StateAt(revs, base), e)
  BY <1>1, <1>3, RestoredAgrees DEF Inv, TypeOK, StoreInv
<1>5. TypeOK'
  BY <1>1, <1>2, <1>4 DEF Inv, TypeOK, Revisions
<1>6. WorkingRevision' = head
  BY <1>1, <1>2 DEF WorkingRevision
<1>7. ~bypassed => head = base
  BY <1>1 DEF Inv, StoreInv, CascadeAnchored
<1>8. RowsAgree'
  BY <1>1, <1>2, <1>4, <1>6, <1>7 DEF Inv, RowsAgree
<1>9. QED BY <1>1, <1>2, <1>5, <1>6, <1>7, <1>8 DEF Inv

----------------------------------------------------------------------------
(* The invariant holds                                                     *)

LEMMA InitInv == ASSUME Init PROVE Inv
<1>1. /\ planStatus = "draft" /\ completed = FALSE /\ bypassed = FALSE
      /\ cascades = [c \in CascadeIds |-> NoCascade]
  BY DEF Init
<1>2. NoCascade \in CascadeRow /\ NoCascade.ref = NoRevision /\ NoCascade.status = "none"
  BY DEF NoCascade, CascadeRow, NoRevision
<1>3. /\ cascades \in [CascadeIds -> CascadeRow]
      /\ \A c \in CascadeIds : cascades[c].ref = NoRevision /\ cascades[c].status = "none"
  BY <1>1, <1>2
<1>4. OpenCascades = {} /\ ~IsOpen /\ WorkingRevision = head
  BY <1>3 DEF OpenCascades, IsOpen, WorkingRevision
<1>5. RefsExist /\ CascadeAnchored
  BY <1>3, <1>4 DEF RefsExist, CascadeAnchored
<1>6. \/ rows = EmptyState /\ revs = <<>> /\ head = NoRevision
      \/ \E changes : /\ IsChange(changes)
                      /\ rows = Overlay(EmptyState, changes)
                      /\ revs = RecordRevision(<<>>, NoRevision, changes)
                      /\ head = 1
  <2>1. ASSUME NEW tree \in ImportTrees
        PROVE  IsChange([s \in {u \in Steps : tree[u] # Absent} |-> tree[s]])
    <3>1. \A s \in Steps : tree[s] # Absent => tree[s] \in Row(s)
      BY ImportAssumption DEF Row, StepRow, AllStatuses, Statuses, KnownStatuses
    <3>2. QED BY <3>1, StepsAreEntities DEF IsChange
  <2>2. QED BY <2>1 DEF Init
<1>7. CASE rows = EmptyState /\ revs = <<>> /\ head = NoRevision
  <2>1. revs \in Seq(RevisionRow) /\ Len(revs) = 0 /\ head \in Revisions \cup {NoRevision}
    BY <1>7
  <2>2. ChainsSound(revs)
    BY <2>1 DEF ChainsSound
  <2>3. StateAt(revs, head) = rows
    BY <1>7 DEF StateAt
  <2>4. RowsAgree
    BY <1>4, <2>3, AgreesReflexive DEF RowsAgree
  <2>5. TypeOK
    BY <1>1, <1>3, <1>7, <2>1, EmptyTyped DEF TypeOK, PlanStatuses
  <2>6. QED BY <1>5, <2>2, <2>4, <2>5 DEF Inv, StoreInv
<1>8. CASE \E changes : /\ IsChange(changes)
                        /\ rows = Overlay(EmptyState, changes)
                        /\ revs = RecordRevision(<<>>, NoRevision, changes)
                        /\ head = 1
  <2>1. PICK changes : /\ IsChange(changes)
                       /\ rows = Overlay(EmptyState, changes)
                       /\ revs = RecordRevision(<<>>, NoRevision, changes)
                       /\ head = 1
    BY <1>8
  <2> DEFINE none == <<>>
  <2>2. /\ none \in Seq(RevisionRow)
        /\ Len(none) = 0
        /\ NoRevision \in 0..Len(none)
        /\ revs = RecordRevision(none, NoRevision, changes)
    BY <2>1 DEF NoRevision
  <2>3. revs[1] = NewRevision(none, NoRevision, changes) =>
           revs[1].at = Overlay(EmptyState, changes)
    BY DEF NewRevision, StateAt
  <2> HIDE DEF none
  <2>4. ChainsSound(none)
    BY <2>2 DEF ChainsSound
  <2>5. /\ revs \in Seq(RevisionRow)
        /\ Len(revs) = 1
        /\ revs[1].at = Overlay(EmptyState, changes)
        /\ ChainsSound(revs)
    <3>1. IsChange(changes)
      BY <2>1
    <3>2. ASSUME NEW store \in Seq(RevisionRow), NEW parent \in 0..Len(store),
                 ChainsSound(store), revs = RecordRevision(store, parent, changes)
          PROVE  /\ revs \in Seq(RevisionRow)
                 /\ Len(revs) = Len(store) + 1
                 /\ revs[Len(store) + 1] = NewRevision(store, parent, changes)
                 /\ ChainsSound(revs)
      BY <3>1, <3>2, RecordRevisionFact
    <3>3. /\ revs \in Seq(RevisionRow)
          /\ Len(revs) = Len(none) + 1
          /\ revs[Len(none) + 1] = NewRevision(none, NoRevision, changes)
          /\ ChainsSound(revs)
      BY <3>2, <2>2, <2>4, Zenon
    <3>4. Len(none) + 1 = 1
      BY <2>2
    <3>5. revs[1] = NewRevision(none, NoRevision, changes)
      BY <3>3, <3>4
    <3>6. QED BY <3>3, <3>4, <3>5, <2>3
  <2>6. head \in Revisions \cup {NoRevision}
    BY <2>1, <2>5 DEF Revisions
  <2>7. rows \in Tables
    BY <2>1, EmptyTyped, OverlayTyped
  <2>8. StateAt(revs, head) = rows
    BY <2>1, <2>5 DEF StateAt, NoRevision
  <2>9. RowsAgree
    BY <1>4, <2>8, AgreesReflexive DEF RowsAgree
  <2>10. TypeOK
    BY <1>1, <1>3, <2>5, <2>6, <2>7 DEF TypeOK, PlanStatuses
  <2>11. QED BY <1>5, <2>5, <2>9, <2>10 DEF Inv, StoreInv
<1>9. QED BY <1>6, <1>7, <1>8

LEMMA UnchangedKeepsInv ==
    ASSUME Inv, UNCHANGED <<rows, revs, head, planStatus, cascades, bypassed>>,
           completed' \in BOOLEAN
    PROVE  /\ Inv'
           /\ WorkingRevision' = WorkingRevision
           /\ IsOpen' <=> IsOpen
<1>1. OpenCascades' = OpenCascades
  BY DEF OpenCascades
<1>2. WorkingRevision' = WorkingRevision /\ (IsOpen' <=> IsOpen)
  BY <1>1 DEF WorkingRevision, IsOpen, OpenCascade
<1>3. TypeOK'
  BY DEF Inv, TypeOK, Revisions
<1>4. StoreInv'
  BY <1>1 DEF Inv, StoreInv, RefsExist, Revisions, CascadeAnchored
<1>5. RowsAgree'
  BY <1>2 DEF Inv, RowsAgree
<1>6. QED BY <1>2, <1>3, <1>4, <1>5 DEF Inv

LEMMA NextInv == ASSUME Inv, [Next]_vars PROVE Inv'
<1>1. CASE Next
  <2>1. CASE \E mode \in Modes : Writes(mode)
    BY <2>1, WritesKeepInv
  <2>2. CASE \E c \in CascadeIds : CascadeBegin(c) \/ PlanUnfreeze(c)
    BY <2>2, BeginKeepsInv
  <2>3. CASE \E c \in CascadeIds : CascadeCommit(c) \/ CascadeAbort(c)
    BY <2>3, CommitKeepsInv, AbortKeepsInv
  <2>4. CASE \E flag \in BOOLEAN : PlanCompletedSet(flag)
    BY <2>4, UnchangedKeepsInv DEF PlanCompletedSet
  <2>5. QED BY <1>1, <2>1, <2>2, <2>3, <2>4, NextIsWriteOrCascade
<1>2. CASE UNCHANGED vars
  BY <1>2, UnchangedKeepsInv DEF vars, Inv, TypeOK
<1>3. QED BY <1>1, <1>2

LEMMA Invariant == Spec => []Inv
<1>1. Init => Inv
  BY InitInv
<1>2. Inv /\ [Next]_vars => Inv'
  BY NextInv
<1>3. QED BY <1>1, <1>2, PTL DEF Spec

\* The variables keep their types; in particular no command gives a step a
\* status its level does not know (in_progress and done are for atomic steps).
THEOREM Typed == Spec => []TypeOK
<1>1. Inv => TypeOK
  BY DEF Inv
<1>2. QED BY <1>1, Invariant, PTL

\* Whatever is interleaved, at most one cascade is open; it has the one ref,
\* which has grown from its base; and the head waits at the base.
THEOREM CascadesAnchored == Spec => []CascadeAnchored
<1>1. Inv => CascadeAnchored
  BY DEF Inv, StoreInv
<1>2. QED BY <1>1, Invariant, PTL

\* The rows of the working copy are what the version store reads at the
\* working revision: no command changes a row that it does not snapshot.
THEOREM RowsAreRecorded == Spec => []RowsRecorded
<1>1. Inv => RowsRecorded
  BY InvImpliesRowsRecorded
<1>2. QED BY <1>1, Invariant, PTL

----------------------------------------------------------------------------
(* An abort restores the base                                              *)

\* A table agrees with what it was recorded as, dependencies aside.
LEMMA AgreesWithoutDeps ==
    ASSUME NEW t \in Tables, NEW u \in Tables, \A e \in Entities : AgreesAt(t, u, e)
    PROVE  WithoutDeps(t) = WithoutDeps(u)
BY AgreesIsRecorded

\* With no cascade open and none bypassed, the head reads the working rows.
HeadIsWorkingCopy == WithoutDeps(StateAt(revs, head)) = WithoutDeps(rows)

LEMMA HeadIsWorkingCopyNow ==
    ASSUME Inv, ~bypassed, ~IsOpen
    PROVE  HeadIsWorkingCopy
<1>1. WorkingRevision = head
  BY DEF WorkingRevision
<1>2. QED BY <1>1, InvImpliesRowsRecorded DEF RowsRecorded, HeadIsWorkingCopy

LEMMA HeadIsWorkingCopyNext == Inv' /\ ~bypassed' /\ ~IsOpen' => HeadIsWorkingCopy'
<1>1. Inv /\ ~bypassed /\ ~IsOpen => HeadIsWorkingCopy
  BY HeadIsWorkingCopyNow
<1>2. QED BY <1>1, PTL

\* A command that writes leaves the status of every cascade alone, and the
\* revisions already there.
LEMMA WritesFrame ==
    ASSUME Inv, NEW mode \in Modes, Writes(mode)
    PROVE  /\ \A c \in CascadeIds : cascades'[c].status = cascades[c].status
           /\ \A c \in CascadeIds : cascades'[c].base = cascades[c].base
           /\ OpenCascades' = OpenCascades
           /\ IsOpen' <=> IsOpen
           /\ Len(revs') = Len(revs) + 1
           /\ \A r \in 1..Len(revs) : revs'[r] = revs[r]
           /\ \A r \in 0..Len(revs) : StateAt(revs', r) = StateAt(revs, r)
           /\ WorkingRevision \in 0..Len(revs)
           /\ mode = "cascade" => head' = head
           /\ ~bypassed' => /\ WorkingRevision' = Len(revs) + 1
                            /\ revs'[Len(revs) + 1].chain =
                                  Chain(revs, WorkingRevision) \cup {Len(revs) + 1}
<1>1. PICK changes : /\ IsChange(changes)
                     /\ Record(mode, changes)
                     /\ mode = "cascade" => IsOpen
                     /\ mode = "direct" /\ IsOpen => bypassed'
  BY DEF Writes
<1>2. /\ revs \in Seq(RevisionRow) /\ Len(revs) \in Nat
      /\ WorkingRevision \in 0..Len(revs)
      /\ head \in 0..Len(revs)
  BY WorkingRevisionExists DEF Inv, TypeOK, Revisions, NoRevision
<1>3. CASE mode = "cascade"
  <2>1. /\ OpenCascade \in OpenCascades
        /\ WorkingRevision = cascades[OpenCascade].ref
    BY <1>1, <1>3 DEF IsOpen, OpenCascade, WorkingRevision
  <2>2. /\ revs' = RecordRevision(revs, WorkingRevision, changes)
        /\ cascades' = [cascades EXCEPT ![OpenCascade].ref = Len(revs) + 1]
        /\ head' = head
    BY <1>1, <1>3, <2>1 DEF Record
  <2>3. /\ \A c \in CascadeIds : cascades'[c].status = cascades[c].status
        /\ \A c \in CascadeIds : cascades'[c].base = cascades[c].base
        /\ cascades'[OpenCascade].ref = Len(revs) + 1
    BY <2>1, <2>2 DEF Inv, TypeOK, CascadeRow, OpenCascades
  <2>4. OpenCascades' = OpenCascades
    BY <2>3 DEF OpenCascades
  <2>5. WorkingRevision' = Len(revs) + 1
    BY <1>1, <1>3, <2>3, <2>4 DEF WorkingRevision, IsOpen, OpenCascade
  <2>6. /\ Len(revs') = Len(revs) + 1
        /\ \A r \in 1..Len(revs) : revs'[r] = revs[r]
        /\ revs'[Len(revs) + 1] = NewRevision(revs, WorkingRevision, changes)
    BY <1>1, <1>2, <2>2, RecordRevisionFact DEF Inv, StoreInv
  <2>7. \A r \in 0..Len(revs) : StateAt(revs', r) = StateAt(revs, r)
    BY <1>2, <2>6 DEF StateAt, NoRevision
  <2>8. QED BY <1>2, <2>2, <2>3, <2>4, <2>5, <2>6, <2>7 DEF IsOpen, NewRevision
<1>4. CASE mode = "direct"
  <2>1. /\ revs' = RecordRevision(revs, head, changes)
        /\ cascades' = cascades
        /\ head' = Len(revs) + 1
    BY <1>1, <1>4 DEF Record
  <2>2. OpenCascades' = OpenCascades
    BY <2>1 DEF OpenCascades
  <2>3. ~bypassed' => WorkingRevision' = Len(revs) + 1 /\ WorkingRevision = head
    BY <1>1, <1>4, <2>1, <2>2 DEF WorkingRevision, IsOpen
  <2>4. /\ Len(revs') = Len(revs) + 1
        /\ \A r \in 1..Len(revs) : revs'[r] = revs[r]
        /\ revs'[Len(revs) + 1] = NewRevision(revs, head, changes)
    BY <1>1, <1>2, <2>1, RecordRevisionFact DEF Inv, StoreInv
  <2>5. \A r \in 0..Len(revs) : StateAt(revs', r) = StateAt(revs, r)
    BY <1>2, <2>4 DEF StateAt, NoRevision
  <2>6. QED BY <1>2, <1>4, <2>1, <2>2, <2>3, <2>4, <2>5 DEF IsOpen, NewRevision
<1>5. QED BY <1>3, <1>4 DEF Modes

LEMMA AbortStep ==
    ASSUME Inv, [Next]_vars, NEW c \in OpenCascades, cascades'[c].status = "aborted",
           ~bypassed
    PROVE  /\ WithoutDeps(rows') = WithoutDeps(StateAt(revs, cascades[c].base))
           /\ CascadeAbort(c)
<1>1. c \in CascadeIds /\ cascades[c].status = "open" /\ IsOpen
  BY DEF OpenCascades, IsOpen
<1>2. Next
  BY <1>1 DEF vars
<1>3. ~ \E mode \in Modes : Writes(mode)
  BY <1>1, WritesFrame
<1>4. ~ \E d \in CascadeIds : CascadeBegin(d) \/ PlanUnfreeze(d)
  BY <1>1 DEF CascadeBegin, PlanUnfreeze, OpenNewCascade
<1>5. ~ \E flag \in BOOLEAN : PlanCompletedSet(flag)
  BY <1>1 DEF PlanCompletedSet
<1>6. PICK d \in CascadeIds : CascadeCommit(d) \/ CascadeAbort(d)
  BY <1>2, <1>3, <1>4, <1>5, NextIsWriteOrCascade
<1>7. d \in OpenCascades
  BY <1>6 DEF CascadeCommit, CascadeAbort
<1>8. d = c
  BY <1>7 DEF Inv, StoreInv, CascadeAnchored
<1>9. ~CascadeCommit(c)
  <2>1. ASSUME CascadeCommit(c) PROVE cascades'[c].status = "committed"
    BY <2>1, CascadeEnds DEF CascadeCommit, Inv
  <2>2. QED BY <2>1
<1>10. CascadeAbort(c)
  BY <1>6, <1>8, <1>9
<1>11. Inv' /\ ~IsOpen' /\ head = cascades[c].base
  BY <1>1, <1>10, AbortKeepsInv
<1>12. UNCHANGED <<revs, head, bypassed>>
  BY <1>10 DEF CascadeAbort
<1>13. HeadIsWorkingCopy'
  BY <1>11, <1>12, HeadIsWorkingCopyNext
<1>14. WithoutDeps(StateAt(revs, head)) = WithoutDeps(rows')
  BY <1>12, <1>13 DEF HeadIsWorkingCopy, WithoutDeps, StateAt, Present
<1>15. QED BY <1>10, <1>11, <1>14

\* Aborting a cascade gives every row back as the cascade found it: what it
\* changed or deleted is as at the base, and what it added is gone.
THEOREM AbortsRestoreBase == Spec => AbortRestoresBase
<1>1. Inv /\ [Next]_vars =>
         [\A c \in OpenCascades :
             cascades'[c].status = "aborted" /\ ~bypassed =>
                 WithoutDeps(rows') = WithoutDeps(StateAt(revs, cascades[c].base))]_vars
  BY AbortStep
<1>2. QED BY <1>1, Invariant, PTL DEF Spec, AbortRestoresBase

----------------------------------------------------------------------------
(* The plan implements a published state with a working copy               *)

LEMMA WithoutDepsTyped == ASSUME NEW t \in Tables PROVE WithoutDeps(t) \in Tables
<1> DEFINE bare(r) == [r EXCEPT !.deps = {}]
<1>1. ASSUME NEW e \in Entities, e \in Steps, t[e] # Absent
      PROVE  bare(t[e]) \in Row(e)
  <2>1. /\ t[e] \in StepRow
        /\ t[e].status \in KnownStatuses(LevelOf[e])
    BY <1>1, PresentFact DEF Present
  <2>2. bare(t[e]) \in StepRow /\ bare(t[e]).status = t[e].status
    BY <2>1 DEF StepRow
  <2>3. QED BY <1>1, <2>1, <2>2 DEF Row
<1>2. \A e \in Entities : WithoutDeps(t)[e] =
         IF e \in Steps /\ t[e] # Absent THEN bare(t[e]) ELSE t[e]
  BY DEF WithoutDeps
<1>3. WithoutDeps(t) = [e \in Entities |-> WithoutDeps(t)[e]]
  BY DEF WithoutDeps
<1> HIDE DEF bare
<1>4. \A e \in Entities : WithoutDeps(t)[e] \in Row(e) \cup {Absent}
  BY <1>1, <1>2, TableFact
<1>5. QED BY <1>3, <1>4, TableMade

LEMMA WorkingIsState == Inv => WithoutDeps(rows) \in Tables
BY WithoutDepsTyped DEF Inv, TypeOK

LEMMA WorkingIsStateNext == Inv' => (WithoutDeps(rows) \in Tables)'
BY WorkingIsState, PTL

\* A write is an edit of the working copy, direct or inside a cascade.
LEMMA WritesImplement ==
    ASSUME Inv, Inv', ~bypassed, ~bypassed', NEW mode \in Modes, Writes(mode)
    PROVE  Abstract!Next
<1>1. WithoutDeps(rows)' \in Tables
  BY WorkingIsStateNext
<1>2. UNCHANGED IsOpen /\ UNCHANGED bypassed
  BY WritesFrame DEF IsOpen, Inv, TypeOK
<1>3. CASE mode = "cascade"
  <2>1. IsOpen /\ head' = head
    BY <1>3, WritesFrame DEF Writes
  <2>2. StateAt(revs', head) = StateAt(revs, head)
    BY WritesFrame DEF Inv, TypeOK, Revisions, NoRevision
  <2>3. WithoutDeps(StateAt(revs, head))' = WithoutDeps(StateAt(revs, head))
    BY <2>1, <2>2 DEF WithoutDeps, StateAt
  <2>4. Abstract!EditInCascade
    BY <1>1, <1>2, <2>1, <2>3 DEF Abstract!EditInCascade
  <2>5. QED BY <2>4 DEF Abstract!Next
<1>4. CASE mode = "direct"
  <2>1. ~IsOpen
    BY <1>4 DEF Writes
  <2>2. HeadIsWorkingCopy'
    BY <1>2, <2>1, HeadIsWorkingCopyNext
  <2>3. Abstract!EditDirectly
    BY <1>1, <1>2, <2>1, <2>2 DEF Abstract!EditDirectly, HeadIsWorkingCopy
  <2>4. QED BY <2>3 DEF Abstract!Next
<1>5. QED BY <1>3, <1>4 DEF Modes

LEMMA BeginImplements ==
    ASSUME Inv, Inv', NEW c \in CascadeIds, CascadeBegin(c) \/ PlanUnfreeze(c)
    PROVE  Abstract!Begin
<1>1. OpenNewCascade(c) /\ IsOpen'
  BY BeginKeepsInv
<1>2. ~IsOpen /\ UNCHANGED <<rows, revs, head, bypassed>>
  BY <1>1 DEF OpenNewCascade
<1>3. QED BY <1>1, <1>2 DEF Abstract!Begin, WithoutDeps, StateAt

LEMMA CommitImplements ==
    ASSUME Inv, Inv', ~bypassed, NEW c \in CascadeIds, CascadeCommit(c)
    PROVE  Abstract!Commit
<1>1. ~IsOpen'
  BY CommitKeepsInv
<1>2. IsOpen /\ UNCHANGED <<rows, bypassed>>
  BY DEF CascadeCommit, IsOpen
<1>3. HeadIsWorkingCopy'
  BY <1>1, <1>2, HeadIsWorkingCopyNext
<1>4. WithoutDeps(rows)' = WithoutDeps(rows)
  BY <1>2 DEF WithoutDeps
<1>5. QED BY <1>1, <1>2, <1>3, <1>4 DEF Abstract!Commit, HeadIsWorkingCopy

LEMMA AbortImplements ==
    ASSUME Inv, Inv', ~bypassed, NEW c \in CascadeIds, CascadeAbort(c)
    PROVE  Abstract!Abort
<1>1. ~IsOpen'
  BY AbortKeepsInv
<1>2. IsOpen /\ UNCHANGED <<revs, head, bypassed>>
  BY DEF CascadeAbort, IsOpen
<1>3. HeadIsWorkingCopy'
  BY <1>1, <1>2, HeadIsWorkingCopyNext
<1>4. WithoutDeps(StateAt(revs, head))' = WithoutDeps(StateAt(revs, head))
  BY <1>2 DEF WithoutDeps, StateAt
<1>5. QED BY <1>1, <1>2, <1>3, <1>4 DEF Abstract!Abort, HeadIsWorkingCopy

LEMMA StepImplements ==
    ASSUME Inv, Inv', [Next]_vars
    PROVE  [Abstract!Next]_(Abstract!vars)
<1>1. CASE Next
  <2>1. ASSUME NEW mode \in Modes, Writes(mode) PROVE Abstract!Next
    <3>1. CASE bypassed'
      <4>1. bypassed' = TRUE /\ (bypassed \/ IsOpen)
        BY <2>1, <3>1 DEF Writes
      <4>2. Abstract!Bypass
        BY <4>1 DEF Abstract!Bypass
      <4>3. QED BY <4>2 DEF Abstract!Next
    <3>2. CASE ~bypassed'
      <4>1. ~bypassed
        BY <2>1, <3>2 DEF Writes
      <4>2. QED BY <2>1, <3>2, <4>1, WritesImplement
    <3>3. QED BY <3>1, <3>2
  <2>2. ASSUME bypassed, bypassed' = bypassed PROVE Abstract!Next
    <3>1. Abstract!Bypass
      BY <2>2 DEF Abstract!Bypass, Inv, TypeOK
    <3>2. QED BY <3>1 DEF Abstract!Next
  <2>3. ASSUME NEW c \in CascadeIds, CascadeBegin(c) \/ PlanUnfreeze(c)
        PROVE  Abstract!Next
    BY <2>3, BeginImplements DEF Abstract!Next
  <2>4. ASSUME NEW c \in CascadeIds, CascadeCommit(c) PROVE Abstract!Next
    <3>1. bypassed' = bypassed
      BY <2>4 DEF CascadeCommit
    <3>2. CASE ~bypassed
      BY <2>4, <3>2, CommitImplements DEF Abstract!Next
    <3>3. QED BY <3>1, <3>2, <2>2
  <2>5. ASSUME NEW c \in CascadeIds, CascadeAbort(c) PROVE Abstract!Next
    <3>1. bypassed' = bypassed
      BY <2>5 DEF CascadeAbort
    <3>2. CASE ~bypassed
      BY <2>5, <3>2, AbortImplements DEF Abstract!Next
    <3>3. QED BY <3>1, <3>2, <2>2
  <2>6. ASSUME NEW flag \in BOOLEAN, PlanCompletedSet(flag)
        PROVE  UNCHANGED Abstract!vars
    BY <2>6 DEF PlanCompletedSet, Abstract!vars, IsOpen, OpenCascades, WithoutDeps, StateAt
  <2>7. QED BY <1>1, <2>1, <2>3, <2>4, <2>5, <2>6, NextIsWriteOrCascade
<1>2. CASE UNCHANGED vars
  BY <1>2 DEF vars, Abstract!vars, IsOpen, OpenCascades, WithoutDeps, StateAt
<1>3. QED BY <1>1, <1>2

LEMMA InitImplements == ASSUME Init PROVE Abstract!Init
<1>1. Inv /\ ~bypassed /\ ~IsOpen
  BY InitInv DEF Init, NoCascade, IsOpen, OpenCascades
<1>2. HeadIsWorkingCopy /\ WithoutDeps(rows) \in Tables
  BY <1>1, HeadIsWorkingCopyNow, WorkingIsState
<1>3. bypassed = FALSE
  BY DEF Init
<1>4. QED BY <1>1, <1>2, <1>3 DEF Abstract!Init, HeadIsWorkingCopy

\* A plan is a published state and a working copy: outside a cascade an edit
\* is published as it is made, inside one only the commit publishes, and an
\* abort takes the working copy back to what is published.
THEOREM PublishedPlanImplemented == Spec => ImplementsPublishedPlan
<1>1. Init => Abstract!Init
  BY InitImplements
<1>2. Inv /\ Inv' /\ [Next]_vars => [Abstract!Next]_(Abstract!vars)
  BY StepImplements
<1>3. QED BY <1>1, <1>2, Invariant, PTL DEF Spec, ImplementsPublishedPlan, Abstract!Spec

----------------------------------------------------------------------------
(* No edit is lost                                                         *)

\* What an open cascade has recorded goes back to its base: a revision its
\* ref reaches is reached from the base or reaches it.
CascadesLinear ==
    \A c \in OpenCascades : \A r \in Chain(revs, cascades[c].ref) :
        r \in Chain(revs, cascades[c].base) \/ cascades[c].base \in Chain(revs, r)

\* r was recorded on a cascade that was aborted.
Discarded(r) ==
    \E c \in CascadeIds : /\ cascades[c].status = "aborted"
                          /\ cascades[c].base \in Chain(revs, r) \ {r}

HistoryInv ==
    ~bypassed => /\ CascadesLinear
                 /\ \A r \in Revisions \ Chain(revs, WorkingRevision) : Discarded(r)

LEMMA HistoryInvImpliesHistoryKept == HistoryInv => HistoryKept
BY DEF HistoryInv, HistoryKept, Discarded

LEMMA WritesKeepHistory ==
    ASSUME Inv, HistoryInv, ~bypassed', NEW mode \in Modes, Writes(mode)
    PROVE  HistoryInv'
<1> DEFINE new == Len(revs) + 1
<1>1. ~bypassed
  BY DEF Writes
<1>2. /\ \A c \in CascadeIds : cascades'[c].status = cascades[c].status
      /\ \A c \in CascadeIds : cascades'[c].base = cascades[c].base
      /\ OpenCascades' = OpenCascades
      /\ Len(revs') = new
      /\ \A r \in 1..Len(revs) : revs'[r] = revs[r]
      /\ WorkingRevision' = new
      /\ revs'[new].chain = Chain(revs, WorkingRevision) \cup {new}
      /\ WorkingRevision \in 0..Len(revs)
  BY WritesFrame
<1>3. Len(revs) \in Nat /\ revs \in Seq(RevisionRow) /\ ChainsSound(revs)
  BY DEF Inv, TypeOK, StoreInv
<1>4. /\ \A r \in 0..Len(revs) : Chain(revs', r) = Chain(revs, r)
      /\ Chain(revs', new) = Chain(revs, WorkingRevision) \cup {new}
  BY <1>2, <1>3 DEF Chain, NoRevision
<1>5. ASSUME NEW c \in OpenCascades, NEW r \in Chain(revs', cascades'[c].ref)
      PROVE  r \in Chain(revs', cascades'[c].base) \/ cascades'[c].base \in Chain(revs', r)
  <2>1. c \in CascadeIds /\ cascades[c].base \in 1..Len(revs) /\ IsOpen
    BY DEF OpenCascades, IsOpen, Inv, StoreInv, RefsExist, Revisions
  <2>2. c = OpenCascade /\ IsOpen' /\ c = OpenCascade'
    BY <1>2, <2>1, TheOpenCascade DEF Inv, StoreInv, IsOpen, OpenCascade
  <2>3. WorkingRevision = cascades[c].ref /\ WorkingRevision' = cascades'[c].ref
    BY <2>1, <2>2 DEF WorkingRevision
  <2>4. r \in Chain(revs, cascades[c].ref) \cup {new}
    BY <1>2, <1>4, <2>3
  <2>5. CASE r = new
    <3>1. cascades[c].base \in Chain(revs, cascades[c].ref)
      BY DEF Inv, StoreInv, CascadeAnchored
    <3>2. QED BY <1>2, <1>4, <2>1, <2>3, <2>5, <3>1
  <2>6. CASE r \in Chain(revs, cascades[c].ref)
    <3>1. r \in 1..Len(revs)
      BY <1>2, <1>3, <2>3, <2>6, RevisionFact
    <3>2. r \in Chain(revs, cascades[c].base) \/ cascades[c].base \in Chain(revs, r)
      BY <1>1, <2>6 DEF HistoryInv, CascadesLinear
    <3>3. QED BY <1>2, <1>4, <2>1, <3>1, <3>2
  <2>7. QED BY <2>4, <2>5, <2>6
<1>6. CascadesLinear'
  BY <1>2, <1>5 DEF CascadesLinear
<1>7. ASSUME NEW r \in 1..new, r \notin Chain(revs', WorkingRevision')
      PROVE  Discarded(r)'
  <2>1. r \in 1..Len(revs) /\ r \notin Chain(revs, WorkingRevision)
    BY <1>2, <1>3, <1>4, <1>7
  <2>2. Discarded(r)
    BY <1>1, <2>1 DEF HistoryInv, Revisions
  <2>3. QED BY <1>2, <1>4, <2>1, <2>2 DEF Discarded
<1>8. QED BY <1>2, <1>6, <1>7 DEF HistoryInv, Revisions

LEMMA BeginKeepsHistory ==
    ASSUME Inv, HistoryInv, NEW c \in CascadeIds, CascadeBegin(c) \/ PlanUnfreeze(c)
    PROVE  HistoryInv'
<1> DEFINE row == [status |-> "open", base |-> head, ref |-> head]
<1>1. /\ ~IsOpen /\ cascades[c].status = "none"
      /\ cascades' = [cascades EXCEPT ![c] = row]
      /\ UNCHANGED <<rows, revs, head, completed, bypassed>>
  BY DEF CascadeBegin, PlanUnfreeze, OpenNewCascade
<1>2. /\ cascades'[c] = row
      /\ \A d \in CascadeIds \ {c} : cascades'[d] = cascades[d]
  BY <1>1 DEF Inv, TypeOK
<1>3. OpenCascades' = {c}
  BY <1>1, <1>2 DEF OpenCascades, IsOpen
<1>4. WorkingRevision' = head /\ WorkingRevision = head
  <2>1. IsOpen' /\ OpenCascade' = c
    BY <1>3 DEF IsOpen, OpenCascade
  <2>2. QED BY <1>1, <1>2, <2>1 DEF WorkingRevision
<1>5. CascadesLinear'
  BY <1>1, <1>2, <1>3 DEF CascadesLinear
<1>6. \A r : Discarded(r) => Discarded(r)'
  BY <1>1, <1>2 DEF Discarded
<1>7. QED BY <1>1, <1>4, <1>5, <1>6 DEF HistoryInv, Revisions

LEMMA CommitKeepsHistory ==
    ASSUME Inv, HistoryInv, NEW c \in CascadeIds, CascadeCommit(c)
    PROVE  HistoryInv'
<1>1. /\ c \in OpenCascades
      /\ cascades' = [cascades EXCEPT ![c].status = "committed", ![c].ref = NoRevision]
      /\ UNCHANGED <<revs, bypassed>>
  BY DEF CascadeCommit
<1>2. /\ ~IsOpen' /\ WorkingRevision' = WorkingRevision
  BY CommitKeepsInv
<1>3. /\ \A d \in CascadeIds : cascades'[d].base = cascades[d].base
      /\ \A d \in CascadeIds \ {c} : cascades'[d] = cascades[d]
      /\ cascades[c].status = "open"
  BY <1>1, CascadeEnds DEF Inv, OpenCascades
<1>4. CascadesLinear'
  BY <1>2 DEF CascadesLinear, IsOpen
<1>5. \A r : Discarded(r) => Discarded(r)'
  BY <1>1, <1>3 DEF Discarded
<1>6. QED BY <1>1, <1>2, <1>4, <1>5 DEF HistoryInv, Revisions

LEMMA AbortKeepsHistory ==
    ASSUME Inv, HistoryInv, NEW c \in CascadeIds, CascadeAbort(c)
    PROVE  HistoryInv'
<1> DEFINE base == cascades[c].base
           tip  == cascades[c].ref
<1>1. /\ c \in OpenCascades
      /\ cascades' = [cascades EXCEPT ![c].status = "aborted", ![c].ref = NoRevision]
      /\ UNCHANGED <<revs, head, bypassed>>
  BY DEF CascadeAbort
<1>2. /\ ~IsOpen' /\ WorkingRevision' = head /\ (~bypassed => head = base)
  BY AbortKeepsInv
<1>3. /\ \A d \in CascadeIds : cascades'[d].base = cascades[d].base
      /\ \A d \in CascadeIds \ {c} : cascades'[d] = cascades[d]
      /\ cascades'[c].status = "aborted"
      /\ cascades[c].status = "open"
      /\ WorkingRevision = tip
  BY <1>1, CascadeEnds DEF Inv, OpenCascades
<1>4. CascadesLinear'
  BY <1>2 DEF CascadesLinear, IsOpen
<1>5. \A r : Discarded(r) => Discarded(r)'
  BY <1>1, <1>3 DEF Discarded
<1>6. ASSUME ~bypassed, NEW r \in Revisions, r \notin Chain(revs, base)
      PROVE  Discarded(r)'
  <2>1. CASE r \notin Chain(revs, tip)
    BY <1>3, <1>5, <1>6, <2>1 DEF HistoryInv
  <2>2. CASE r \in Chain(revs, tip)
    <3>1. base \in Chain(revs, r)
      BY <1>1, <1>6, <2>2 DEF HistoryInv, CascadesLinear
    <3>2. base \in 1..Len(revs)
      BY <1>1 DEF Inv, StoreInv, RefsExist, Revisions
    <3>3. base \in Chain(revs, base)
      BY <3>2, RevisionFact DEF Inv, TypeOK, StoreInv, NoRevision
    <3>4. base # r
      BY <1>6, <3>3
    <3>5. c \in CascadeIds /\ cascades'[c].base = base
      BY <1>3
    <3>6. QED BY <1>1, <1>3, <3>1, <3>4, <3>5 DEF Discarded
  <2>3. QED BY <2>1, <2>2
<1>7. QED BY <1>1, <1>2, <1>4, <1>6 DEF HistoryInv, Revisions

LEMMA NextHistory == ASSUME Inv, Inv', HistoryInv, [Next]_vars PROVE HistoryInv'
<1>1. CASE Next
  <2>1. ASSUME NEW mode \in Modes, Writes(mode) PROVE HistoryInv'
    <3>1. CASE bypassed'
      BY <3>1 DEF HistoryInv
    <3>2. CASE ~bypassed'
      BY <2>1, <3>2, WritesKeepHistory
    <3>3. QED BY <3>1, <3>2
  <2>2. CASE \E c \in CascadeIds : CascadeBegin(c) \/ PlanUnfreeze(c)
    BY <2>2, BeginKeepsHistory
  <2>3. CASE \E c \in CascadeIds : CascadeCommit(c) \/ CascadeAbort(c)
    BY <2>3, CommitKeepsHistory, AbortKeepsHistory
  <2>4. CASE \E flag \in BOOLEAN : PlanCompletedSet(flag)
    BY <2>4 DEF PlanCompletedSet, HistoryInv, CascadesLinear, Discarded, Revisions,
       WorkingRevision, IsOpen, OpenCascade, OpenCascades
  <2>5. QED BY <1>1, <2>1, <2>2, <2>3, <2>4, NextIsWriteOrCascade
<1>2. CASE UNCHANGED vars
  BY <1>2 DEF vars, HistoryInv, CascadesLinear, Discarded, Revisions, WorkingRevision,
     IsOpen, OpenCascade, OpenCascades
<1>3. QED BY <1>1, <1>2

LEMMA InitHistory == ASSUME Init PROVE HistoryInv
<1>1. Inv /\ OpenCascades = {}
  BY InitInv DEF Init, NoCascade, OpenCascades
<1>2. WorkingRevision = head
  BY <1>1 DEF WorkingRevision, IsOpen
<1>3. head = Len(revs) /\ head \in {0, 1}
  <2>1. Len(<<>>) = 0
    OBVIOUS
  <2>2. \A changes : Len(RecordRevision(<<>>, NoRevision, changes)) = 1
    BY DEF RecordRevision
  <2>3. CASE revs = <<>> /\ head = NoRevision
    BY <2>1, <2>3 DEF NoRevision
  <2>4. CASE \E changes : revs = RecordRevision(<<>>, NoRevision, changes) /\ head = 1
    <3>1. PICK changes : revs = RecordRevision(<<>>, NoRevision, changes) /\ head = 1
      BY <2>4
    <3>2. Len(revs) = Len(RecordRevision(<<>>, NoRevision, changes))
      BY <3>1
    <3>3. Len(revs) = 1
      BY <2>2, <3>2
    <3>4. QED BY <3>1, <3>3
  <2>5. QED BY <2>3, <2>4 DEF Init
<1>4. ASSUME NEW r \in Revisions PROVE r \in Chain(revs, WorkingRevision)
  <2>1. r = head /\ r # NoRevision /\ r \in 0..Len(revs)
    BY <1>3 DEF Revisions, NoRevision
  <2>2. QED BY <1>1, <1>2, <2>1, RevisionFact DEF Inv, TypeOK, StoreInv
<1>5. QED BY <1>1, <1>4 DEF HistoryInv, CascadesLinear

\* No edit is lost: a revision that the working revision does not lead back to
\* was recorded on a cascade that was aborted since.
THEOREM HistoryIsKept == Spec => []HistoryKept
<1>1. Init => HistoryInv
  BY InitHistory
<1>2. Inv /\ Inv' /\ HistoryInv /\ [Next]_vars => HistoryInv'
  BY NextHistory
<1>3. HistoryInv => HistoryKept
  BY HistoryInvImpliesHistoryKept
<1>4. QED BY <1>1, <1>2, <1>3, Invariant, PTL DEF Spec

----------------------------------------------------------------------------
(* What is proved of every version store                                   *)

Walk == INSTANCE VersionStoreWalk_proofs

LEMMA LeastSet ==
    ASSUME NEW S, IsFiniteSet(S), NEW F, F \subseteq SUBSET S, F # {}
    PROVE  \E A \in F : \A B \in F : B \subseteq A => B = A
<1>1. Walk!IsFiniteSet(S)
  BY DEF IsFiniteSet, Walk!IsFiniteSet
<1>2. QED BY <1>1, AbsentAssumption, Walk!LeastSet

LEMMA LeastNumber ==
    ASSUME NEW F, F \subseteq Nat, F # {}
    PROVE  \E n \in F : \A m \in F : n <= m
BY AbsentAssumption, Walk!LeastNumber

Recurs(f, n, first, step) == f[0] = first /\ \A i \in 1..n : f[i] = step[<<i, f[i - 1]>>]

LEMMA IntervalRecursion ==
    ASSUME NEW n \in Nat, NEW S, NEW first \in S, NEW step \in [(1..n) \X S -> S]
    PROVE  \E f \in [0..n -> S] : Recurs(f, n, first, step)
<1>1. \E f \in [0..n -> S] : Walk!Recurs(f, n, first, step)
  BY AbsentAssumption, Walk!IntervalRecursion
<1>2. QED BY <1>1 DEF Walk!Recurs, Recurs

----------------------------------------------------------------------------
(* The walks over the store of a plan                                      *)

LEMMA SameRevision ==
    ASSUME NEW store, NEW parent, NEW changes
    PROVE  Walk!NewRevision(store, parent, changes) = NewRevision(store, parent, changes)
BY DEF Walk!NewRevision, NewRevision, Walk!StateAt, StateAt, Walk!Chain, Chain,
       Walk!Overlay, Overlay, Walk!EmptyState, EmptyState, Walk!NoRevision, NoRevision

LEMMA RecordedLinks ==
    ASSUME NEW store, Len(store) \in Nat, Walk!Linked(store),
           NEW parent \in 0..Len(store), NEW changes, DOMAIN changes \subseteq Entities,
           NEW after, Len(after) = Len(store) + 1,
           \A q \in 1..Len(store) : after[q] = store[q],
           after[Len(store) + 1] = NewRevision(store, parent, changes)
    PROVE  Walk!Linked(after)
<1>1. after[Len(store) + 1] = Walk!NewRevision(store, parent, changes)
  BY SameRevision
<1>2. Absent \notin Contents
  BY AbsentAssumption
<1>3. QED BY <1>1, <1>2, Walk!LinkedGrows

LEMMA WritesKeepLinked ==
    ASSUME Inv, Walk!Linked(revs), NEW mode \in Modes, Writes(mode)
    PROVE  Walk!Linked(revs')
<1>1. PICK changes : IsChange(changes) /\ Record(mode, changes) /\ (mode = "cascade" => IsOpen)
  BY DEF Writes
<1>2. PICK parent \in 0..Len(revs) : revs' = RecordRevision(revs, parent, changes)
  <2>1. head \in 0..Len(revs)
    BY DEF Inv, TypeOK, Revisions, NoRevision
  <2>2. mode = "cascade" => cascades[OpenCascade].ref \in 0..Len(revs)
    <3>1. IsOpen => OpenCascade \in OpenCascades
      BY DEF IsOpen, OpenCascade
    <3>2. QED BY <1>1, <3>1 DEF Inv, StoreInv, RefsExist, Revisions
  <2>3. QED BY <1>1, <2>1, <2>2 DEF Record
<1>3. revs \in Seq(RevisionRow) /\ ChainsSound(revs) /\ Len(revs) \in Nat
  BY DEF Inv, TypeOK, StoreInv
<1>4. /\ Len(revs') = Len(revs) + 1
      /\ \A r \in 1..Len(revs) : revs'[r] = revs[r]
      /\ revs'[Len(revs) + 1] = NewRevision(revs, parent, changes)
  BY <1>1, <1>2, <1>3, RecordRevisionFact
<1>5. DOMAIN changes \subseteq Entities
  BY <1>1 DEF IsChange
<1>6. QED BY <1>3, <1>4, <1>5, RecordedLinks

LEMMA NextLinked == ASSUME Inv, Walk!Linked(revs), [Next]_vars PROVE Walk!Linked(revs')
<1>1. CASE \E mode \in Modes : Writes(mode)
  BY <1>1, WritesKeepLinked
<1>2. CASE revs' = revs
  BY <1>2
<1>3. Next => (\E mode \in Modes : Writes(mode)) \/ revs' = revs
  BY NextIsWriteOrCascade DEF CascadeBegin, PlanUnfreeze, OpenNewCascade, CascadeCommit,
     CascadeAbort, PlanCompletedSet
<1>4. QED BY <1>1, <1>2, <1>3 DEF vars

LEMMA InitLinked == ASSUME Init PROVE Walk!Linked(revs)
<1>1. CASE revs = <<>>
  BY <1>1, AbsentAssumption, Walk!LinkedEmpty
<1>2. ASSUME NEW tree \in ImportTrees,
             revs = RecordRevision(<<>>, NoRevision,
                                   [s \in {u \in Steps : tree[u] # Absent} |-> tree[s]])
      PROVE  Walk!Linked(revs)
  <2> DEFINE changes == [s \in {u \in Steps : tree[u] # Absent} |-> tree[s]]
             none == <<>>
  <2>1. DOMAIN changes \subseteq Entities
    BY StepsAreEntities
  <2> HIDE DEF changes
  <2>2. /\ Len(revs) = 1
        /\ revs[1] = NewRevision(none, NoRevision, changes)
    BY <1>2 DEF RecordRevision, changes
  <2>3. Walk!Linked(none) /\ Len(none) = 0
    BY AbsentAssumption, Walk!LinkedEmpty
  <2> HIDE DEF none
  <2>4. /\ Len(none) \in Nat /\ NoRevision \in 0..Len(none)
        /\ Len(revs) = Len(none) + 1
        /\ \A q \in 1..Len(none) : revs[q] = none[q]
        /\ revs[Len(none) + 1] = NewRevision(none, NoRevision, changes)
    BY <2>2, <2>3 DEF NoRevision
  <2>5. QED BY <2>1, <2>3, <2>4, RecordedLinks
<1>3. QED BY <1>1, <1>2 DEF Init

\* What the walks of version_ops.py read at a revision of a plan is what the
\* record of the revision keeps, whatever commands and cascades have recorded.
THEOREM WalksReadThePlan == Spec => []Walk!WalksAgree
<1>1. Init => Walk!Linked(revs)
  BY InitLinked
<1>2. Inv /\ Walk!Linked(revs) /\ [Next]_vars => Walk!Linked(revs)'
  BY NextLinked
<1>3. Inv /\ Walk!Linked(revs) => Walk!WalksAgree
  BY AbsentAssumption, Walk!LinkedWalks DEF Inv, TypeOK
<1>4. QED BY <1>1, <1>2, <1>3, Invariant, PTL DEF Spec

----------------------------------------------------------------------------
(* What the commands do to the rows of steps                               *)

\* A row of t keeps the place it has in u.
Placed(t, u, s) == t[s].parent = u[s].parent /\ t[s].id = u[s].id

SamePlaces(t, u) == Present(t) = Present(u) /\ \A s \in Present(u) : Placed(t, u, s)

LEMMA SamePlacesSameImpact ==
    ASSUME NEW t, NEW u, SamePlaces(t, u), NEW s
    PROVE  ImpactSet(t, s) = ImpactSet(u, s)
BY DEF SamePlaces, Placed, ImpactSet, Children

\* A rewritten row of a step is the row of a step.
LEMMA PresentMade ==
    ASSUME NEW t \in Tables, NEW s \in Steps, t[s] \in StepRow
    PROVE  s \in Present(t)
BY AbsentAssumption DEF Present

LEMMA SetStatusFields ==
    ASSUME NEW row \in StepRow, NEW status
    PROVE  LET new == SetStatus(row, status)
           IN  /\ new.status = status
               /\ new.parent = row.parent
               /\ new.id = row.id
               /\ new.deps = row.deps
               /\ new.content = row.content
BY DEF SetStatus, StepRow

LEMMA InvalidatedPresent ==
    ASSUME NEW t \in Tables, NEW hit, hit \subseteq Present(t)
    PROVE  Present(Invalidated(t, hit)) = Present(t)
<1>1. /\ Invalidated(t, hit) \in Tables
      /\ \A e \in Entities :
            Invalidated(t, hit)[e] =
               IF e \in hit THEN SetStatus(t[e], "needs_review") ELSE t[e]
  BY InvalidatedTyped
<1>2. ASSUME NEW s \in hit PROVE SetStatus(t[s], "needs_review") # Absent
  <2>1. s \in Present(t)
    OBVIOUS
  <2>2. t[s] \in StepRow
    BY <2>1, PresentFact
  <2>3. SetStatus(t[s], "needs_review") \in StepRow
    BY <2>2 DEF SetStatus, StepRow, AllStatuses, Statuses
  <2>4. QED BY <2>3, AbsentAssumption
<1>3. \A s \in Steps : Invalidated(t, hit)[s] # Absent <=> t[s] # Absent
  BY <1>1, <1>2, StepsAreEntities DEF Present
<1>4. QED BY <1>3 DEF Present

\* A step that runs or has run is atomic.
LEMMA RunningIsAtomic ==
    ASSUME NEW t \in Tables, NEW s \in Present(t), t[s].status \in AtomicStatuses
    PROVE  LevelOf[s] = AtomicLevel
<1>1. t[s].status \in KnownStatuses(LevelOf[s])
  BY PresentFact
<1>2. QED BY <1>1 DEF KnownStatuses, Statuses, AtomicStatuses

\* WriteStep writes the table it is given, and sets steps below s to
\* needs_review, in a cascade, where they neither run nor have run.
LEMMA WriteStepEffect ==
    ASSUME NEW table \in Tables, NEW s \in Present(table), NEW mode,
           WriteStep(s, table, mode)
    PROVE  /\ rows' \in Tables
           /\ Present(rows') = Present(table)
           /\ \A d \in Present(table) :
                 /\ Placed(rows', table, d)
                 /\ rows'[d].deps = table[d].deps
                 /\ rows'[d].content = table[d].content
                 /\ \/ rows'[d].status = table[d].status
                    \/ /\ mode = "cascade"
                       /\ rows'[d].status = "needs_review"
                       /\ table[d].status \notin AtomicStatuses
           /\ mode = "cascade" =>
                 \A d \in ImpactSet(rows', s) :
                    rows'[d].status \in {"needs_review"} \cup AtomicStatuses
           /\ mode # "cascade" => \A e \in Entities : rows'[e] = table[e]
           /\ \A e \in MrsEntities : rows'[e] = table[e]
<1> DEFINE hit   == IF mode = "cascade" THEN StepInvalidation(table, s) ELSE {}
           final == Invalidated(table, hit)
<1>1. hit \subseteq Present(table)
  BY DEF StepInvalidation, ImpactSet, Children
<1>2. /\ final \in Tables
      /\ \A e \in Entities :
            final[e] = IF e \in hit THEN SetStatus(table[e], "needs_review") ELSE table[e]
  BY <1>1, InvalidatedTyped
<1>3. Present(final) = Present(table)
  BY <1>1, InvalidatedPresent
<1>4. rows' = final
  BY DEF WriteStep
<1>5. \A d \in hit : mode = "cascade" /\ d \in StepInvalidation(table, s)
  OBVIOUS
<1>6. ASSUME mode = "cascade" PROVE hit = StepInvalidation(table, s)
  BY <1>6
<1>7. ASSUME mode # "cascade" PROVE hit = {}
  BY <1>7
<1> HIDE DEF hit, final
<1>8. ASSUME NEW d \in Present(table)
      PROVE  /\ Placed(rows', table, d)
             /\ rows'[d].deps = table[d].deps
             /\ rows'[d].content = table[d].content
             /\ d \notin hit => rows'[d].status = table[d].status
             /\ d \in hit => rows'[d].status = "needs_review"
  <2>1. d \in Entities /\ table[d] \in StepRow
    BY PresentFact
  <2>2. CASE d \in hit
    <3>1. rows'[d] = SetStatus(table[d], "needs_review")
      BY <1>2, <1>4, <2>1, <2>2
    <3>2. QED BY <2>1, <2>2, <3>1, SetStatusFields DEF Placed
  <2>3. CASE d \notin hit
    BY <1>2, <1>4, <2>1, <2>3 DEF Placed
  <2>4. QED BY <2>2, <2>3
<1>9. ASSUME NEW d \in hit PROVE table[d].status \notin AtomicStatuses
  <2>1. d \in Present(table) /\ d \in StepInvalidation(table, s)
    BY <1>1, <1>5
  <2>2. QED BY <2>1, RunningIsAtomic DEF StepInvalidation
<1>10. ASSUME mode = "cascade", NEW d \in ImpactSet(table, s)
       PROVE  rows'[d].status \in {"needs_review"} \cup AtomicStatuses
  <2>1. d \in Present(table)
    BY DEF ImpactSet, Children
  <2>2. CASE d \in hit
    BY <1>8, <2>1, <2>2
  <2>3. CASE d \notin hit
    <3>1. table[d].status \in {"needs_review"} \cup AtomicStatuses
      BY <1>6, <1>10, <2>3 DEF StepInvalidation
    <3>2. QED BY <1>8, <2>1, <2>3, <3>1
  <2>4. QED BY <2>2, <2>3
<1>11. ASSUME mode # "cascade", NEW e \in Entities PROVE rows'[e] = table[e]
  BY <1>2, <1>4, <1>7, <1>11
<1>12. ASSUME NEW e \in MrsEntities PROVE rows'[e] = table[e]
  <2>1. e \notin hit /\ e \in Entities
    BY <1>1, StepsAreEntities DEF Present
  <2>2. QED BY <1>2, <1>4, <2>1
<1>13. ImpactSet(rows', s) = ImpactSet(table, s)
  BY <1>3, <1>4, <1>8, SamePlacesSameImpact DEF SamePlaces
<1>14. QED BY <1>2, <1>3, <1>4, <1>5, <1>8, <1>9, <1>10, <1>11, <1>12, <1>13

LEMMA StepCreateEffect ==
    ASSUME Inv, NEW mode \in Modes, NEW s \in Steps, NEW p \in Steps \cup {NoParent},
           NEW content \in Contents, StepCreate(s, p, content, mode)
    PROVE  /\ s \notin Present(rows)
           /\ ValidParent(rows, LevelOf[s], p)
           /\ AdmitCascade(mode)
           /\ mode = "direct" =>
                 IF p = NoParent THEN FrozenSteps(rows) = {}
                 ELSE ~FrozenAtOrBelow(rows, p) /\ ~FrozenAncestor(rows, p)
           /\ Present(rows') = Present(rows) \cup {s}
           /\ \A d \in Entities \ {s} : rows'[d] = rows[d]
           /\ rows'[s].parent = p
           /\ rows'[s].status = "draft"
           /\ rows'[s].deps = {}
           /\ IsNextFreeId(rows'[s].id, rows, p, LevelOf[s])
<1>1. PICK id \in StepIds :
         /\ IsNextFreeId(id, rows, p, LevelOf[s])
         /\ rows' = [rows EXCEPT ![s] = NewStepRow(p, id, content)]
  BY DEF StepCreate
<1> DEFINE row == NewStepRow(p, id, content)
<1>2. row \in Row(s) /\ row \in StepRow
  BY DEF NewStepRow, Row, StepRow, AllStatuses, Statuses, KnownStatuses
<1>3. row.parent = p /\ row.id = id /\ row.status = "draft" /\ row.deps = {}
  BY DEF NewStepRow
<1>4. s \in Entities /\ rows \in Tables /\ rows' = [rows EXCEPT ![s] = row]
  BY <1>1, StepsAreEntities DEF Inv, TypeOK
<1> HIDE DEF row
<1>5. rows' \in Tables /\ rows'[s] = row /\ \A e \in Entities \ {s} : rows'[e] = rows[e]
  <2> DEFINE table == [rows EXCEPT ![s] = row]
  <2>1. s \in Entities /\ rows \in Tables /\ row \in Row(s) \cup {Absent}
    BY <1>2, <1>4
  <2>2. table \in Tables /\ table[s] = row /\ \A e \in Entities \ {s} : table[e] = rows[e]
    BY <2>1, UpdateTyped
  <2>3. rows' = table
    BY <1>4
  <2> HIDE DEF table
  <2>4. QED BY <2>2, <2>3
<1>6. Present(rows') = Present(rows) \cup {s}
  BY <1>2, <1>5, AbsentAssumption, StepsAreEntities DEF Present
<1>7. s \notin Present(rows) /\ ValidParent(rows, LevelOf[s], p)
  BY DEF StepCreate, Present
<1>8. /\ AdmitCascade(mode)
      /\ mode = "direct" =>
            IF p = NoParent THEN FrozenSteps(rows) = {}
            ELSE ~FrozenAtOrBelow(rows, p) /\ ~FrozenAncestor(rows, p)
  BY DEF StepCreate, AdmitPlan, AdmitStep
<1>9. QED BY <1>1, <1>3, <1>5, <1>6, <1>7, <1>8

\* A new row for s in place of the present one, with the same place and the
\* same dependencies, and what WriteStep makes of the table.
LEMMA RewriteEffect ==
    ASSUME Inv, NEW mode \in Modes, NEW s \in Present(rows), NEW row, row \in Row(s),
           row.parent = rows[s].parent, row.id = rows[s].id, row.deps = rows[s].deps,
           WriteStep(s, [rows EXCEPT ![s] = row], mode)
    PROVE  /\ SamePlaces(rows', rows)
           /\ \A d \in Present(rows) : rows'[d].deps = rows[d].deps
           /\ \A d \in Present(rows) \ {s} :
                 /\ rows'[d].content = rows[d].content
                 /\ \/ rows'[d].status = rows[d].status
                    \/ /\ mode = "cascade"
                       /\ rows'[d].status = "needs_review"
                       /\ rows[d].status \notin AtomicStatuses
           /\ rows'[s].content = row.content
           /\ \/ rows'[s].status = row.status
              \/ /\ mode = "cascade"
                 /\ rows'[s].status = "needs_review"
                 /\ row.status \notin AtomicStatuses
           /\ mode = "cascade" =>
                 \A d \in ImpactSet(rows', s) :
                    rows'[d].status \in {"needs_review"} \cup AtomicStatuses
           /\ \A e \in MrsEntities : rows'[e] = rows[e]
<1> DEFINE table == [rows EXCEPT ![s] = row]
<1>1. s \in Steps /\ s \in Entities /\ rows \in Tables
  BY PresentFact DEF Inv, TypeOK
<1>2. table \in Tables /\ table[s] = row /\ \A e \in Entities \ {s} : table[e] = rows[e]
  BY <1>1, UpdateTyped
<1>3. WriteStep(s, table, mode)
  OBVIOUS
<1> HIDE DEF table
<1>4. row \in StepRow
  BY <1>1 DEF Row
<1>5. Present(table) = Present(rows)
  BY <1>1, <1>2, <1>4, AbsentAssumption, StepsAreEntities DEF Present
<1>6. \A d \in Present(rows) : d \in Entities
  BY StepsAreEntities DEF Present
<1>7. \A d \in Present(rows) : Placed(table, rows, d) /\ table[d].deps = rows[d].deps
  BY <1>2, <1>6 DEF Placed
<1>9. s \in Present(table)
  BY <1>5
<1>10. /\ Present(rows') = Present(table)
       /\ \A d \in Present(table) :
                 /\ Placed(rows', table, d)
                 /\ rows'[d].deps = table[d].deps
                 /\ rows'[d].content = table[d].content
                 /\ \/ rows'[d].status = table[d].status
                    \/ /\ mode = "cascade"
                       /\ rows'[d].status = "needs_review"
                       /\ table[d].status \notin AtomicStatuses
       /\ mode = "cascade" =>
                 \A d \in ImpactSet(rows', s) :
                    rows'[d].status \in {"needs_review"} \cup AtomicStatuses
       /\ \A e \in MrsEntities : rows'[e] = table[e]
  BY <1>2, <1>3, <1>9, WriteStepEffect
<1>11. SamePlaces(rows', rows)
  BY <1>5, <1>7, <1>10 DEF SamePlaces, Placed
<1>12. \A e \in MrsEntities : rows'[e] = rows[e]
  BY <1>1, <1>2, <1>10, StepsAreEntities
<1>13. \A d \in Present(rows) \ {s} : table[d] = rows[d]
  BY <1>2, <1>6
<1>14. QED BY <1>2, <1>5, <1>7, <1>10, <1>11, <1>12, <1>13

LEMMA StepUpdateEffect ==
    ASSUME Inv, NEW mode \in Modes, NEW s \in Steps,
           NEW content \in Contents, StepUpdate(s, content, mode)
    PROVE  /\ s \in Present(rows)
           /\ AdmitStep(s, mode)
           /\ SamePlaces(rows', rows)
           /\ \A d \in Present(rows) : rows'[d].deps = rows[d].deps
           /\ \A d \in Present(rows) \ {s} : rows'[d].content = rows[d].content
           /\ \A d \in Present(rows) :
                 \/ rows'[d].status = rows[d].status
                 \/ /\ mode = "cascade"
                    /\ rows'[d].status = "needs_review"
                    /\ rows[d].status \notin AtomicStatuses
           /\ mode = "cascade" =>
                 \A d \in ImpactSet(rows', s) :
                    rows'[d].status \in {"needs_review"} \cup AtomicStatuses
           /\ \A e \in MrsEntities : rows'[e] = rows[e]
<1> DEFINE row == [rows[s] EXCEPT !.content = content]
<1>1. /\ s \in Present(rows) /\ AdmitStep(s, mode) /\ rows \in Tables
      /\ WriteStep(s, [rows EXCEPT ![s] = row], mode)
  BY DEF StepUpdate, Inv, TypeOK
<1>2. /\ rows[s] \in StepRow
      /\ rows[s].status \in KnownStatuses(LevelOf[s])
  BY <1>1, PresentFact
<1>3. /\ row \in StepRow /\ row.parent = rows[s].parent /\ row.id = rows[s].id
      /\ row.deps = rows[s].deps /\ row.status = rows[s].status
  BY <1>2 DEF StepRow
<1>4. row \in Row(s)
  BY <1>2, <1>3 DEF Row
<1> HIDE DEF row
<1>5. /\ SamePlaces(rows', rows)
      /\ \A d \in Present(rows) : rows'[d].deps = rows[d].deps
      /\ \A d \in Present(rows) \ {s} :
                 /\ rows'[d].content = rows[d].content
                 /\ \/ rows'[d].status = rows[d].status
                    \/ /\ mode = "cascade"
                       /\ rows'[d].status = "needs_review"
                       /\ rows[d].status \notin AtomicStatuses
      /\ \/ rows'[s].status = row.status
         \/ /\ mode = "cascade"
            /\ rows'[s].status = "needs_review"
            /\ row.status \notin AtomicStatuses
      /\ mode = "cascade" =>
                 \A d \in ImpactSet(rows', s) :
                    rows'[d].status \in {"needs_review"} \cup AtomicStatuses
      /\ \A e \in MrsEntities : rows'[e] = rows[e]
  BY <1>1, <1>3, <1>4, RewriteEffect
<1>6. \A d \in Present(rows) :
         \/ rows'[d].status = rows[d].status
         \/ /\ mode = "cascade"
            /\ rows'[d].status = "needs_review"
            /\ rows[d].status \notin AtomicStatuses
  BY <1>3, <1>5
<1>7. QED BY <1>1, <1>5, <1>6

LEMMA StepSetStatusEffect ==
    ASSUME Inv, NEW mode \in Modes, NEW s \in Steps, NEW status \in AllStatuses,
           StepSetStatus(s, status, mode)
    PROVE  /\ s \in Present(rows)
           /\ IsAtomicExecution(s, status, mode) \/ AdmitStep(s, mode)
           /\ LegalTransition(rows[s].status, status, LevelOf[s], FALSE)
           /\ SamePlaces(rows', rows)
           /\ \A d \in Present(rows) : rows'[d].deps = rows[d].deps
           /\ \A d \in Present(rows) : rows'[d].content = rows[d].content
           /\ \A d \in Present(rows) \ {s} :
                 \/ rows'[d].status = rows[d].status
                 \/ /\ mode = "cascade"
                    /\ rows'[d].status = "needs_review"
                    /\ rows[d].status \notin AtomicStatuses
           /\ rows'[s].status # status =>
                 /\ mode = "cascade"
                 /\ rows'[s].status = "needs_review"
                 /\ status \notin AtomicStatuses
           /\ \A e \in MrsEntities : rows'[e] = rows[e]
<1> DEFINE row == SetStatus(rows[s], status)
<1>1. /\ s \in Present(rows) /\ rows \in Tables
      /\ IsAtomicExecution(s, status, mode) \/ AdmitStep(s, mode)
      /\ LegalTransition(rows[s].status, status, LevelOf[s], FALSE)
      /\ WriteStep(s, [rows EXCEPT ![s] = row], mode)
  BY DEF StepSetStatus, Inv, TypeOK
<1>2. rows[s] \in StepRow
  BY <1>1, PresentFact
<1>3. /\ row.parent = rows[s].parent /\ row.id = rows[s].id /\ row.status = status
      /\ row.deps = rows[s].deps /\ row.content = rows[s].content
  BY <1>2, SetStatusFields
<1>4. row \in Row(s)
  BY <1>1, StatusUpdateTyped DEF LegalTransition
<1> HIDE DEF row
<1>5. /\ SamePlaces(rows', rows)
      /\ \A d \in Present(rows) : rows'[d].deps = rows[d].deps
      /\ \A d \in Present(rows) \ {s} :
                 /\ rows'[d].content = rows[d].content
                 /\ \/ rows'[d].status = rows[d].status
                    \/ /\ mode = "cascade"
                       /\ rows'[d].status = "needs_review"
                       /\ rows[d].status \notin AtomicStatuses
      /\ rows'[s].content = row.content
      /\ \/ rows'[s].status = row.status
         \/ /\ mode = "cascade"
            /\ rows'[s].status = "needs_review"
            /\ row.status \notin AtomicStatuses
      /\ \A e \in MrsEntities : rows'[e] = rows[e]
  BY <1>1, <1>3, <1>4, RewriteEffect
<1>6. QED BY <1>1, <1>3, <1>5

LEMMA ScrubbedFields ==
    ASSUME NEW t \in Tables, NEW s \in Present(t)
    PROVE  /\ Present(Scrubbed(t, s)) = Present(t)
           /\ \A d \in Present(t) :
                 /\ Placed(Scrubbed(t, s), t, d)
                 /\ Scrubbed(t, s)[d].content = t[d].content
                 /\ Scrubbed(t, s)[d].status = t[d].status
                 /\ Scrubbed(t, s)[d].deps =
                       IF d \in Siblings(t, s) THEN t[d].deps \ {<<t[s].id>>} ELSE t[d].deps
           /\ \A e \in MrsEntities : Scrubbed(t, s)[e] = t[e]
<1> DEFINE new == Scrubbed(t, s)
<1>1. new \in Tables /\ \A e \in Entities : AgreesAt(new, t, e)
  BY ScrubbedTyped
<1>2. Present(new) = Present(t)
  BY <1>1, StepsAreEntities DEF AgreesAt, Present
<1>3. DOMAIN t = Entities
  BY DEF Tables
<1>4. ASSUME NEW d \in Present(t)
      PROVE  /\ Placed(new, t, d)
             /\ new[d].content = t[d].content
             /\ new[d].status = t[d].status
             /\ new[d].deps =
                   IF d \in Siblings(t, s) THEN t[d].deps \ {<<t[s].id>>} ELSE t[d].deps
  <2>1. d \in Entities /\ t[d] \in StepRow
    BY PresentFact
  <2>2. CASE d \in Siblings(t, s)
    <3>1. new[d] = [t[d] EXCEPT !.deps = @ \ {<<t[s].id>>}]
      BY <1>3, <2>1, <2>2 DEF Scrubbed
    <3>2. QED BY <2>1, <2>2, <3>1 DEF StepRow, Placed
  <2>3. CASE d \notin Siblings(t, s)
    BY <1>3, <2>1, <2>3 DEF Scrubbed, Placed
  <2>4. QED BY <2>2, <2>3
<1>5. ASSUME NEW e \in MrsEntities PROVE new[e] = t[e]
  BY <1>1, StepsAreEntities DEF AgreesAt
<1>6. QED BY <1>2, <1>4, <1>5

LEMMA StepMoveEffect ==
    ASSUME Inv, NEW mode \in Modes, NEW s \in Steps, NEW p \in Steps, StepMove(s, p, mode)
    PROVE  /\ s \in Present(rows)
           /\ AdmitStep(s, mode)
           /\ mode = "direct" => ~FrozenAtOrBelow(rows, p) /\ ~FrozenAncestor(rows, p)
           /\ Present(rows') = Present(rows)
           /\ \A d \in Present(rows) : rows'[d].content = rows[d].content
           /\ \A d \in Present(rows) \ {s} : Placed(rows', rows, d)
           /\ \/ /\ Placed(rows', rows, s)
                 /\ \A d \in Present(rows) : rows'[d].deps = rows[d].deps
              \/ /\ p # rows[s].parent
                 /\ ValidParent(rows, LevelOf[s], p)
                 /\ rows'[s].parent = p
                 /\ IsNextFreeId(rows'[s].id, rows, p, LevelOf[s])
                 /\ rows'[s].deps = {}
                 /\ \A d \in Present(rows) \ {s} :
                       rows'[d].deps = IF d \in Siblings(rows, s)
                                       THEN rows[d].deps \ {<<rows[s].id>>} ELSE rows[d].deps
           /\ \A d \in Present(rows) :
                 \/ rows'[d].status = rows[d].status
                 \/ /\ mode = "cascade"
                    /\ rows'[d].status = "needs_review"
                    /\ rows[d].status \notin AtomicStatuses
           /\ mode = "cascade" =>
                 \A d \in ImpactSet(rows', s) :
                    rows'[d].status \in {"needs_review"} \cup AtomicStatuses
           /\ \A e \in MrsEntities : rows'[e] = rows[e]
<1>1. /\ s \in Present(rows) /\ AdmitStep(s, mode) /\ rows \in Tables
      /\ mode = "direct" => ~FrozenAtOrBelow(rows, p) /\ ~FrozenAncestor(rows, p)
  BY DEF StepMove, Inv, TypeOK
<1>2. s \in Entities /\ rows[s] \in StepRow /\ rows[s].status \in KnownStatuses(LevelOf[s])
  BY <1>1, PresentFact
<1>3. ASSUME p # rows[s].parent, ValidParent(rows, LevelOf[s], p),
             NEW id \in StepIds, IsNextFreeId(id, rows, p, LevelOf[s]),
             WriteStep(s, [Scrubbed(rows, s) EXCEPT ![s] =
                              [@ EXCEPT !.parent = p, !.id = id, !.deps = {}]], mode)
      PROVE  /\ Present(rows') = Present(rows)
             /\ \A d \in Present(rows) : rows'[d].content = rows[d].content
             /\ \A d \in Present(rows) \ {s} : Placed(rows', rows, d)
             /\ rows'[s].parent = p
             /\ IsNextFreeId(rows'[s].id, rows, p, LevelOf[s])
             /\ rows'[s].deps = {}
             /\ \A d \in Present(rows) \ {s} :
                   rows'[d].deps = IF d \in Siblings(rows, s)
                                   THEN rows[d].deps \ {<<rows[s].id>>} ELSE rows[d].deps
             /\ \A d \in Present(rows) :
                   \/ rows'[d].status = rows[d].status
                   \/ /\ mode = "cascade"
                      /\ rows'[d].status = "needs_review"
                      /\ rows[d].status \notin AtomicStatuses
             /\ mode = "cascade" =>
                   \A d \in ImpactSet(rows', s) :
                      rows'[d].status \in {"needs_review"} \cup AtomicStatuses
             /\ \A e \in MrsEntities : rows'[e] = rows[e]
  <2> DEFINE before == Scrubbed(rows, s)
             row    == [rows[s] EXCEPT !.parent = p, !.id = id, !.deps = {}]
             table  == [before EXCEPT ![s] = row]
  <2>1. /\ before \in Tables
        /\ before[s] = rows[s]
    BY <1>1, ScrubbedTyped
  <2>2. /\ Present(before) = Present(rows)
        /\ \A d \in Present(rows) :
                 /\ Placed(before, rows, d)
                 /\ before[d].content = rows[d].content
                 /\ before[d].status = rows[d].status
                 /\ before[d].deps =
                       IF d \in Siblings(rows, s) THEN rows[d].deps \ {<<rows[s].id>>}
                                                  ELSE rows[d].deps
        /\ \A e \in MrsEntities : before[e] = rows[e]
    BY <1>1, ScrubbedFields
  <2>3. /\ row \in StepRow
        /\ row.parent = p /\ row.id = id /\ row.deps = {}
        /\ row.content = rows[s].content /\ row.status = rows[s].status
    BY <1>2 DEF StepRow
  <2>4. row \in Row(s)
    BY <1>1, <1>2, <2>3 DEF Row, Present
  <2>5. WriteStep(s, table, mode)
    BY <1>3, <2>1
  <2> HIDE DEF row, before
  <2>6. /\ table \in Tables /\ table[s] = row
        /\ \A e \in Entities \ {s} : table[e] = before[e]
    BY <1>2, <2>1, <2>4, UpdateTyped
  <2> HIDE DEF table
  <2>7. Present(table) = Present(rows)
    BY <1>1, <2>2, <2>3, <2>6, AbsentAssumption, StepsAreEntities DEF Present
  <2>8. s \in Present(table)
    BY <1>1, <2>7
  <2>9. /\ Present(rows') = Present(table)
        /\ \A d \in Present(table) :
                 /\ Placed(rows', table, d)
                 /\ rows'[d].deps = table[d].deps
                 /\ rows'[d].content = table[d].content
                 /\ \/ rows'[d].status = table[d].status
                    \/ /\ mode = "cascade"
                       /\ rows'[d].status = "needs_review"
                       /\ table[d].status \notin AtomicStatuses
        /\ mode = "cascade" =>
                 \A d \in ImpactSet(rows', s) :
                    rows'[d].status \in {"needs_review"} \cup AtomicStatuses
        /\ \A e \in MrsEntities : rows'[e] = table[e]
    BY <2>5, <2>6, <2>8, WriteStepEffect
  <2>10. \A d \in Present(rows) \ {s} : table[d] = before[d]
    BY <2>6, StepsAreEntities DEF Present
  <2>11. \A e \in MrsEntities : rows'[e] = rows[e]
    BY <1>1, <2>2, <2>6, <2>9, StepsAreEntities DEF Present
  <2>12. /\ rows'[s].parent = p /\ rows'[s].id = id /\ rows'[s].deps = {}
         /\ rows'[s].content = rows[s].content
    BY <2>3, <2>6, <2>8, <2>9 DEF Placed
  <2>13. \A d \in Present(rows) \ {s} :
            /\ Placed(rows', rows, d)
            /\ rows'[d].content = rows[d].content
            /\ rows'[d].deps = IF d \in Siblings(rows, s)
                               THEN rows[d].deps \ {<<rows[s].id>>} ELSE rows[d].deps
    BY <2>2, <2>7, <2>9, <2>10 DEF Placed
  <2>14. \A d \in Present(rows) : table[d].status = rows[d].status
    BY <2>2, <2>3, <2>6, <2>10
  <2>15. QED BY <1>3, <2>7, <2>9, <2>11, <2>12, <2>13, <2>14
<1>4. \/ WriteStep(s, rows, mode)
      \/ /\ p # rows[s].parent
         /\ ValidParent(rows, LevelOf[s], p)
         /\ \E id \in StepIds :
               /\ IsNextFreeId(id, rows, p, LevelOf[s])
               /\ WriteStep(s, [Scrubbed(rows, s) EXCEPT ![s] =
                              [@ EXCEPT !.parent = p, !.id = id, !.deps = {}]], mode)
  BY DEF StepMove
<1>5. QED
  <2>1. CASE WriteStep(s, rows, mode)
    <3>1. /\ Present(rows') = Present(rows)
          /\ \A d \in Present(rows) :
                 /\ Placed(rows', rows, d)
                 /\ rows'[d].deps = rows[d].deps
                 /\ rows'[d].content = rows[d].content
                 /\ \/ rows'[d].status = rows[d].status
                    \/ /\ mode = "cascade"
                       /\ rows'[d].status = "needs_review"
                       /\ rows[d].status \notin AtomicStatuses
          /\ mode = "cascade" =>
                 \A d \in ImpactSet(rows', s) :
                    rows'[d].status \in {"needs_review"} \cup AtomicStatuses
          /\ \A e \in MrsEntities : rows'[e] = rows[e]
      BY <1>1, <2>1, WriteStepEffect
    <3>2. QED BY <1>1, <3>1
  <2>2. CASE ~WriteStep(s, rows, mode)
    BY <1>1, <1>3, <1>4, <2>2
  <2>3. QED BY <2>1, <2>2

LEMMA PersistChangesEffect ==
    ASSUME Inv, NEW mode \in Modes, NEW deps,
           DOMAIN deps \subseteq Present(rows),
           \A s \in DOMAIN deps : deps[s] \subseteq Refs,
           PersistChanges(deps, mode)
    PROVE  /\ \A s \in DOMAIN deps : AdmitStep(s, mode)
           /\ SamePlaces(rows', rows)
           /\ \A d \in Present(rows) :
                 /\ rows'[d].content = rows[d].content
                 /\ rows'[d].status = rows[d].status
                 /\ rows'[d].deps = IF d \in DOMAIN deps THEN deps[d] ELSE rows[d].deps
           /\ \A e \in MrsEntities : rows'[e] = rows[e]
<1> DEFINE after == [e \in Entities |->
                        IF e \in DOMAIN deps THEN [rows[e] EXCEPT !.deps = deps[e]] ELSE rows[e]]
<1>1. /\ rows' = after /\ rows \in Tables
      /\ \A s \in DOMAIN deps : AdmitStep(s, mode)
  BY DEF PersistChanges, Inv, TypeOK
<1>2. ASSUME NEW d \in Present(rows)
      PROVE  /\ rows'[d] \in StepRow
             /\ Placed(rows', rows, d)
             /\ rows'[d].content = rows[d].content
             /\ rows'[d].status = rows[d].status
             /\ rows'[d].deps = IF d \in DOMAIN deps THEN deps[d] ELSE rows[d].deps
  <2>1. d \in Entities /\ rows[d] \in StepRow
    BY <1>1, PresentFact
  <2>2. rows'[d] = IF d \in DOMAIN deps THEN [rows[d] EXCEPT !.deps = deps[d]] ELSE rows[d]
    BY <1>1, <2>1
  <2>3. CASE d \in DOMAIN deps
    <3>1. deps[d] \subseteq Refs /\ rows'[d] = [rows[d] EXCEPT !.deps = deps[d]]
      BY <2>2, <2>3
    <3>2. QED BY <2>1, <2>3, <3>1 DEF StepRow, Placed
  <2>4. CASE d \notin DOMAIN deps
    BY <2>1, <2>2, <2>4 DEF Placed
  <2>5. QED BY <2>3, <2>4
<1>3. ASSUME NEW e \in Entities, e \notin Present(rows) PROVE rows'[e] = rows[e]
  BY <1>1, <1>3
<1>4. Present(rows') = Present(rows)
  <2>1. \A d \in Present(rows) : rows'[d] # Absent
    BY <1>2, AbsentAssumption
  <2>2. \A d \in Steps : d \notin Present(rows) => rows'[d] = Absent
    BY <1>3, StepsAreEntities DEF Present
  <2>3. QED BY <2>1, <2>2 DEF Present
<1>5. \A e \in MrsEntities : rows'[e] = rows[e]
  BY <1>3, StepsAreEntities DEF Present
<1>6. SamePlaces(rows', rows)
  BY <1>2, <1>4 DEF SamePlaces
<1>7. QED BY <1>1, <1>2, <1>5, <1>6

\* The rows that step_delete takes.
Doomed(s, recursive) == IF recursive THEN Subtree(rows, s) ELSE {s}

LEMMA StepDeleteEffect ==
    ASSUME Inv, NEW mode \in Modes, NEW s \in Steps, NEW recursive \in BOOLEAN,
           StepDelete(s, recursive, mode)
    PROVE  /\ s \in Present(rows)
           /\ ~recursive => Children(rows, s) = {}
           /\ AdmitStep(s, mode)
           /\ Present(rows') = Present(rows) \ Doomed(s, recursive)
           /\ \A d \in Present(rows) \ Doomed(s, recursive) :
                 /\ Placed(rows', rows, d)
                 /\ rows'[d].content = rows[d].content
                 /\ rows'[d].status = rows[d].status
                 /\ rows'[d].deps = IF d \in Siblings(rows, s)
                                    THEN rows[d].deps \ {<<rows[s].id>>}
                                    ELSE rows[d].deps
           /\ \A e \in MrsEntities : rows'[e] = rows[e]
<1> DEFINE doomed == Doomed(s, recursive)
           before == Scrubbed(rows, s)
<1>1. /\ s \in Present(rows) /\ rows \in Tables
      /\ ~recursive => Children(rows, s) = {}
      /\ AdmitStep(s, mode)
      /\ rows' = Overlay(before, Deleted(doomed))
  BY DEF StepDelete, Doomed, Inv, TypeOK
<1>2. doomed \subseteq Steps
  BY <1>1 DEF Doomed, Subtree, ImpactSet, Children, Present
<1>3. before \in Tables
  BY <1>1, ScrubbedTyped
<1>4. /\ Present(before) = Present(rows)
      /\ \A d \in Present(rows) :
                 /\ Placed(before, rows, d)
                 /\ before[d].content = rows[d].content
                 /\ before[d].status = rows[d].status
                 /\ before[d].deps =
                       IF d \in Siblings(rows, s) THEN rows[d].deps \ {<<rows[s].id>>}
                                                  ELSE rows[d].deps
      /\ \A e \in MrsEntities : before[e] = rows[e]
  BY <1>1, ScrubbedFields
<1> HIDE DEF doomed, before
<1>5. IsChange(Deleted(doomed)) /\ DOMAIN Deleted(doomed) = doomed
  BY <1>2, DeletedIsChange, StepsAreEntities
<1>6. \A e \in Entities : rows'[e] = IF e \in doomed THEN Deleted(doomed)[e] ELSE before[e]
  BY <1>1, <1>3, <1>5, OverlayTyped
<1>7. \A e \in Entities : rows'[e] = IF e \in doomed THEN Absent ELSE before[e]
  BY <1>6 DEF Deleted
<1>8. Present(rows') = Present(rows) \ doomed
  BY <1>4, <1>7, StepsAreEntities DEF Present
<1>9. \A d \in Present(rows) \ doomed : rows'[d] = before[d]
  BY <1>7, StepsAreEntities DEF Present
<1>10. \A e \in MrsEntities : rows'[e] = rows[e]
  BY <1>2, <1>4, <1>7, StepsAreEntities
<1>11. \A d \in Present(rows) \ doomed :
          /\ Placed(rows', rows, d)
          /\ rows'[d].content = rows[d].content
          /\ rows'[d].status = rows[d].status
          /\ rows'[d].deps = IF d \in Siblings(rows, s)
                             THEN rows[d].deps \ {<<rows[s].id>>} ELSE rows[d].deps
  BY <1>4, <1>9 DEF Placed
<1>12. QED BY <1>1, <1>8, <1>10, <1>11 DEF doomed

LEMMA StepTransitionEffect ==
    ASSUME Inv, NEW mode \in Modes, NEW scope, scope \subseteq Present(rows),
           NEW to \in TransitionTargets, StepTransition(scope, to, mode)
    PROVE  /\ SamePlaces(rows', rows)
           /\ mode = "cascade" => IsOpen
           /\ \A d \in Present(rows) :
                 /\ rows'[d].content = rows[d].content
                 /\ rows'[d].deps = rows[d].deps
                 /\ \/ rows'[d].status = rows[d].status
                    \/ /\ rows'[d].status = to
                       /\ TransitionAllowed(rows[d].status, to, LevelOf[d])
                       /\ rows[d].status = "frozen" /\ to # "frozen" => mode = "cascade"
           /\ \A e \in MrsEntities : rows'[e] = rows[e]
<1> DEFINE moving == {s \in scope : rows[s].status # to}
           after  == [e \in Entities |-> IF e \in moving THEN SetStatus(rows[e], to) ELSE rows[e]]
<1>1. /\ rows' = after /\ rows \in Tables
      /\ \A s \in moving : TransitionAllowed(rows[s].status, to, LevelOf[s])
      /\ to # "frozen" /\ moving \cap FrozenSteps(rows) # {} => mode = "cascade"
      /\ mode = "cascade" => IsOpen
  BY DEF StepTransition, Inv, TypeOK
<1>2. moving \subseteq Present(rows)
  OBVIOUS
<1> HIDE DEF moving
<1>3. ASSUME NEW d \in Present(rows)
      PROVE  /\ rows'[d] # Absent
             /\ Placed(rows', rows, d)
             /\ rows'[d].content = rows[d].content
             /\ rows'[d].deps = rows[d].deps
             /\ rows'[d].status = IF d \in moving THEN to ELSE rows[d].status
  <2>1. d \in Entities /\ rows[d] \in StepRow /\ rows[d] # Absent
    BY <1>1, PresentFact
  <2>2. CASE d \in moving
    <3>1. rows'[d] = SetStatus(rows[d], to)
      BY <1>1, <2>1, <2>2
    <3>2. SetStatus(rows[d], to) \in StepRow
      BY <2>1 DEF SetStatus, StepRow, TransitionTargets, AllStatuses, Statuses
    <3>3. rows'[d] # Absent
      BY <3>1, <3>2, AbsentAssumption
    <3>4. QED BY <2>1, <2>2, <3>1, <3>3, SetStatusFields DEF Placed
  <2>3. CASE d \notin moving
    BY <1>1, <2>1, <2>3 DEF Placed
  <2>4. QED BY <2>2, <2>3
<1>4. \A e \in Entities : e \notin Present(rows) => rows'[e] = rows[e]
  BY <1>1, <1>2
<1>5. Present(rows') = Present(rows)
  BY <1>3, <1>4, StepsAreEntities DEF Present
<1>6. \A e \in MrsEntities : rows'[e] = rows[e]
  BY <1>4, StepsAreEntities DEF Present
<1>7. SamePlaces(rows', rows)
  BY <1>3, <1>5 DEF SamePlaces
<1>8. ASSUME NEW d \in Present(rows)
      PROVE  \/ rows'[d].status = rows[d].status
             \/ /\ rows'[d].status = to
                /\ TransitionAllowed(rows[d].status, to, LevelOf[d])
                /\ rows[d].status = "frozen" /\ to # "frozen" => mode = "cascade"
  <2>1. CASE d \in moving
    <3>1. rows[d].status = "frozen" => d \in FrozenSteps(rows)
      BY DEF FrozenSteps, WithStatus
    <3>2. QED BY <1>1, <1>3, <2>1, <3>1
  <2>2. CASE d \notin moving
    BY <1>3, <2>2
  <2>3. QED BY <2>1, <2>2
<1>9. QED BY <1>1, <1>3, <1>6, <1>7, <1>8

LEMMA MrsWriteEffect ==
    ASSUME Inv, NEW e \in MrsEntities, NEW new \in Contents \cup {Absent}, MrsWrite(e, new)
    PROVE  /\ IsOpen
           /\ SamePlaces(rows', rows)
           /\ \A d \in Present(rows) :
                 /\ rows'[d].content = rows[d].content
                 /\ rows'[d].deps = rows[d].deps
                 /\ \/ rows'[d].status = rows[d].status
                    \/ rows'[d].status = "needs_review" /\ rows[d].status \notin AtomicStatuses
<1> DEFINE hit   == MrsInvalidation(rows)
           table == Invalidated(rows, hit)
<1>1. IsOpen /\ rows \in Tables /\ rows' = [table EXCEPT ![e] = new]
  BY DEF MrsWrite, Inv, TypeOK
<1>2. hit \subseteq Present(rows)
  BY DEF MrsInvalidation, GlobalSteps
<1>3. /\ table \in Tables
      /\ \A d \in Entities :
            table[d] = IF d \in hit THEN SetStatus(rows[d], "needs_review") ELSE rows[d]
  BY <1>1, <1>2, InvalidatedTyped
<1>4. Present(table) = Present(rows)
  BY <1>1, <1>2, InvalidatedPresent
<1>5. \A d \in hit : LevelOf[d] = GlobalLevel
  BY DEF MrsInvalidation, GlobalSteps
<1> HIDE DEF hit, table
<1>6. \A d \in Steps : rows'[d] = table[d]
  BY <1>1, <1>3, StepsAreEntities DEF Tables
<1>7. Present(rows') = Present(rows)
  BY <1>4, <1>6 DEF Present
<1>8. ASSUME NEW d \in Present(rows)
      PROVE  /\ Placed(rows', rows, d)
             /\ rows'[d].content = rows[d].content
             /\ rows'[d].deps = rows[d].deps
             /\ \/ rows'[d].status = rows[d].status
                \/ rows'[d].status = "needs_review" /\ rows[d].status \notin AtomicStatuses
  <2>1. /\ d \in Entities /\ d \in Steps /\ rows[d] \in StepRow
    BY <1>1, PresentFact
  <2>2. CASE d \in hit
    <3>1. rows'[d] = SetStatus(rows[d], "needs_review")
      BY <1>3, <1>6, <2>1, <2>2
    <3>2. LevelOf[d] # AtomicLevel
      BY <1>5, <2>2 DEF GlobalLevel, AtomicLevel
    <3>3. rows[d].status \notin AtomicStatuses
      BY <1>1, <3>2, RunningIsAtomic
    <3>4. QED BY <2>1, <3>1, <3>3, SetStatusFields DEF Placed
  <2>3. CASE d \notin hit
    BY <1>3, <1>6, <2>1, <2>3 DEF Placed
  <2>4. QED BY <2>2, <2>3
<1>9. SamePlaces(rows', rows)
  BY <1>7, <1>8 DEF SamePlaces
<1>10. QED BY <1>1, <1>8, <1>9

\* The commands on dependencies.
EditsDeps(mode) ==
    \E deps : /\ DOMAIN deps \subseteq Present(rows) /\ DOMAIN deps # {}
              /\ \A s \in DOMAIN deps : deps[s] \subseteq Refs
              /\ PersistChanges(deps, mode)
              /\ OrderAdmits(rows, rows') \/ \A s \in DOMAIN deps : deps[s] \subseteq rows[s].deps

LEMMA DependencyCommandEdits ==
    ASSUME Inv, NEW mode \in Modes, DependencyCommand(mode)
    PROVE  EditsDeps(mode)
<1>1. ASSUME NEW edges \in SUBSET PossibleEdges, StepDependencies(edges, mode)
      PROVE  EditsDeps(mode)
  <2> DEFINE refs(s) == {e[2] : e \in {x \in edges : x[1] = s}}
             targets == {s \in Present(rows) : refs(s) # rows[s].deps}
             deps    == [s \in targets |-> refs(s)]
  <2>1. targets # {} /\ PersistChanges(deps, mode) /\ OrderAdmits(rows, rows')
    BY <1>1 DEF StepDependencies
  <2>2. \A e \in edges : e[2] \in Refs
    BY PossibleEdgesTyped
  <2>3. \A s \in targets : deps[s] \subseteq Refs
    BY <2>2
  <2>4. DOMAIN deps = targets /\ targets \subseteq Present(rows)
    OBVIOUS
  <2> HIDE DEF deps, targets
  <2>5. QED BY <2>1, <2>3, <2>4 DEF EditsDeps
<1>2. ASSUME NEW s \in Present(rows), NEW refs, StepDependencyRemove(s, refs, mode)
      PROVE  EditsDeps(mode)
  <2> DEFINE deps == [t \in {s} |-> rows[s].deps \ refs]
  <2>1. PersistChanges(deps, mode)
    BY <1>2 DEF StepDependencyRemove
  <2>2. DOMAIN deps = {s}
    OBVIOUS
  <2>3. rows[s] \in StepRow
    BY PresentFact DEF Inv, TypeOK
  <2>4. \A t \in DOMAIN deps : deps[t] \subseteq Refs /\ deps[t] \subseteq rows[t].deps
    BY <2>3 DEF StepRow
  <2> HIDE DEF deps
  <2>5. QED BY <2>1, <2>2, <2>4 DEF EditsDeps
<1>3. QED BY <1>1, <1>2 DEF DependencyCommand, Edits

LEMMA EditsDepsEffect ==
    ASSUME Inv, NEW mode \in Modes, EditsDeps(mode)
    PROVE  /\ SamePlaces(rows', rows)
           /\ \A d \in Present(rows) :
                 /\ rows'[d].content = rows[d].content
                 /\ rows'[d].status = rows[d].status
                 /\ rows'[d].deps = rows[d].deps \/ AdmitStep(d, mode)
           /\ \A e \in MrsEntities : rows'[e] = rows[e]
<1>1. PICK deps : /\ DOMAIN deps \subseteq Present(rows)
                  /\ \A s \in DOMAIN deps : deps[s] \subseteq Refs
                  /\ PersistChanges(deps, mode)
  BY DEF EditsDeps
<1>2. QED BY <1>1, PersistChangesEffect

LEMMA EditsDepsWrites ==
    ASSUME Inv, NEW mode \in Modes, EditsDeps(mode)
    PROVE  Writes(mode)
BY PersistChangesWrites DEF EditsDeps

\* The commands, one by one.
LEMMA NextIsCommand ==
    ASSUME Inv, Next
    PROVE  \/ \E mode \in Modes, s \in Steps, p \in Steps \cup {NoParent}, c \in Contents :
                 StepCreate(s, p, c, mode)
           \/ \E mode \in Modes, s \in Steps, c \in Contents : StepUpdate(s, c, mode)
           \/ \E mode \in Modes, s \in Steps, status \in AllStatuses :
                 StepSetStatus(s, status, mode)
           \/ \E mode \in Modes, s \in Steps, p \in Steps : StepMove(s, p, mode)
           \/ \E mode \in Modes, s \in Steps, recursive \in BOOLEAN :
                 StepDelete(s, recursive, mode)
           \/ \E mode \in Modes : EditsDeps(mode)
           \/ \E mode \in Modes, scope \in SUBSET Present(rows), to \in TransitionTargets :
                 StepTransition(scope, to, mode)
           \/ \E e \in MrsEntities, new \in Contents \cup {Absent} : MrsWrite(e, new)
           \/ \E c \in CascadeIds : CascadeBegin(c) \/ PlanUnfreeze(c) \/ CascadeCommit(c)
           \/ \E c \in CascadeIds : CascadeAbort(c)
           \/ \E flag \in BOOLEAN : PlanCompletedSet(flag)
<1>1. ASSUME NEW mode \in Modes, StepCommand(mode)
      PROVE  \/ \E s \in Steps, p \in Steps \cup {NoParent}, c \in Contents :
                   StepCreate(s, p, c, mode)
             \/ \E s \in Steps, c \in Contents : StepUpdate(s, c, mode)
             \/ \E s \in Steps, status \in AllStatuses : StepSetStatus(s, status, mode)
             \/ \E s \in Steps, p \in Steps : StepMove(s, p, mode)
             \/ \E s \in Steps, recursive \in BOOLEAN : StepDelete(s, recursive, mode)
  BY <1>1 DEF StepCommand
<1>2. ASSUME NEW mode \in Modes, DependencyCommand(mode) PROVE EditsDeps(mode)
  BY <1>2, DependencyCommandEdits
<1>3. ASSUME NEW mode \in Modes, TransitionCommand(mode)
      PROVE  \E scope \in SUBSET Present(rows), to \in TransitionTargets :
                StepTransition(scope, to, mode)
  <2>1. PICK scope \in TransitionScopes, to \in TransitionTargets :
           StepTransition(scope, to, mode)
    BY <1>3 DEF TransitionCommand
  <2>2. scope \in SUBSET Present(rows)
    BY DEF TransitionScopes, Subtree, ImpactSet, Children
  <2>3. QED BY <2>1, <2>2
<1>4. QED BY <1>1, <1>2, <1>3 DEF Next, CascadeCommand

----------------------------------------------------------------------------
(* The tree stays well formed                                              *)

\* Deleted and moved rows apart, what is well formed stays so: these lemmas
\* take the commands one by one.  No mode is assumed: neither admission nor
\* cascades have a part in it.
LEMMA SamePlacesKeepTree ==
    ASSUME NEW t, NEW u, SamePlaces(t, u)
    PROVE  /\ LevelsFit(u) => LevelsFit(t)
           /\ ParentsThere(u) => ParentsThere(t)
           /\ IdsUnique(u) => IdsUnique(t)
<1>1. Present(t) = Present(u) /\ \A s \in Present(u) : Placed(t, u, s)
  BY DEF SamePlaces
<1>2. \A s \in Present(u) : Siblings(t, s) = Siblings(u, s)
  BY <1>1 DEF Siblings, Scope, Children, Placed
<1>3. \A s \in Present(u) : Siblings(u, s) \subseteq Present(u)
  BY DEF Siblings, Scope, Children
<1>4. LevelsFit(u) => LevelsFit(t)
  BY <1>1 DEF LevelsFit, Placed
<1>5. ParentsThere(u) => ParentsThere(t)
  BY <1>1 DEF ParentsThere, Placed
<1>6. IdsUnique(u) => IdsUnique(t)
  BY <1>1, <1>2, <1>3 DEF IdsUnique, Placed
<1>7. QED BY <1>4, <1>5, <1>6

\* A free identifier is in nobody's use.
LEMMA NextFreeIdIsFree ==
    ASSUME NEW t \in Tables, NEW id, NEW p, NEW level, IsNextFreeId(id, t, p, level),
           NEW d \in Present(t), t[d].parent = p, LevelOf[d] = level
    PROVE  t[d].id # id
<1>1. t[d].id \in ScopeIds(t, p, level)
  BY DEF ScopeIds, Scope, Children
<1>2. t[d].id < id
  BY <1>1 DEF IsNextFreeId
<1>3. t[d].id \in Nat
  BY PresentFact, MaxStepIdAssumption DEF StepRow, StepIds
<1>4. QED BY <1>2, <1>3

LEMMA StepCreateKeepsTree ==
    ASSUME Inv, NEW mode \in Modes, NEW s \in Steps, NEW p \in Steps \cup {NoParent},
           NEW content \in Contents, StepCreate(s, p, content, mode)
    PROVE  /\ LevelsFit(rows) => LevelsFit(rows')
           /\ ParentsThere(rows) => ParentsThere(rows')
           /\ IdsUnique(rows) => IdsUnique(rows')
<1>1. /\ s \notin Present(rows)
      /\ ValidParent(rows, LevelOf[s], p)
      /\ Present(rows') = Present(rows) \cup {s}
      /\ \A d \in Entities \ {s} : rows'[d] = rows[d]
      /\ rows'[s].parent = p
      /\ IsNextFreeId(rows'[s].id, rows, p, LevelOf[s])
  BY StepCreateEffect
<1>2. \A d \in Present(rows) : rows'[d] = rows[d]
  BY <1>1, StepsAreEntities DEF Present
<1>3. LevelsFit(rows) => LevelsFit(rows')
  BY <1>1, <1>2 DEF LevelsFit, ValidParent
<1>4. ParentsThere(rows) => ParentsThere(rows')
  BY <1>1, <1>2 DEF ParentsThere, ValidParent
<1>5. ASSUME IdsUnique(rows), NEW a \in Present(rows'), NEW b \in Siblings(rows', a)
      PROVE  rows'[b].id # rows'[a].id
  <2>1. /\ b \in Present(rows') /\ b # a
        /\ rows'[b].parent = rows'[a].parent /\ LevelOf[b] = LevelOf[a]
    BY DEF Siblings, Scope, Children
  <2>2. rows \in Tables
    BY DEF Inv, TypeOK
  <2>3. CASE a = s
    <3>1. b \in Present(rows) /\ rows[b].parent = p /\ LevelOf[b] = LevelOf[s]
      BY <1>1, <1>2, <2>1, <2>3
    <3>2. QED BY <1>1, <1>2, <2>2, <2>3, <3>1, NextFreeIdIsFree
  <2>4. CASE b = s
    <3>1. a \in Present(rows) /\ rows[a].parent = p /\ LevelOf[a] = LevelOf[s]
      BY <1>1, <1>2, <2>1, <2>4
    <3>2. QED BY <1>1, <1>2, <2>2, <2>4, <3>1, NextFreeIdIsFree
  <2>5. CASE a # s /\ b # s
    <3>1. a \in Present(rows) /\ b \in Siblings(rows, a)
      BY <1>1, <1>2, <2>1, <2>5 DEF Siblings, Scope, Children
    <3>2. QED BY <1>1, <1>2, <1>5, <2>1, <2>5, <3>1 DEF IdsUnique
  <2>6. QED BY <2>3, <2>4, <2>5
<1>6. QED BY <1>3, <1>4, <1>5 DEF IdsUnique

LEMMA StepMoveKeepsTree ==
    ASSUME Inv, NEW mode \in Modes, NEW s \in Steps, NEW p \in Steps, StepMove(s, p, mode)
    PROVE  /\ LevelsFit(rows) => LevelsFit(rows')
           /\ ParentsThere(rows) => ParentsThere(rows')
           /\ IdsUnique(rows) => IdsUnique(rows')
<1>1. /\ s \in Present(rows)
      /\ Present(rows') = Present(rows)
      /\ \A d \in Present(rows) \ {s} : Placed(rows', rows, d)
      /\ \/ Placed(rows', rows, s)
         \/ /\ p # rows[s].parent
            /\ ValidParent(rows, LevelOf[s], p)
            /\ rows'[s].parent = p
            /\ IsNextFreeId(rows'[s].id, rows, p, LevelOf[s])
  BY StepMoveEffect
<1>2. CASE Placed(rows', rows, s)
  <2>1. SamePlaces(rows', rows)
    BY <1>1, <1>2 DEF SamePlaces
  <2>2. QED BY <2>1, SamePlacesKeepTree
<1>3. CASE /\ p # rows[s].parent
           /\ ValidParent(rows, LevelOf[s], p)
           /\ rows'[s].parent = p
           /\ IsNextFreeId(rows'[s].id, rows, p, LevelOf[s])
  <2>1. LevelsFit(rows) => LevelsFit(rows')
    BY <1>1, <1>3 DEF LevelsFit, ValidParent, Placed
  <2>2. ParentsThere(rows) => ParentsThere(rows')
    BY <1>1, <1>3 DEF ParentsThere, ValidParent, Placed
  <2>3. ASSUME IdsUnique(rows), NEW a \in Present(rows'), NEW b \in Siblings(rows', a)
        PROVE  rows'[b].id # rows'[a].id
    <3>1. /\ b \in Present(rows') /\ b # a
          /\ rows'[b].parent = rows'[a].parent /\ LevelOf[b] = LevelOf[a]
      BY DEF Siblings, Scope, Children
    <3>2. rows \in Tables
      BY DEF Inv, TypeOK
    <3>3. CASE a = s
      <4>1. b \in Present(rows) /\ rows[b].parent = p /\ LevelOf[b] = LevelOf[s]
        BY <1>1, <1>3, <3>1, <3>3 DEF Placed
      <4>2. rows[b].id # rows'[s].id
        BY <1>3, <3>2, <4>1, NextFreeIdIsFree
      <4>3. QED BY <1>1, <3>1, <3>3, <4>2 DEF Placed
    <3>4. CASE b = s
      <4>1. a \in Present(rows) /\ rows[a].parent = p /\ LevelOf[a] = LevelOf[s]
        BY <1>1, <1>3, <3>1, <3>4 DEF Placed
      <4>2. rows[a].id # rows'[s].id
        BY <1>3, <3>2, <4>1, NextFreeIdIsFree
      <4>3. QED BY <1>1, <3>1, <3>4, <4>2 DEF Placed
    <3>5. CASE a # s /\ b # s
      <4>1. a \in Present(rows) /\ b \in Siblings(rows, a)
        BY <1>1, <3>1, <3>5 DEF Siblings, Scope, Children, Placed
      <4>2. QED BY <1>1, <2>3, <3>1, <3>5, <4>1 DEF IdsUnique, Placed
    <3>6. QED BY <3>3, <3>4, <3>5
  <2>4. QED BY <2>1, <2>2, <2>3 DEF IdsUnique
<1>4. QED BY <1>1, <1>2, <1>3

\* Three levels, so the subtree that delete_step collects is all there is
\* under the step.
LEMMA NothingBelowSubtree ==
    ASSUME NEW t, LevelsFit(t), NEW s \in Present(t),
           NEW q \in Subtree(t, s), NEW d \in Present(t), t[d].parent = q
    PROVE  d \in Subtree(t, s)
<1>1. \A a \in Steps : LevelOf[a] \in Levels /\ a # NoParent
  BY LevelOfAssumption, StepsAssumption
<1>2. CASE q = s
  BY <1>2 DEF Subtree, ImpactSet, Children
<1>3. CASE q \in Children(t, s)
  BY <1>3 DEF Subtree, ImpactSet, Children
<1>4. ASSUME NEW c \in Children(t, s), q \in Children(t, c) PROVE FALSE
  <2>1. /\ c \in Present(t) /\ t[c].parent = s /\ q \in Present(t) /\ t[q].parent = c
        /\ c \in Steps /\ s \in Steps /\ q \in Steps /\ d \in Steps
    BY <1>4 DEF Children, Present
  <2>2. /\ LevelOf[s] = LevelOf[c] - 1
        /\ LevelOf[c] = LevelOf[q] - 1
        /\ LevelOf[q] = LevelOf[d] - 1
    BY <1>1, <2>1 DEF LevelsFit
  <2>3. /\ LevelOf[s] \in {3, 4, 5} /\ LevelOf[c] \in {3, 4, 5}
        /\ LevelOf[q] \in {3, 4, 5} /\ LevelOf[d] \in {3, 4, 5}
    BY <1>1, <2>1 DEF Levels, GlobalLevel, TacticalLevel, AtomicLevel
  <2>4. QED BY <2>2, <2>3
<1>5. QED BY <1>2, <1>3, <1>4 DEF Subtree, ImpactSet

LEMMA StepDeleteKeepsTree ==
    ASSUME Inv, NEW mode \in Modes, NEW s \in Steps, NEW recursive \in BOOLEAN,
           StepDelete(s, recursive, mode)
    PROVE  /\ LevelsFit(rows) => LevelsFit(rows')
           /\ LevelsFit(rows) /\ ParentsThere(rows) => ParentsThere(rows')
           /\ IdsUnique(rows) => IdsUnique(rows')
<1> DEFINE doomed == Doomed(s, recursive)
<1>1. /\ s \in Present(rows)
      /\ ~recursive => Children(rows, s) = {}
      /\ Present(rows') = Present(rows) \ doomed
      /\ \A d \in Present(rows) \ doomed : Placed(rows', rows, d)
  BY StepDeleteEffect
<1>2. LevelsFit(rows) => LevelsFit(rows')
  BY <1>1 DEF LevelsFit, Placed
<1>3. ASSUME LevelsFit(rows), ParentsThere(rows), NEW d \in Present(rows')
      PROVE  rows'[d].parent \in Present(rows') \cup {NoParent}
  <2>1. d \in Present(rows) /\ d \notin doomed /\ rows'[d].parent = rows[d].parent
    BY <1>1 DEF Placed
  <2>2. rows[d].parent \in Present(rows) \cup {NoParent}
    BY <1>3, <2>1 DEF ParentsThere
  <2>3. rows[d].parent \notin doomed
    <3>1. CASE recursive
      BY <1>1, <1>3, <2>1, <3>1, NothingBelowSubtree DEF Doomed
    <3>2. CASE ~recursive
      BY <1>1, <2>1, <3>2 DEF Children, Doomed
    <3>3. QED BY <3>1, <3>2
  <2>4. QED BY <1>1, <2>1, <2>2, <2>3
<1>4. ASSUME IdsUnique(rows), NEW a \in Present(rows'), NEW b \in Siblings(rows', a)
      PROVE  rows'[b].id # rows'[a].id
  <2>1. a \in Present(rows) \ doomed /\ b \in Present(rows) \ doomed
    BY <1>1 DEF Siblings, Scope, Children
  <2>2. b \in Siblings(rows, a)
    BY <1>1, <2>1 DEF Siblings, Scope, Children, Placed
  <2>3. QED BY <1>1, <1>4, <2>1, <2>2 DEF IdsUnique, Placed
<1>5. QED BY <1>2, <1>3, <1>4 DEF ParentsThere, IdsUnique

\* The inductive invariant: what a revision has recorded fits its levels, and
\* what an abort would give back is a tree.
TreeInv ==
    /\ LevelsFit(rows)
    /\ IdsUnique(rows)
    /\ \A r \in Revisions : LevelsFit(StateAt(revs, r))
    /\ ~bypassed => /\ ParentsThere(rows)
                    /\ \A c \in OpenCascades : ParentsThere(StateAt(revs, cascades[c].base))

\* Agreeing tables are trees together.
LEMMA AgreesKeepsParents ==
    ASSUME NEW t \in Tables, NEW u \in Tables, \A e \in Entities : AgreesAt(t, u, e)
    PROVE  ParentsThere(t) <=> ParentsThere(u)
<1>1. Present(t) = Present(u)
  BY StepsAreEntities DEF Present, AgreesAt
<1>2. \A s \in Present(u) : t[s].parent = u[s].parent
  BY <1>1, StepsAreEntities DEF Present, AgreesAt
<1>3. QED BY <1>1, <1>2 DEF ParentsThere

\* What a command writes fits the levels in the new revision, because it fits
\* them in the rows, and in the old revisions.
LEMMA WritesKeepTreeInv ==
    ASSUME Inv, TreeInv, NEW mode \in Modes, Writes(mode),
           LevelsFit(rows'), IdsUnique(rows'), ~bypassed => ParentsThere(rows')
    PROVE  TreeInv'
<1>1. PICK changes :
        /\ IsChange(changes)
        /\ Record(mode, changes)
        /\ rows' \in Tables
        /\ \A e \in DOMAIN changes : rows'[e] = changes[e]
        /\ mode = "cascade" => IsOpen
        /\ bypassed => bypassed'
  BY DEF Writes
<1>2. /\ TypeOK /\ ChainsSound(revs) /\ RefsExist
      /\ head \in 0..Len(revs)
  BY DEF Inv, TypeOK, StoreInv, Revisions, NoRevision
<1>3. /\ OpenCascades' = OpenCascades
      /\ \A c \in CascadeIds : cascades'[c].base = cascades[c].base
      /\ Len(revs') = Len(revs) + 1
      /\ \A r \in 0..Len(revs) : StateAt(revs', r) = StateAt(revs, r)
  BY WritesFrame
<1>4. PICK parent \in 0..Len(revs) : revs' = RecordRevision(revs, parent, changes)
  <2>1. CASE mode = "cascade"
    <3>1. OpenCascade \in OpenCascades
      BY <1>1, <2>1 DEF IsOpen, OpenCascade
    <3>2. cascades[OpenCascade].ref \in 0..Len(revs)
      BY <1>2, <3>1 DEF RefsExist, Revisions
    <3>3. QED BY <1>1, <2>1, <3>2 DEF Record
  <2>2. CASE mode # "cascade"
    BY <1>1, <1>2, <2>2 DEF Record
  <2>3. QED BY <2>1, <2>2
<1>5. \A e \in Entities :
         StateAt(revs', Len(revs) + 1)[e] =
            IF e \in DOMAIN changes THEN changes[e] ELSE StateAt(revs, parent)[e]
  BY <1>1, <1>2, <1>4, StateAtNewRevision
<1>6. LevelsFit(StateAt(revs, parent))
  <2>1. CASE parent = NoRevision
    BY <2>1, StepsAreEntities DEF LevelsFit, Present, StateAt, EmptyState
  <2>2. CASE parent # NoRevision
    BY <2>2 DEF TreeInv, Revisions, NoRevision
  <2>3. QED BY <2>1, <2>2
<1>7. LevelsFit(StateAt(revs', Len(revs) + 1))
  <2> DEFINE new == StateAt(revs', Len(revs) + 1)
             old == StateAt(revs, parent)
  <2>1. \A d \in Steps : new[d] = rows'[d] \/ new[d] = old[d]
    BY <1>1, <1>5, StepsAreEntities
  <2> HIDE DEF new, old
  <2>2. LevelsFit(old)
    BY <1>6 DEF old
  <2>3. QED
    <3>1. LevelsFit(new)
      BY <2>1, <2>2 DEF LevelsFit, Present
    <3>2. QED BY <3>1 DEF new
<1>8. \A r \in Revisions' : LevelsFit(StateAt(revs', r))
  <2> SUFFICES ASSUME NEW r \in Revisions' PROVE LevelsFit(StateAt(revs', r))
    OBVIOUS
  <2>1. CASE r \in Revisions
    BY <1>3, <2>1 DEF TreeInv, Revisions
  <2>2. CASE r \notin Revisions
    <3>1. Len(revs) \in Nat
      BY <1>2 DEF TypeOK
    <3>2. r = Len(revs) + 1
      BY <1>3, <2>2, <3>1 DEF Revisions
    <3>3. QED BY <1>7, <3>2
  <2>3. QED BY <2>1, <2>2
<1>9. ASSUME ~bypassed', NEW c \in OpenCascades'
      PROVE  ParentsThere(StateAt(revs', cascades'[c].base))
  <2>1. c \in OpenCascades /\ cascades[c].base \in 0..Len(revs) /\ ~bypassed
    BY <1>1, <1>2, <1>3, <1>9 DEF RefsExist, Revisions
  <2>2. StateAt(revs', cascades'[c].base) = StateAt(revs, cascades[c].base)
    BY <1>3, <2>1 DEF OpenCascades
  <2>3. QED BY <2>1, <2>2 DEF TreeInv
<1>10. ~bypassed' => ParentsThere(rows')
  BY <1>1
<1>11. QED BY <1>8, <1>9, <1>10 DEF TreeInv

LEMMA RestoredFact ==
    ASSUME NEW store, NEW t, NEW base, NEW tip, NEW e \in Entities
    PROVE  Restored(store, t, base, tip)[e] =
              IF e \in Changed(store, base, tip) \cup Removed(store, base, tip)
              THEN StateAt(store, base)[e]
              ELSE IF e \in Added(store, base, tip) THEN Absent ELSE t[e]
BY DEF Restored

\* No two rows that an abort leaves collide: of two restored ones the later
\* has met the earlier, and a row left alone was in place all along.
LEMMA AbortKeepsIds ==
    ASSUME Inv, IdsUnique(rows), NEW c \in CascadeIds, CascadeAbort(c)
    PROVE  IdsUnique(rows')
<1> DEFINE base    == cascades[c].base
           tip     == cascades[c].ref
           old     == StateAt(revs, base)
           changed == Changed(revs, base, tip) \cap Steps
           removed == Removed(revs, base, tip) \cap Steps
           before(t, s) == \/ t \in changed /\ s \in removed
                           \/ t \in changed /\ s \in changed /\ t < s
                           \/ t \in removed /\ s \in removed /\ t < s
           seen(t, s) == IF before(t, s) THEN old[t] ELSE rows[t]
<1>1. rows' = Restored(revs, rows, base, tip)
  BY DEF CascadeAbort
<1>2. \A s \in changed \cup removed : \A t \in Steps \ {s} :
         ~(/\ seen(t, s) # Absent
           /\ LevelOf[t] = LevelOf[s]
           /\ seen(t, s).parent = old[s].parent
           /\ seen(t, s).id = old[s].id)
  BY DEF CascadeAbort, RestoreCollides
<1>3. \A s \in changed \cup removed : rows'[s] = old[s]
  BY <1>1, RestoredFact, StepsAreEntities
<1>4. \A s \in Present(rows') : s \notin changed \cup removed => rows'[s] = rows[s]
  BY <1>1, RestoredFact, StepsAreEntities DEF Present
<1>5. changed \cap removed = {}
  BY DEF Changed, Removed, Added
<1>6. changed \cup removed \subseteq Steps
  OBVIOUS
<1> HIDE DEF changed, removed, old
<1>7. ASSUME NEW s \in Present(rows'), NEW t \in Present(rows'), s # t,
             rows'[t].parent = rows'[s].parent, LevelOf[t] = LevelOf[s],
             s \in changed \cup removed, before(t, s) \/ t \notin changed \cup removed
      PROVE  rows'[t].id # rows'[s].id
  <2>1. s \in Steps /\ t \in Steps /\ rows'[t] # Absent
    BY DEF Present
  <2>2. seen(t, s) = rows'[t]
    BY <1>3, <1>4, <1>7
  <2>3. QED BY <1>2, <1>3, <1>7, <2>1, <2>2
<1>8. ASSUME NEW s \in Present(rows'), NEW t \in Siblings(rows', s)
      PROVE  rows'[t].id # rows'[s].id
  <2>1. /\ t \in Present(rows') /\ s # t
        /\ rows'[t].parent = rows'[s].parent /\ LevelOf[t] = LevelOf[s]
    BY DEF Siblings, Scope, Children
  <2>2. s \in Nat /\ t \in Nat
    BY <2>1, StepsAssumption DEF Present
  <2>3. CASE s \notin changed \cup removed /\ t \notin changed \cup removed
    <3>1. rows'[s] = rows[s] /\ rows'[t] = rows[t]
      BY <1>4, <2>1, <2>3
    <3>2. s \in Present(rows) /\ t \in Siblings(rows, s)
      BY <2>1, <3>1 DEF Siblings, Scope, Children, Present
    <3>3. QED BY <3>1, <3>2 DEF IdsUnique
  <2>4. CASE s \in changed \cup removed /\ t \notin changed \cup removed
    BY <1>7, <2>1, <2>4
  <2>5. CASE s \notin changed \cup removed /\ t \in changed \cup removed
    BY <1>7, <2>1, <2>5
  <2>6. CASE s \in changed \cup removed /\ t \in changed \cup removed
    <3>1. before(t, s) \/ before(s, t)
      BY <2>1, <2>2, <2>6
    <3>2. QED BY <1>7, <2>1, <2>6, <3>1
  <2>7. QED BY <2>3, <2>4, <2>5, <2>6
<1>9. QED BY <1>8 DEF IdsUnique

LEMMA AbortKeepsTreeInv ==
    ASSUME Inv, TreeInv, NEW c \in CascadeIds, CascadeAbort(c)
    PROVE  TreeInv'
<1> DEFINE base == cascades[c].base
           tip  == cascades[c].ref
<1>1. /\ rows' = Restored(revs, rows, base, tip)
      /\ UNCHANGED <<revs, bypassed>>
  BY DEF CascadeAbort
<1>2. /\ c \in OpenCascades /\ ~IsOpen' /\ Inv'
      /\ base \in Revisions
  BY AbortKeepsInv DEF Inv, StoreInv, RefsExist
<1>3. LevelsFit(rows')
  <2> DEFINE old == StateAt(revs, base)
  <2>1. LevelsFit(old) /\ LevelsFit(rows)
    BY <1>2 DEF TreeInv
  <2>2. \A d \in Steps : rows'[d] # Absent => rows'[d] = old[d] \/ rows'[d] = rows[d]
    BY <1>1, RestoredFact, StepsAreEntities
  <2> HIDE DEF old
  <2>3. QED BY <2>1, <2>2 DEF LevelsFit, Present
<1>4. IdsUnique(rows')
  BY AbortKeepsIds DEF TreeInv
<1>5. \A r \in Revisions' : LevelsFit(StateAt(revs', r))
  BY <1>1 DEF TreeInv, Revisions
<1>6. ASSUME ~bypassed' PROVE ParentsThere(rows')
  <2>1. ~bypassed /\ head = base /\ WorkingRevision' = head
    BY <1>1, <1>2, <1>6, AbortKeepsInv
  <2>2. \A e \in Entities : AgreesAt(rows', StateAt(revs, base), e)
    BY <1>1, <1>2, <1>6, <2>1 DEF Inv, RowsAgree
  <2>3. rows' \in Tables /\ StateAt(revs, base) \in Tables
    BY <1>2, RevisionFact DEF Inv, TypeOK, StoreInv, Revisions
  <2>4. QED BY <1>2, <2>1, <2>2, <2>3, AgreesKeepsParents DEF TreeInv
<1>7. OpenCascades' = {}
  BY <1>2 DEF IsOpen
<1>8. QED BY <1>3, <1>4, <1>5, <1>6, <1>7 DEF TreeInv

\* The base of a new cascade is the tree the rows are.
LEMMA BeginKeepsTreeInv ==
    ASSUME Inv, TreeInv, NEW c \in CascadeIds, CascadeBegin(c) \/ PlanUnfreeze(c)
    PROVE  TreeInv'
<1>1. OpenNewCascade(c)
  BY BeginKeepsInv
<1>2. /\ ~IsOpen
      /\ cascades' = [cascades EXCEPT ![c] =
                         [status |-> "open", base |-> head, ref |-> head]]
      /\ UNCHANGED <<rows, revs, bypassed>>
  BY <1>1 DEF OpenNewCascade
<1>3. /\ cascades'[c].base = head
      /\ \A d \in CascadeIds \ {c} : cascades'[d] = cascades[d]
  BY <1>2 DEF Inv, TypeOK
<1>4. OpenCascades' \subseteq {c}
  BY <1>2, <1>3 DEF IsOpen, OpenCascades
<1>5. ASSUME ~bypassed PROVE ParentsThere(StateAt(revs, head))
  <2>1. \A e \in Entities : AgreesAt(rows, StateAt(revs, head), e)
    BY <1>2, <1>5 DEF Inv, RowsAgree, WorkingRevision
  <2>2. head \in 0..Len(revs)
    BY DEF Inv, TypeOK, Revisions, NoRevision
  <2>3. rows \in Tables /\ StateAt(revs, head) \in Tables
    BY <2>2, RevisionFact DEF Inv, TypeOK, StoreInv
  <2>4. QED BY <1>5, <2>1, <2>3, AgreesKeepsParents DEF TreeInv
<1>6. LevelsFit(rows') /\ IdsUnique(rows') /\ (~bypassed' => ParentsThere(rows'))
  BY <1>2 DEF TreeInv
<1>7. \A r \in Revisions' : LevelsFit(StateAt(revs', r))
  BY <1>2 DEF TreeInv, Revisions
<1>8. ~bypassed' => \A d \in OpenCascades' : ParentsThere(StateAt(revs', cascades'[d].base))
  BY <1>2, <1>3, <1>4, <1>5
<1>9. QED BY <1>6, <1>7, <1>8 DEF TreeInv

LEMMA RestKeepsTreeInv ==
    ASSUME Inv, TreeInv, UNCHANGED <<rows, revs, bypassed>>,
           UNCHANGED cascades \/ ~IsOpen'
    PROVE  TreeInv'
<1>1. LevelsFit(rows') /\ IdsUnique(rows') /\ (~bypassed' => ParentsThere(rows'))
  BY DEF TreeInv
<1>2. \A r \in Revisions' : LevelsFit(StateAt(revs', r))
  BY DEF TreeInv, Revisions
<1>3. ~bypassed' => \A d \in OpenCascades' : ParentsThere(StateAt(revs', cascades'[d].base))
  <2>1. CASE UNCHANGED cascades
    BY <2>1 DEF TreeInv, OpenCascades
  <2>2. CASE ~IsOpen'
    BY <2>2 DEF IsOpen
  <2>3. QED BY <2>1, <2>2
<1>4. QED BY <1>1, <1>2, <1>3 DEF TreeInv

LEMMA CommandKeepsTree ==
    ASSUME Inv, TreeInv, Next
    PROVE  \/ TreeInv'
           \/ /\ \E mode \in Modes : Writes(mode)
              /\ LevelsFit(rows') /\ IdsUnique(rows')
              /\ ~bypassed => ParentsThere(rows')
<1> DEFINE Kept == /\ \E mode \in Modes : Writes(mode)
                   /\ LevelsFit(rows') /\ IdsUnique(rows')
                   /\ ~bypassed => ParentsThere(rows')
<1>1. ASSUME SamePlaces(rows', rows), NEW mode \in Modes, Writes(mode)
      PROVE  Kept
  BY <1>1, SamePlacesKeepTree DEF TreeInv
<1>2. ASSUME NEW mode \in Modes, NEW s \in Steps, NEW p \in Steps \cup {NoParent},
             NEW content \in Contents, StepCreate(s, p, content, mode)
      PROVE  Kept
  BY <1>2, StepCreateWrites, StepCreateKeepsTree DEF TreeInv
<1>3. ASSUME NEW mode \in Modes, NEW s \in Steps, NEW content \in Contents,
             StepUpdate(s, content, mode)
      PROVE  Kept
  BY <1>1, <1>3, StepUpdateWrites, StepUpdateEffect
<1>4. ASSUME NEW mode \in Modes, NEW s \in Steps, NEW status \in AllStatuses,
             StepSetStatus(s, status, mode)
      PROVE  Kept
  BY <1>1, <1>4, StepSetStatusWrites, StepSetStatusEffect
<1>5. ASSUME NEW mode \in Modes, NEW s \in Steps, NEW p \in Steps, StepMove(s, p, mode)
      PROVE  Kept
  BY <1>5, StepMoveWrites, StepMoveKeepsTree DEF TreeInv
<1>6. ASSUME NEW mode \in Modes, NEW s \in Steps, NEW recursive \in BOOLEAN,
             StepDelete(s, recursive, mode)
      PROVE  Kept
  BY <1>6, StepDeleteWrites, StepDeleteKeepsTree DEF TreeInv
<1>7. ASSUME NEW mode \in Modes, EditsDeps(mode) PROVE Kept
  BY <1>1, <1>7, EditsDepsWrites, EditsDepsEffect
<1>8. ASSUME NEW mode \in Modes, NEW scope \in SUBSET Present(rows),
             NEW to \in TransitionTargets, StepTransition(scope, to, mode)
      PROVE  Kept
  BY <1>1, <1>8, StepTransitionWrites, StepTransitionEffect
<1>9. ASSUME NEW e \in MrsEntities, NEW new \in Contents \cup {Absent}, MrsWrite(e, new)
      PROVE  Kept
  BY <1>1, <1>9, MrsWriteWrites, MrsWriteEffect DEF Modes
<1>10. ASSUME NEW c \in CascadeIds, CascadeBegin(c) \/ PlanUnfreeze(c) \/ CascadeCommit(c)
       PROVE  TreeInv'
  <2>1. CASE CascadeBegin(c) \/ PlanUnfreeze(c)
    BY <2>1, BeginKeepsTreeInv
  <2>2. CASE CascadeCommit(c)
    BY <2>2, CommitKeepsInv, RestKeepsTreeInv DEF CascadeCommit
  <2>3. QED BY <1>10, <2>1, <2>2
<1>11. ASSUME NEW c \in CascadeIds, CascadeAbort(c) PROVE TreeInv'
  BY <1>11, AbortKeepsTreeInv
<1>12. ASSUME NEW flag \in BOOLEAN, PlanCompletedSet(flag) PROVE TreeInv'
  BY <1>12, RestKeepsTreeInv DEF PlanCompletedSet
<1> HIDE DEF Kept
<1>13. Kept \/ TreeInv'
  BY <1>2, <1>3, <1>4, <1>5, <1>6, <1>7, <1>8, <1>9, <1>10, <1>11, <1>12, NextIsCommand
<1>14. QED BY <1>13 DEF Kept

LEMMA NextTreeInv == ASSUME Inv, TreeInv, [Next]_vars PROVE TreeInv'
<1>1. CASE Next
  <2>1. CASE \E mode \in Modes : Writes(mode) /\ LevelsFit(rows') /\ IdsUnique(rows')
                                 /\ (~bypassed => ParentsThere(rows'))
    BY <2>1, WritesKeepTreeInv
  <2>2. QED BY <1>1, <2>1, CommandKeepsTree
<1>2. CASE UNCHANGED vars
  BY <1>2, RestKeepsTreeInv DEF vars
<1>3. QED BY <1>1, <1>2

LEMMA InitTreeInv == ASSUME Init PROVE TreeInv
<1>1. Inv
  BY InitInv
<1>2. /\ OpenCascades = {}
  BY DEF Init, OpenCascades, NoCascade
<1>3. CASE rows = EmptyState /\ revs = <<>>
  <2>1. Present(rows) = {} /\ Revisions = {}
    BY <1>3, StepsAreEntities DEF Present, EmptyState, Revisions
  <2>2. QED BY <1>2, <2>1 DEF TreeInv, LevelsFit, IdsUnique, ParentsThere
<1>4. ASSUME NEW tree \in ImportTrees,
             rows = Overlay(EmptyState, [s \in Present(tree) |-> tree[s]]),
             revs = RecordRevision(<<>>, NoRevision, [s \in Present(tree) |-> tree[s]])
      PROVE  TreeInv
  <2>1. Present(tree) \subseteq Steps
    BY DEF Present
  <2>2. \A s \in Steps : rows[s] = tree[s]
    BY <1>4, StepsAreEntities DEF Overlay, EmptyState, Present
  <2>3. SamePlaces(rows, tree)
    BY <2>2 DEF SamePlaces, Present, Placed
  <2>4. LevelsFit(rows) /\ ParentsThere(rows) /\ IdsUnique(rows)
    BY <2>3, SamePlacesKeepTree, ImportTreesAssumption
  <2>5. Len(revs) = 1 /\ revs[1].at = rows
    BY <1>4 DEF RecordRevision, NewRevision, StateAt
  <2>6. \A r \in Revisions : LevelsFit(StateAt(revs, r))
    BY <2>4, <2>5 DEF Revisions, StateAt, NoRevision
  <2>7. QED BY <1>2, <2>4, <2>6 DEF TreeInv
<1>5. \/ rows = EmptyState /\ revs = <<>>
      \/ \E tree \in ImportTrees :
            /\ rows = Overlay(EmptyState, [s \in Present(tree) |-> tree[s]])
            /\ revs = RecordRevision(<<>>, NoRevision, [s \in Present(tree) |-> tree[s]])
  BY DEF Init, Present
<1>6. QED BY <1>3, <1>4, <1>5

LEMMA TreeInvariant == Spec => [](Inv /\ TreeInv)
<1>1. Init => Inv /\ TreeInv
  BY InitInv, InitTreeInv
<1>2. Inv /\ TreeInv /\ [Next]_vars => (Inv /\ TreeInv)'
  BY NextInv, NextTreeInv
<1>3. QED BY <1>1, <1>2, PTL DEF Spec

\* The tree of steps is well formed: every step has its parent, one level up,
\* through creations, moves, deletions, commits and aborts (step_ops.py,
\* step_move_command.py, restore.py), whatever tree was imported; past a
\* bypassed cascade the levels still fit.
THEOREM TreesWellFormed == Spec => []TreeWellFormed
<1>1. Inv /\ TreeInv => TreeWellFormed
  BY DEF TreeInv, TreeWellFormed
<1>2. QED BY <1>1, TreeInvariant, PTL

\* No two steps of one scope have one identifier: next_free_step_id never runs
\* into the unique index step_scope_id, and no abort leaves two steps in one
\* place.
THEOREM IdsStayUnique == Spec => []StepIdsUnique
<1>1. Inv /\ TreeInv => StepIdsUnique
  BY DEF TreeInv, StepIdsUnique
<1>2. QED BY <1>1, TreeInvariant, PTL

----------------------------------------------------------------------------
(* What a frozen step may count on                                         *)

LEMMA BelowIsImpact ==
    ASSUME NEW t, NEW s PROVE Below(t, s) = ImpactSet(t, s)
BY DEF Below, ImpactSet, Children

\* check_admission looks at the frozen steps at, below and above a step: what
\* it admits has no frozen step there.
LEMMA ApartFromFrozen ==
    ASSUME NEW s \in Present(rows), NEW f \in FrozenSteps(rows),
           ~FrozenAtOrBelow(rows, s), ~FrozenAncestor(rows, s)
    PROVE  /\ f \in Present(rows)
           /\ f # s
           /\ f \notin ImpactSet(rows, s)
           /\ Subtree(rows, s) \cap ({f} \cup ImpactSet(rows, f)) = {}
<1>1. f \in Present(rows) /\ f \notin Subtree(rows, s)
  BY DEF FrozenAtOrBelow, FrozenSteps, WithStatus
<1>2. s \notin ImpactSet(rows, f)
  BY <1>1 DEF FrozenAncestor, Ancestors
<1>3. ASSUME NEW d \in Subtree(rows, s), d \in ImpactSet(rows, f) PROVE FALSE
  <2>1. f # s /\ f \notin Children(rows, s) /\ s \notin Children(rows, f)
    BY <1>1, <1>2 DEF Subtree, ImpactSet
  <2>2. d # s
    BY <1>2, <1>3
  <2>3. CASE d \in Children(rows, s)
    BY <1>3, <2>1, <2>3 DEF ImpactSet, Children
  <2>4. CASE \E c \in Children(rows, s) : d \in Children(rows, c)
    BY <1>3, <2>1, <2>4 DEF ImpactSet, Children
  <2>5. QED BY <2>2, <2>3, <2>4 DEF Subtree, ImpactSet
<1>4. QED BY <1>1, <1>3 DEF Subtree

\* What FrozenTruth says of one frozen step.
Held(f) ==
    /\ f \in Present(rows')
    /\ \/ rows'[f].status = "frozen"
       \/ LevelOf[f] = AtomicLevel /\ rows'[f].status = "in_progress"
    /\ Below(rows', f) = Below(rows, f)
    /\ \A d \in {f} \cup Below(rows, f) :
          /\ rows'[d].parent = rows[d].parent
          /\ rows'[d].id = rows[d].id
          /\ rows'[d].content = rows[d].content

LEMMA SamePlacesHold ==
    ASSUME SamePlaces(rows', rows), NEW f \in Present(rows),
           \/ rows'[f].status = "frozen"
           \/ LevelOf[f] = AtomicLevel /\ rows'[f].status = "in_progress",
           \A d \in {f} \cup ImpactSet(rows, f) : rows'[d].content = rows[d].content
    PROVE  Held(f)
<1>1. ImpactSet(rows', f) = ImpactSet(rows, f)
  BY SamePlacesSameImpact
<1>2. \A d \in {f} \cup ImpactSet(rows, f) : d \in Present(rows)
  BY DEF ImpactSet, Children
<1>3. QED BY <1>1, <1>2, BelowIsImpact DEF Held, SamePlaces, Placed

LEMMA AdmittedDirect ==
    ASSUME ~IsOpen, NEW mode \in Modes, NEW s \in Present(rows), AdmitStep(s, mode)
    PROVE  /\ mode = "direct"
           /\ ~FrozenAtOrBelow(rows, s)
           /\ ~FrozenAncestor(rows, s)
BY DEF AdmitStep, AdmitCascade, Modes

LEMMA StepCreateHolds ==
    ASSUME Inv, ~IsOpen, NEW f \in FrozenSteps(rows),
           NEW mode \in Modes, NEW s \in Steps, NEW p \in Steps \cup {NoParent},
           NEW content \in Contents, StepCreate(s, p, content, mode)
    PROVE  Held(f)
<1>1. /\ s \notin Present(rows)
      /\ ValidParent(rows, LevelOf[s], p)
      /\ AdmitCascade(mode)
      /\ mode = "direct" =>
            IF p = NoParent THEN FrozenSteps(rows) = {}
            ELSE ~FrozenAtOrBelow(rows, p) /\ ~FrozenAncestor(rows, p)
      /\ Present(rows') = Present(rows) \cup {s}
      /\ \A d \in Entities \ {s} : rows'[d] = rows[d]
      /\ rows'[s].parent = p
  BY StepCreateEffect
<1>2. mode = "direct"
  BY <1>1 DEF AdmitCascade, Modes
<1>3. p \in Present(rows) /\ ~FrozenAtOrBelow(rows, p) /\ ~FrozenAncestor(rows, p)
  BY <1>1, <1>2 DEF ValidParent
<1>4. f \in Present(rows) /\ rows[f].status = "frozen"
  BY DEF FrozenSteps, WithStatus
<1>5. f # p /\ rows[p].parent # f
  <2>1. f # p /\ Subtree(rows, p) \cap ({f} \cup ImpactSet(rows, f)) = {}
    BY <1>3, ApartFromFrozen
  <2>2. p \notin Children(rows, f)
    BY <2>1 DEF Subtree, ImpactSet
  <2>3. QED BY <1>3, <2>1, <2>2 DEF Children
<1>6. \A d \in Present(rows) : rows'[d] = rows[d]
  BY <1>1, StepsAreEntities DEF Present
<1>7. Below(rows', f) = Below(rows, f)
  <2>1. \A d \in Below(rows, f) : d \in Below(rows', f)
    BY <1>1, <1>6 DEF Below
  <2>2. ASSUME NEW d \in Below(rows', f) PROVE d \in Below(rows, f)
    <3>1. d # s
      BY <1>1, <1>3, <1>5, <1>6, <2>2 DEF Below
    <3>2. d \in Present(rows) /\ rows'[d] = rows[d]
      BY <1>1, <1>6, <2>2, <3>1 DEF Below
    <3>3. CASE rows'[d].parent = f
      BY <3>2, <3>3 DEF Below
    <3>4. ASSUME NEW m \in Present(rows'), rows'[d].parent = m, rows'[m].parent = f
          PROVE  d \in Below(rows, f)
      <4>1. m # s
        BY <1>1, <1>5, <3>4
      <4>2. QED BY <1>1, <1>6, <3>2, <3>4, <4>1 DEF Below
    <3>5. QED BY <2>2, <3>3, <3>4 DEF Below
  <2>3. QED BY <2>1, <2>2
<1>8. QED BY <1>1, <1>4, <1>6, <1>7 DEF Held, Below

LEMMA StepMoveHolds ==
    ASSUME Inv, ~IsOpen, NEW f \in FrozenSteps(rows),
           NEW mode \in Modes, NEW s \in Steps, NEW p \in Steps, StepMove(s, p, mode)
    PROVE  Held(f)
<1>1. /\ s \in Present(rows)
      /\ AdmitStep(s, mode)
      /\ mode = "direct" => ~FrozenAtOrBelow(rows, p) /\ ~FrozenAncestor(rows, p)
      /\ Present(rows') = Present(rows)
      /\ \A d \in Present(rows) : rows'[d].content = rows[d].content
      /\ \A d \in Present(rows) \ {s} : Placed(rows', rows, d)
      /\ \/ Placed(rows', rows, s)
         \/ ValidParent(rows, LevelOf[s], p) /\ rows'[s].parent = p
      /\ \A d \in Present(rows) :
            rows'[d].status = rows[d].status \/ mode = "cascade"
  BY StepMoveEffect
<1>2. mode = "direct" /\ ~FrozenAtOrBelow(rows, s) /\ ~FrozenAncestor(rows, s)
  BY <1>1, AdmittedDirect
<1>3. f \in Present(rows) /\ rows[f].status = "frozen" /\ rows'[f].status = "frozen"
  BY <1>1, <1>2 DEF FrozenSteps, WithStatus
<1>4. f # s /\ s \notin ImpactSet(rows, f)
  BY <1>1, <1>2, ApartFromFrozen DEF Subtree
<1>5. CASE Placed(rows', rows, s)
  <2>1. SamePlaces(rows', rows)
    BY <1>1, <1>5 DEF SamePlaces
  <2>2. QED BY <1>1, <1>3, <2>1, SamePlacesHold DEF ImpactSet, Children
<1>6. CASE ValidParent(rows, LevelOf[s], p) /\ rows'[s].parent = p
  <2>1. p \in Present(rows) /\ p # s
    <3>1. LevelOf[s] \in {3, 4, 5} /\ p # NoParent
      BY <1>1, LevelOfAssumption, StepsAssumption
         DEF Levels, GlobalLevel, TacticalLevel, AtomicLevel
    <3>2. QED BY <1>6, <3>1 DEF ValidParent
  <2>2. f # p /\ rows[p].parent # f
    <3>1. f # p /\ Subtree(rows, p) \cap ({f} \cup ImpactSet(rows, f)) = {}
      BY <1>1, <1>2, <2>1, ApartFromFrozen
    <3>2. p \notin Children(rows, f)
      BY <3>1 DEF Subtree, ImpactSet
    <3>3. QED BY <2>1, <3>1, <3>2 DEF Children
  <2>3. \A d \in Present(rows) \ {s} : rows'[d].parent = rows[d].parent
    BY <1>1 DEF Placed
  <2>4. ASSUME NEW d \in Below(rows', f) PROVE d \in Below(rows, f)
    <3>1. d # s
      BY <1>6, <2>1, <2>2, <2>3, <2>4 DEF Below
    <3>2. d \in Present(rows) /\ rows'[d].parent = rows[d].parent
      BY <1>1, <2>3, <2>4, <3>1 DEF Below
    <3>3. CASE rows'[d].parent = f
      BY <3>2, <3>3 DEF Below
    <3>4. ASSUME NEW m \in Present(rows'), rows'[d].parent = m, rows'[m].parent = f
          PROVE  d \in Below(rows, f)
      <4>1. m # s
        BY <1>6, <2>2, <3>4
      <4>2. QED BY <1>1, <2>3, <3>2, <3>4, <4>1 DEF Below
    <3>5. QED BY <2>4, <3>3, <3>4 DEF Below
  <2>5. ASSUME NEW d \in Below(rows, f) PROVE d \in Below(rows', f) /\ d # s
    <3>1. d # s
      BY <1>4, <2>5, BelowIsImpact
    <3>2. d \in Present(rows) /\ rows'[d].parent = rows[d].parent
      BY <2>3, <2>5, <3>1 DEF Below
    <3>3. CASE rows[d].parent = f
      BY <1>1, <3>1, <3>2, <3>3 DEF Below
    <3>4. ASSUME NEW m \in Present(rows), rows[d].parent = m, rows[m].parent = f
          PROVE  d \in Below(rows', f)
      <4>1. m # s
        BY <1>4, <3>4 DEF ImpactSet, Children
      <4>2. QED BY <1>1, <2>3, <3>2, <3>4, <4>1 DEF Below
    <3>5. QED BY <2>5, <3>1, <3>3, <3>4 DEF Below
  <2>6. \A d \in {f} \cup Below(rows, f) : d \in Present(rows) \ {s}
    BY <1>3, <1>4, <2>5 DEF Below
  <2>7. QED BY <1>1, <1>3, <2>4, <2>5, <2>6 DEF Held, Placed
<1>7. QED BY <1>1, <1>5, <1>6

LEMMA StepDeleteHolds ==
    ASSUME Inv, ~IsOpen, NEW f \in FrozenSteps(rows),
           NEW mode \in Modes, NEW s \in Steps, NEW recursive \in BOOLEAN,
           StepDelete(s, recursive, mode)
    PROVE  Held(f)
<1> DEFINE doomed == Doomed(s, recursive)
<1>1. /\ s \in Present(rows)
      /\ AdmitStep(s, mode)
      /\ Present(rows') = Present(rows) \ doomed
      /\ \A d \in Present(rows) \ doomed :
                 /\ Placed(rows', rows, d)
                 /\ rows'[d].content = rows[d].content
                 /\ rows'[d].status = rows[d].status
  BY StepDeleteEffect
<1>2. ~FrozenAtOrBelow(rows, s) /\ ~FrozenAncestor(rows, s)
  BY <1>1, AdmittedDirect
<1>3. doomed \subseteq Subtree(rows, s)
  BY DEF Doomed, Subtree
<1>4. /\ f \in Present(rows) /\ rows[f].status = "frozen"
      /\ doomed \cap ({f} \cup Below(rows, f)) = {}
  BY <1>1, <1>2, <1>3, ApartFromFrozen, BelowIsImpact DEF FrozenSteps, WithStatus
<1> HIDE DEF doomed
<1>5. Below(rows', f) = Below(rows, f)
  <2>1. \A d \in Below(rows', f) : d \in Below(rows, f)
    BY <1>1 DEF Below, Placed
  <2>2. ASSUME NEW d \in Below(rows, f) PROVE d \in Below(rows', f)
    <3>1. d \in Present(rows') /\ rows'[d].parent = rows[d].parent
      BY <1>1, <1>4, <2>2 DEF Below, Placed
    <3>2. CASE rows[d].parent = f
      BY <3>1, <3>2 DEF Below
    <3>3. ASSUME NEW m \in Present(rows), rows[d].parent = m, rows[m].parent = f
          PROVE  d \in Below(rows', f)
      <4>1. m \in Below(rows, f)
        BY <3>3 DEF Below
      <4>2. m \in Present(rows') /\ rows'[m].parent = f
        BY <1>1, <1>4, <3>3, <4>1 DEF Placed
      <4>3. QED BY <3>1, <3>3, <4>2 DEF Below
    <3>4. QED BY <2>2, <3>2, <3>3 DEF Below
  <2>3. QED BY <2>1, <2>2
<1>6. \A d \in {f} \cup Below(rows, f) : d \in Present(rows) \ doomed
  BY <1>4 DEF Below
<1>7. QED BY <1>1, <1>4, <1>5, <1>6 DEF Held, Placed

\* A frozen step holds in every step outside a cascade.
LEMMA StepHoldsFrozen ==
    ASSUME Inv, Next, ~IsOpen, NEW f \in FrozenSteps(rows)
    PROVE  Held(f)
<1>1. f \in Present(rows) /\ rows[f].status = "frozen"
  BY DEF FrozenSteps, WithStatus
<1>2. {f} \cup ImpactSet(rows, f) \subseteq Present(rows)
  BY <1>1 DEF ImpactSet, Children
<1>3. ASSUME NEW mode \in Modes, NEW s \in Steps, NEW content \in Contents,
             StepUpdate(s, content, mode)
      PROVE  Held(f)
  <2>1. /\ s \in Present(rows)
        /\ AdmitStep(s, mode)
        /\ SamePlaces(rows', rows)
        /\ \A d \in Present(rows) \ {s} : rows'[d].content = rows[d].content
        /\ \A d \in Present(rows) : rows'[d].status = rows[d].status \/ mode = "cascade"
    BY <1>3, StepUpdateEffect
  <2>2. mode = "direct" /\ ~FrozenAtOrBelow(rows, s) /\ ~FrozenAncestor(rows, s)
    BY <2>1, AdmittedDirect
  <2>3. s \notin {f} \cup ImpactSet(rows, f)
    BY <2>1, <2>2, ApartFromFrozen DEF Subtree
  <2>4. rows'[f].status = "frozen"
    BY <1>1, <2>1, <2>2
  <2>5. QED BY <1>1, <1>2, <2>1, <2>3, <2>4, SamePlacesHold
<1>4. ASSUME NEW mode \in Modes, NEW s \in Steps, NEW status \in AllStatuses,
             StepSetStatus(s, status, mode)
      PROVE  Held(f)
  <2>1. /\ s \in Present(rows)
        /\ IsAtomicExecution(s, status, mode) \/ AdmitStep(s, mode)
        /\ SamePlaces(rows', rows)
        /\ \A d \in Present(rows) : rows'[d].content = rows[d].content
        /\ \A d \in Present(rows) \ {s} :
              rows'[d].status = rows[d].status \/ mode = "cascade"
        /\ rows'[s].status = status \/ mode = "cascade"
    BY <1>4, StepSetStatusEffect
  <2>2. mode = "direct"
    BY <2>1, AdmittedDirect DEF IsAtomicExecution
  <2>3. CASE f # s
    BY <1>1, <1>2, <2>1, <2>2, <2>3, SamePlacesHold
  <2>4. CASE f = s /\ IsAtomicExecution(s, status, mode)
    <3>1. LevelOf[f] = AtomicLevel /\ status = "in_progress"
      BY <1>1, <2>4 DEF IsAtomicExecution, ExecutionTransitions
    <3>2. QED BY <1>1, <1>2, <2>1, <2>2, <2>4, <3>1, SamePlacesHold
  <2>5. CASE f = s /\ AdmitStep(s, mode)
    BY <2>1, <2>5, AdmittedDirect, ApartFromFrozen
  <2>6. QED BY <2>1, <2>3, <2>4, <2>5
<1>5. ASSUME NEW mode \in Modes, EditsDeps(mode) PROVE Held(f)
  BY <1>1, <1>2, <1>5, EditsDepsEffect, SamePlacesHold
<1>6. ASSUME NEW mode \in Modes, NEW scope \in SUBSET Present(rows),
             NEW to \in TransitionTargets, StepTransition(scope, to, mode)
      PROVE  Held(f)
  <2>1. /\ SamePlaces(rows', rows)
        /\ mode = "cascade" => IsOpen
        /\ \A d \in Present(rows) : rows'[d].content = rows[d].content
        /\ \/ rows'[f].status = rows[f].status
           \/ /\ rows'[f].status = to
              /\ rows[f].status = "frozen" /\ to # "frozen" => mode = "cascade"
    BY <1>1, <1>6, StepTransitionEffect
  <2>2. rows'[f].status = "frozen"
    BY <1>1, <2>1
  <2>3. QED BY <1>1, <1>2, <2>1, <2>2, SamePlacesHold
<1>7. ASSUME NEW e \in MrsEntities, NEW new \in Contents \cup {Absent}, MrsWrite(e, new)
      PROVE  Held(f)
  BY <1>7, MrsWriteEffect
<1>8. ASSUME UNCHANGED rows PROVE Held(f)
  BY <1>1, <1>8 DEF Held
<1>9. ASSUME NEW c \in CascadeIds, CascadeBegin(c) \/ PlanUnfreeze(c) \/ CascadeCommit(c)
      PROVE  Held(f)
  BY <1>8, <1>9 DEF CascadeBegin, PlanUnfreeze, OpenNewCascade, CascadeCommit
<1>10. ASSUME NEW c \in CascadeIds, CascadeAbort(c) PROVE Held(f)
  BY <1>10 DEF CascadeAbort, IsOpen
<1>11. ASSUME NEW flag \in BOOLEAN, PlanCompletedSet(flag) PROVE Held(f)
  BY <1>8, <1>11 DEF PlanCompletedSet
<1>12. QED BY <1>3, <1>4, <1>5, <1>6, <1>7, <1>9, <1>10, <1>11, NextIsCommand,
              StepCreateHolds, StepMoveHolds, StepDeleteHolds

\* Frozen truth: outside a cascade a frozen step stays, in its place, with its
\* content, and with all that lies below it (check_admission of
\* cascade/regime.py); its status moves only by running an atomic step.
THEOREM FrozenTruthHolds == Spec => FrozenTruth
<1>1. Inv /\ [Next]_vars =>
         [~IsOpen =>
            \A f \in FrozenSteps(rows) :
                /\ f \in Present(rows')
                /\ \/ rows'[f].status = "frozen"
                   \/ LevelOf[f] = AtomicLevel /\ rows'[f].status = "in_progress"
                /\ Below(rows', f) = Below(rows, f)
                /\ \A d \in {f} \cup Below(rows, f) :
                      /\ rows'[d].parent = rows[d].parent
                      /\ rows'[d].id = rows[d].id
                      /\ rows'[d].content = rows[d].content]_vars
  BY StepHoldsFrozen DEF Held
<1>2. QED BY <1>1, Invariant, PTL DEF Spec, FrozenTruth

----------------------------------------------------------------------------
(* What lies below a rewritten step, and what runs                         *)

LEMMA AbortAborts ==
    ASSUME Inv, NEW c \in CascadeIds, CascadeAbort(c)
    PROVE  Aborts
<1>1. c \in OpenCascades /\
      cascades' = [cascades EXCEPT ![c].status = "aborted", ![c].ref = NoRevision]
  BY DEF CascadeAbort
<1>2. cascades'[c].status = "aborted"
  BY <1>1, CascadeEnds DEF Inv, CascadeAbort
<1>3. QED BY <1>1, <1>2 DEF Aborts

LEMMA RewrittenFlagsBelow ==
    ASSUME Inv, Next, NEW s \in Present(rows), s \in Present(rows'), IsOpen, ~Aborts,
           rows'[s].content # rows[s].content \/ rows'[s].parent # rows[s].parent,
           NEW d \in Below(rows', s)
    PROVE  rows'[d].status \in {"needs_review"} \cup AtomicStatuses
<1> DEFINE Flagged == rows'[d].status \in {"needs_review"} \cup AtomicStatuses
<1>1. d \in ImpactSet(rows', s)
  BY BelowIsImpact
<1>2. ASSUME SamePlaces(rows', rows),
             \A e \in Present(rows) : rows'[e].content = rows[e].content
      PROVE  FALSE
  BY <1>2 DEF SamePlaces, Placed
<1>3. ASSUME NEW mode \in Modes, NEW r \in Steps, NEW p \in Steps \cup {NoParent},
             NEW content \in Contents, StepCreate(r, p, content, mode)
      PROVE  FALSE
  BY <1>3, StepCreateEffect, StepsAreEntities DEF Present
<1>4. ASSUME NEW mode \in Modes, NEW r \in Steps, AdmitStep(r, mode) PROVE mode = "cascade"
  BY <1>4 DEF AdmitStep, AdmitCascade, Modes
<1>5. ASSUME NEW mode \in Modes, NEW r \in Steps, NEW content \in Contents,
             StepUpdate(r, content, mode)
      PROVE  Flagged
  <2>1. /\ AdmitStep(r, mode)
        /\ SamePlaces(rows', rows)
        /\ \A e \in Present(rows) \ {r} : rows'[e].content = rows[e].content
        /\ mode = "cascade" =>
                 \A e \in ImpactSet(rows', r) :
                    rows'[e].status \in {"needs_review"} \cup AtomicStatuses
    BY <1>5, StepUpdateEffect
  <2>2. r = s
    BY <2>1 DEF SamePlaces, Placed
  <2>3. QED BY <1>1, <1>4, <2>1, <2>2
<1>6. ASSUME NEW mode \in Modes, NEW r \in Steps, NEW status \in AllStatuses,
             StepSetStatus(r, status, mode)
      PROVE  FALSE
  BY <1>2, <1>6, StepSetStatusEffect
<1>7. ASSUME NEW mode \in Modes, NEW r \in Steps, NEW p \in Steps, StepMove(r, p, mode)
      PROVE  Flagged
  <2>1. /\ AdmitStep(r, mode)
        /\ \A e \in Present(rows) : rows'[e].content = rows[e].content
        /\ \A e \in Present(rows) \ {r} : Placed(rows', rows, e)
        /\ mode = "cascade" =>
                 \A e \in ImpactSet(rows', r) :
                    rows'[e].status \in {"needs_review"} \cup AtomicStatuses
    BY <1>7, StepMoveEffect
  <2>2. r = s
    BY <2>1 DEF Placed
  <2>3. QED BY <1>1, <1>4, <2>1, <2>2
<1>8. ASSUME NEW mode \in Modes, NEW r \in Steps, NEW recursive \in BOOLEAN,
             StepDelete(r, recursive, mode)
      PROVE  FALSE
  <2>1. s \in Present(rows) \ Doomed(r, recursive)
    BY <1>8, StepDeleteEffect
  <2>2. QED BY <1>8, <2>1, StepDeleteEffect DEF Placed
<1>9. ASSUME NEW mode \in Modes, EditsDeps(mode) PROVE FALSE
  BY <1>2, <1>9, EditsDepsEffect
<1>10. ASSUME NEW mode \in Modes, NEW scope \in SUBSET Present(rows),
              NEW to \in TransitionTargets, StepTransition(scope, to, mode)
       PROVE  FALSE
  BY <1>2, <1>10, StepTransitionEffect
<1>11. ASSUME NEW e \in MrsEntities, NEW new \in Contents \cup {Absent}, MrsWrite(e, new)
       PROVE  FALSE
  BY <1>2, <1>11, MrsWriteEffect
<1>12. ASSUME NEW c \in CascadeIds, CascadeBegin(c) \/ PlanUnfreeze(c) \/ CascadeCommit(c)
       PROVE  FALSE
  BY <1>12 DEF CascadeBegin, PlanUnfreeze, OpenNewCascade, CascadeCommit
<1>13. ASSUME NEW c \in CascadeIds, CascadeAbort(c) PROVE FALSE
  BY <1>13, AbortAborts
<1>14. ASSUME NEW flag \in BOOLEAN, PlanCompletedSet(flag) PROVE FALSE
  BY <1>14 DEF PlanCompletedSet
<1> HIDE DEF Flagged
<1>15. Flagged
  BY <1>3, <1>5, <1>6, <1>7, <1>8, <1>9, <1>10, <1>11, <1>12, <1>13, <1>14, NextIsCommand
<1>16. QED BY <1>15 DEF Flagged

\* What a cascade rewrites or moves takes the review off all that lies below,
\* on every level (cascade/propagation.py), of steps that run or have run
\* excepted.
THEOREM StaleDescendantsAreFlagged == Spec => StaleDescendantsFlagged
<1>1. Inv /\ [Next]_vars =>
         [\A s \in Present(rows) \cap Present(rows') :
             /\ IsOpen /\ ~Aborts
             /\ \/ rows'[s].content # rows[s].content
                \/ rows'[s].parent # rows[s].parent
             => \A d \in Below(rows', s) :
                   rows'[d].status \in {"needs_review"} \cup AtomicStatuses]_vars
  BY RewrittenFlagsBelow
<1>2. QED BY <1>1, Invariant, PTL DEF Spec, StaleDescendantsFlagged

\* The tables of the lifecycle lead from in_progress to done only, and from
\* done nowhere.
LEMMA RunningGoesOn ==
    ASSUME NEW from \in AtomicStatuses, NEW to, NEW level,
           LegalTransition(from, to, level, FALSE)
    PROVE  to = "done"
BY DEF LegalTransition, LegalTargets, AtomicStatuses

LEMMA SetStatusOwn ==
    ASSUME Inv, NEW mode \in Modes, NEW s \in Steps, NEW status \in AllStatuses,
           StepSetStatus(s, status, mode)
    PROVE  rows'[s].status # status => status \notin AtomicStatuses
BY StepSetStatusEffect, ZenonT(40)

LEMMA SetStatusKeepsExecution ==
    ASSUME Inv, NEW mode \in Modes, NEW s \in Steps, NEW status \in AllStatuses,
           StepSetStatus(s, status, mode),
           NEW e \in Present(rows), rows[e].status \in AtomicStatuses
    PROVE  rows'[e].status \in {rows[e].status, "done"}
<1>1. /\ s \in Present(rows)
      /\ LegalTransition(rows[s].status, status, LevelOf[s], FALSE)
  BY StepSetStatusEffect
<1>2. \A d \in Present(rows) \ {s} :
            \/ rows'[d].status = rows[d].status
            \/ /\ mode = "cascade"
               /\ rows'[d].status = "needs_review"
               /\ rows[d].status \notin AtomicStatuses
  BY StepSetStatusEffect
<1>3. rows'[s].status # status => status \notin AtomicStatuses
  BY SetStatusOwn
<1>4. CASE e # s
  BY <1>2, <1>4
<1>5. CASE e = s
  <2>1. status = "done"
    BY <1>1, <1>5, RunningGoesOn
  <2>2. QED BY <1>3, <1>5, <2>1 DEF AtomicStatuses
<1>6. QED BY <1>4, <1>5

LEMMA StepKeepsExecution ==
    ASSUME Inv, Next, ~Aborts, NEW s \in Present(rows), s \in Present(rows'),
           rows[s].status \in AtomicStatuses
    PROVE  rows'[s].status \in {rows[s].status, "done"}
<1> DEFINE Goes == rows'[s].status \in {rows[s].status, "done"}
<1>1. ASSUME NEW mode \in Modes, NEW r \in Steps, NEW p \in Steps \cup {NoParent},
             NEW content \in Contents, StepCreate(r, p, content, mode)
      PROVE  Goes
  BY <1>1, StepCreateEffect, StepsAreEntities DEF Present
<1>2. ASSUME NEW mode \in Modes, NEW r \in Steps, NEW content \in Contents,
             StepUpdate(r, content, mode)
      PROVE  Goes
  BY <1>2, StepUpdateEffect
<1>3. ASSUME NEW mode \in Modes, NEW r \in Steps, NEW status \in AllStatuses,
             StepSetStatus(r, status, mode)
      PROVE  Goes
  BY <1>3, SetStatusKeepsExecution
<1>4. ASSUME NEW mode \in Modes, NEW r \in Steps, NEW p \in Steps, StepMove(r, p, mode)
      PROVE  Goes
  BY <1>4, StepMoveEffect
<1>5. ASSUME NEW mode \in Modes, NEW r \in Steps, NEW recursive \in BOOLEAN,
             StepDelete(r, recursive, mode)
      PROVE  Goes
  <2>1. s \in Present(rows) \ Doomed(r, recursive)
    BY <1>5, StepDeleteEffect
  <2>2. QED BY <1>5, <2>1, StepDeleteEffect
<1>6. ASSUME NEW mode \in Modes, EditsDeps(mode) PROVE Goes
  BY <1>6, EditsDepsEffect
<1>7. ASSUME NEW mode \in Modes, NEW scope \in SUBSET Present(rows),
             NEW to \in TransitionTargets, StepTransition(scope, to, mode)
      PROVE  Goes
  <2>1. \/ rows'[s].status = rows[s].status
        \/ /\ rows'[s].status = to
           /\ TransitionAllowed(rows[s].status, to, LevelOf[s])
    BY <1>7, StepTransitionEffect
  <2>2. ASSUME TransitionAllowed(rows[s].status, to, LevelOf[s]) PROVE to = "done"
    <3>1. rows[s].status # "draft" /\ rows[s].status # "frozen"
      BY DEF AtomicStatuses
    <3>2. LegalTransition(rows[s].status, to, LevelOf[s], FALSE)
      BY <2>2, <3>1 DEF TransitionAllowed
    <3>3. QED BY <3>2, RunningGoesOn
  <2>3. QED BY <2>1, <2>2
<1>8. ASSUME NEW e \in MrsEntities, NEW new \in Contents \cup {Absent}, MrsWrite(e, new)
      PROVE  Goes
  BY <1>8, MrsWriteEffect
<1>9. ASSUME NEW c \in CascadeIds, CascadeBegin(c) \/ PlanUnfreeze(c) \/ CascadeCommit(c)
      PROVE  Goes
  BY <1>9 DEF CascadeBegin, PlanUnfreeze, OpenNewCascade, CascadeCommit
<1>10. ASSUME NEW c \in CascadeIds, CascadeAbort(c) PROVE Goes
  BY <1>10, AbortAborts
<1>11. ASSUME NEW flag \in BOOLEAN, PlanCompletedSet(flag) PROVE Goes
  BY <1>11 DEF PlanCompletedSet
<1> HIDE DEF Goes
<1>12. Goes
  BY <1>1, <1>2, <1>3, <1>4, <1>5, <1>6, <1>7, <1>8, <1>9, <1>10, <1>11, NextIsCommand
<1>13. QED BY <1>12 DEF Goes

\* Work done is not taken back: no command and no invalidation takes a running
\* step anywhere but to done, or a done one anywhere (status_model.py,
\* propagation.py).
THEOREM ExecutionIsKept == Spec => ExecutionKept
<1>1. Inv /\ [Next]_vars =>
         [\A s \in WithStatus(rows, AtomicStatuses) \cap Present(rows') :
             \/ rows'[s].status \in {rows[s].status, "done"}
             \/ Aborts]_vars
  BY StepKeepsExecution DEF WithStatus
<1>2. QED BY <1>1, Invariant, PTL DEF Spec, ExecutionKept

----------------------------------------------------------------------------
(* The dependencies of a frozen step                                       *)

\* What FrozenDepsHeld says of one frozen step.
DepsHeld(f) ==
    /\ rows'[f].deps \subseteq rows[f].deps
    /\ \A t \in Siblings(rows, f) \cap Present(rows') :
          <<rows[t].id>> \in rows[f].deps /\ rows'[t].parent = rows[t].parent
          => <<rows'[t].id>> \in rows'[f].deps

LEMMA SameDepsHeld ==
    ASSUME NEW f, rows'[f].deps = rows[f].deps,
           \A t \in Siblings(rows, f) \cap Present(rows') :
              rows'[t].parent = rows[t].parent => rows'[t].id = rows[t].id
    PROVE  DepsHeld(f)
BY DEF DepsHeld

\* The scrub takes from f the number of the step that leaves and, numbers
\* being unique, of no other sibling.
LEMMA ScrubHoldsDeps ==
    ASSUME IdsUnique(rows), NEW f \in Present(rows), NEW s \in Present(rows), s # f,
           rows'[f].deps = IF f \in Siblings(rows, s)
                           THEN rows[f].deps \ {<<rows[s].id>>} ELSE rows[f].deps,
           s \notin Present(rows') \/ rows'[s].parent # rows[s].parent,
           \A t \in (Present(rows) \cap Present(rows')) \ {s} : rows'[t].id = rows[t].id
    PROVE  DepsHeld(f)
<1>1. ASSUME NEW t \in Siblings(rows, f), t \in Present(rows'),
             <<rows[t].id>> \in rows[f].deps, rows'[t].parent = rows[t].parent
      PROVE  <<rows'[t].id>> \in rows'[f].deps
  <2>1. t # s /\ t \in Present(rows) /\ rows'[t].id = rows[t].id
    BY <1>1 DEF Siblings, Scope, Children
  <2>2. CASE f \in Siblings(rows, s)
    <3>1. t \in Siblings(rows, s)
      BY <1>1, <2>1, <2>2 DEF Siblings, Scope, Children
    <3>2. <<rows[t].id>> # <<rows[s].id>>
      BY <3>1 DEF IdsUnique
    <3>3. QED BY <1>1, <2>1, <2>2, <3>2
  <2>3. CASE f \notin Siblings(rows, s)
    BY <1>1, <2>1, <2>3
  <2>4. QED BY <2>2, <2>3
<1>2. QED BY <1>1 DEF DepsHeld

LEMMA StepHoldsFrozenDeps ==
    ASSUME Inv, TreeInv, Next, ~IsOpen, NEW f \in FrozenSteps(rows), f \in Present(rows')
    PROVE  DepsHeld(f)
<1>1. f \in Present(rows) /\ IdsUnique(rows) /\ Siblings(rows, f) \subseteq Present(rows)
  BY DEF FrozenSteps, WithStatus, TreeInv, Siblings, Scope, Children
<1>2. ASSUME SamePlaces(rows', rows), rows'[f].deps = rows[f].deps PROVE DepsHeld(f)
  BY <1>1, <1>2, SameDepsHeld DEF SamePlaces, Placed
<1>3. ASSUME NEW mode \in Modes, NEW s \in Steps, NEW p \in Steps \cup {NoParent},
             NEW content \in Contents, StepCreate(s, p, content, mode)
      PROVE  DepsHeld(f)
  <2>1. \A d \in Present(rows) : rows'[d] = rows[d]
    BY <1>3, StepCreateEffect, StepsAreEntities DEF Present
  <2>2. QED BY <1>1, <2>1, SameDepsHeld
<1>4. ASSUME NEW mode \in Modes, NEW s \in Steps, NEW content \in Contents,
             StepUpdate(s, content, mode)
      PROVE  DepsHeld(f)
  BY <1>1, <1>2, <1>4, StepUpdateEffect
<1>5. ASSUME NEW mode \in Modes, NEW s \in Steps, NEW status \in AllStatuses,
             StepSetStatus(s, status, mode)
      PROVE  DepsHeld(f)
  BY <1>1, <1>2, <1>5, StepSetStatusEffect
<1>6. ASSUME NEW mode \in Modes, NEW s \in Steps, NEW p \in Steps, StepMove(s, p, mode)
      PROVE  DepsHeld(f)
  <2>1. /\ s \in Present(rows) /\ AdmitStep(s, mode)
        /\ Present(rows') = Present(rows)
        /\ \A d \in Present(rows) \ {s} : Placed(rows', rows, d)
        /\ \/ /\ Placed(rows', rows, s)
              /\ \A d \in Present(rows) : rows'[d].deps = rows[d].deps
           \/ /\ p # rows[s].parent /\ rows'[s].parent = p
              /\ \A d \in Present(rows) \ {s} :
                    rows'[d].deps = IF d \in Siblings(rows, s)
                                    THEN rows[d].deps \ {<<rows[s].id>>} ELSE rows[d].deps
    BY <1>6, StepMoveEffect
  <2>2. f # s
    BY <2>1, AdmittedDirect, ApartFromFrozen
  <2>3. CASE Placed(rows', rows, s) /\ rows'[f].deps = rows[f].deps
    BY <1>2, <2>1, <2>3 DEF SamePlaces
  <2>4. CASE /\ rows'[s].parent # rows[s].parent
             /\ rows'[f].deps = IF f \in Siblings(rows, s)
                                THEN rows[f].deps \ {<<rows[s].id>>} ELSE rows[f].deps
    <3>1. \A t \in (Present(rows) \cap Present(rows')) \ {s} : rows'[t].id = rows[t].id
      BY <2>1 DEF Placed
    <3>2. QED BY <1>1, <2>1, <2>2, <2>4, <3>1, ScrubHoldsDeps
  <2>5. QED BY <1>1, <2>1, <2>2, <2>3, <2>4
<1>7. ASSUME NEW mode \in Modes, NEW s \in Steps, NEW recursive \in BOOLEAN,
             StepDelete(s, recursive, mode)
      PROVE  DepsHeld(f)
  <2> DEFINE doomed == Doomed(s, recursive)
  <2>1. /\ s \in Present(rows) /\ AdmitStep(s, mode)
        /\ Present(rows') = Present(rows) \ doomed
        /\ \A d \in Present(rows) \ doomed :
              /\ Placed(rows', rows, d)
              /\ rows'[d].deps = IF d \in Siblings(rows, s)
                                 THEN rows[d].deps \ {<<rows[s].id>>} ELSE rows[d].deps
    BY <1>7, StepDeleteEffect
  <2>2. s \in doomed
    BY DEF Doomed, Subtree
  <2> HIDE DEF doomed
  <2>3. /\ f # s
        /\ f \in Present(rows) \ doomed
        /\ s \notin Present(rows')
        /\ \A t \in (Present(rows) \cap Present(rows')) \ {s} : rows'[t].id = rows[t].id
    BY <1>1, <2>1, <2>2 DEF Placed
  <2>4. QED BY <1>1, <2>1, <2>3, ScrubHoldsDeps
<1>8. ASSUME NEW mode \in Modes, EditsDeps(mode) PROVE DepsHeld(f)
  <2>1. /\ SamePlaces(rows', rows)
        /\ rows'[f].deps = rows[f].deps \/ AdmitStep(f, mode)
    BY <1>1, <1>8, EditsDepsEffect
  <2>2. ~AdmitStep(f, mode)
    BY <1>1, AdmittedDirect, ApartFromFrozen
  <2>3. QED BY <1>2, <2>1, <2>2
<1>9. ASSUME NEW mode \in Modes, NEW scope \in SUBSET Present(rows),
             NEW to \in TransitionTargets, StepTransition(scope, to, mode)
      PROVE  DepsHeld(f)
  BY <1>1, <1>2, <1>9, StepTransitionEffect
<1>10. ASSUME NEW e \in MrsEntities, NEW new \in Contents \cup {Absent}, MrsWrite(e, new)
       PROVE  DepsHeld(f)
  BY <1>10, MrsWriteEffect
<1>11. ASSUME UNCHANGED rows PROVE DepsHeld(f)
  BY <1>11 DEF DepsHeld
<1>12. ASSUME NEW c \in CascadeIds, CascadeBegin(c) \/ PlanUnfreeze(c) \/ CascadeCommit(c)
       PROVE  DepsHeld(f)
  BY <1>11, <1>12 DEF CascadeBegin, PlanUnfreeze, OpenNewCascade, CascadeCommit
<1>13. ASSUME NEW c \in CascadeIds, CascadeAbort(c) PROVE DepsHeld(f)
  BY <1>13 DEF CascadeAbort, IsOpen
<1>14. ASSUME NEW flag \in BOOLEAN, PlanCompletedSet(flag) PROVE DepsHeld(f)
  BY <1>11, <1>14 DEF PlanCompletedSet
<1>15. QED BY <1>3, <1>4, <1>5, <1>6, <1>7, <1>8, <1>9, <1>10, <1>12, <1>13, <1>14,
              NextIsCommand

\* Outside a cascade a frozen step loses the dependencies on siblings that
\* leave (scrub of delete_step and move_step) and no other, and gains none.
THEOREM FrozenDepsAreHeld == Spec => FrozenDepsHeld
<1>1. Inv /\ TreeInv /\ [Next]_vars =>
         [~IsOpen =>
            \A f \in FrozenSteps(rows) \cap Present(rows') :
                /\ rows'[f].deps \subseteq rows[f].deps
                /\ \A t \in Siblings(rows, f) \cap Present(rows') :
                      <<rows[t].id>> \in rows[f].deps /\ rows'[t].parent = rows[t].parent
                      => <<rows'[t].id>> \in rows'[f].deps]_vars
  BY StepHoldsFrozenDeps DEF DepsHeld
<1>2. QED BY <1>1, TreeInvariant, PTL DEF Spec, FrozenDepsHeld
=============================================================================
