--------------------------- MODULE PlanText_proofs ---------------------------
(***************************************************************************)
(* Proofs about PlanText, for every plan and every text: the version store *)
(* keeps the paragraphs, and their positions stay without gaps.            *)
(***************************************************************************)
EXTENDS PlanText, PlanOrder_proofs

----------------------------------------------------------------------------
(* The inductive invariant                                                 *)

TextTables == [Paragraphs -> ParagraphRow \cup {Absent}]

TextRow == [parent : Nat, touched : SUBSET Paragraphs, at : TextTables, chain : SUBSET Nat]

TextAt(r) == Text!StateAt(texts, r)

TextTyped ==
    /\ texts \in Seq(TextRow)
    /\ Len(texts) = Len(revs)
    /\ paras \in TextTables
    /\ replaced \in [Paragraphs -> 0..Len(revs)]

\* While a cascade is open the head keeps the text of its base, for only
\* transitions go past it, and adds no import to its chain.
TextHeadWaits ==
    \A c \in OpenCascades :
        /\ TextAt(head) = TextAt(cascades[c].base)
        /\ \A p \in Paragraphs : replaced[p] \in Chain(revs, head) =>
                                    replaced[p] \in Chain(revs, cascades[c].base)

\* What an import before the cascade removed, the cascade does not touch.
TextBaseStays ==
    \A c \in OpenCascades :
        /\ Chain(revs, cascades[c].base) \subseteq Chain(revs, cascades[c].ref)
        /\ \A p \in Paragraphs :
              replaced[p] \in Chain(revs, cascades[c].base) =>
                 TextAt(cascades[c].ref)[p] = TextAt(cascades[c].base)[p]

\* What an import of the present plan removed is gone.
ReplacedGone ==
    \A p \in Paragraphs : replaced[p] \in Chain(revs, WorkingRevision) => paras[p] = Absent

\* A uuid that was ever given has been recorded.
Known(p) == \E r \in Revisions : p \in texts[r].touched

GivenKnown ==
    \A p \in Paragraphs :
        \/ paras[p] # Absent
        \/ replaced[p] # NoRevision
        \/ \E r \in Revisions : TextAt(r)[p] # Absent
        => Known(p)

\* Rows at the positions 0, 1, 2 ...
Compact(table, set) == {table[p].position : p \in set} = 0 .. (Cardinality(set) - 1)

\* The rows of a revision that no import has removed.
Live(r) == {p \in Paragraphs : replaced[p] = NoRevision /\ TextAt(r)[p] # Absent}

\* Every revision that has all the imports there were is dense, and so remains
\* whichever of them is worked on next.
DenseAt(r) ==
    (\A p \in Paragraphs : replaced[p] \in Chain(revs, r) \cup {NoRevision}) =>
        Compact(TextAt(r), Live(r))

TextInv ==
    /\ TextTyped
    /\ TextRecorded
    /\ TextHeadWaits
    /\ TextBaseStays
    /\ ReplacedGone
    /\ GivenKnown
    /\ \A r \in 0..Len(revs) : DenseAt(r)

----------------------------------------------------------------------------
(* Paragraphs and their revisions                                          *)

IsTextChange(changes) ==
    /\ DOMAIN changes \subseteq Paragraphs
    /\ \A p \in DOMAIN changes : changes[p] \in ParagraphRow \cup {Absent}

LEMMA TextTableMade ==
    ASSUME NEW t, t = [p \in Paragraphs |-> t[p]],
           \A p \in Paragraphs : t[p] \in ParagraphRow \cup {Absent}
    PROVE  t \in TextTables
BY DEF TextTables

LEMMA TextStateFact ==
    ASSUME NEW log \in Seq(TextRow), NEW r \in 0..Len(log)
    PROVE  /\ Text!StateAt(log, r) \in TextTables
           /\ Text!Chain(log, r) \in SUBSET Nat
<1>1. CASE r = NoRevision
  <2>1. Text!StateAt(log, r) = [p \in Paragraphs |-> Absent]
    BY <1>1 DEF Text!StateAt, Text!EmptyState, Text!NoRevision, NoRevision
  <2>2. Text!Chain(log, r) = {}
    BY <1>1 DEF Text!Chain, Text!NoRevision, NoRevision
  <2>3. QED BY <2>1, <2>2 DEF TextTables
<1>2. CASE r # NoRevision
  <2>1. r \in 1..Len(log)
    BY <1>2 DEF NoRevision
  <2>2. log[r] \in TextRow
    BY <2>1
  <2>3. Text!StateAt(log, r) = log[r].at /\ Text!Chain(log, r) = log[r].chain
    BY <1>2 DEF Text!StateAt, Text!Chain, Text!NoRevision, NoRevision
  <2>4. QED BY <2>2, <2>3 DEF TextRow
<1>3. QED BY <1>1, <1>2

LEMMA TextOverlay ==
    ASSUME NEW t \in TextTables, NEW changes, IsTextChange(changes)
    PROVE  /\ Overlay(t, changes) \in TextTables
           /\ \A p \in Paragraphs :
                 Overlay(t, changes)[p] = IF p \in DOMAIN changes THEN changes[p] ELSE t[p]
<1>1. DOMAIN t = Paragraphs /\ \A p \in Paragraphs : t[p] \in ParagraphRow \cup {Absent}
  BY DEF TextTables
<1>2. Overlay(t, changes) = [p \in Paragraphs |->
                                IF p \in DOMAIN changes THEN changes[p] ELSE t[p]]
  BY <1>1 DEF Overlay
<1>3. \A p \in Paragraphs :
         (IF p \in DOMAIN changes THEN changes[p] ELSE t[p]) \in ParagraphRow \cup {Absent}
  BY <1>1 DEF IsTextChange
<1>4. QED BY <1>2, <1>3 DEF TextTables

\* What a new revision holds of the text, and that the others hold what they
\* held.
TextLogged(log, after, parent, changes) ==
    /\ after \in Seq(TextRow)
    /\ Len(after) = Len(log) + 1
    /\ \A r \in 1..Len(log) : after[r] = log[r]
    /\ \A r \in 0..Len(log) : Text!StateAt(after, r) = Text!StateAt(log, r)
    /\ after[Len(log) + 1].touched = DOMAIN changes
    /\ Text!StateAt(after, Len(log) + 1) \in TextTables
    /\ \A p \in Paragraphs :
          Text!StateAt(after, Len(log) + 1)[p] =
             IF p \in DOMAIN changes THEN changes[p] ELSE Text!StateAt(log, parent)[p]

LEMMA TextLogFact ==
    ASSUME NEW log \in Seq(TextRow), NEW parent \in 0..Len(log),
           NEW changes, IsTextChange(changes),
           NEW after, after = Text!RecordRevision(log, parent, changes)
    PROVE  TextLogged(log, after, parent, changes)
<1> DEFINE new == Text!NewRevision(log, parent, changes)
<1>1. Len(log) \in Nat
  OBVIOUS
<1>2. /\ Text!StateAt(log, parent) \in TextTables
      /\ Text!Chain(log, parent) \in SUBSET Nat
  BY TextStateFact
<1>3. /\ Overlay(Text!StateAt(log, parent), changes) \in TextTables
      /\ \A p \in Paragraphs :
            Overlay(Text!StateAt(log, parent), changes)[p] =
               IF p \in DOMAIN changes THEN changes[p] ELSE Text!StateAt(log, parent)[p]
  BY <1>2, TextOverlay
<1>4. new = [parent |-> parent, touched |-> DOMAIN changes,
             at |-> Overlay(Text!StateAt(log, parent), changes),
             chain |-> Text!Chain(log, parent) \cup {Len(log) + 1}]
  BY DEF Text!NewRevision, Text!Overlay, Overlay
<1>5. DOMAIN changes \in SUBSET Paragraphs
  BY DEF IsTextChange
<1>6. new \in TextRow
  BY <1>1, <1>2, <1>3, <1>4, <1>5 DEF TextRow
<1>7. after = Append(log, new)
  BY DEF Text!RecordRevision
<1>8. new.touched = DOMAIN changes /\ new.at = Overlay(Text!StateAt(log, parent), changes)
  BY <1>4
<1> HIDE DEF new
<1>9. /\ after \in Seq(TextRow)
      /\ Len(after) = Len(log) + 1
      /\ \A r \in 1..Len(log) : after[r] = log[r]
      /\ after[Len(log) + 1] = new
  BY <1>6, <1>7
<1>10. \A r \in 0..Len(log) : Text!StateAt(after, r) = Text!StateAt(log, r)
  BY <1>1, <1>9 DEF Text!StateAt, Text!NoRevision
<1>11. Text!StateAt(after, Len(log) + 1) = new.at
  BY <1>1, <1>9 DEF Text!StateAt, Text!NoRevision
<1>12. QED BY <1>3, <1>8, <1>9, <1>10, <1>11 DEF TextLogged

\* Where a command writes: after the revision that is worked on, or, going past
\* an open cascade, after the head.
WritesAfter(mode, parent) ==
    \/ /\ mode = "cascade" /\ IsOpen
       /\ parent = WorkingRevision /\ WorkingRevision' = Len(revs) + 1
       /\ head' = head
       /\ \A c \in OpenCascades : cascades[c].ref = parent /\ cascades'[c].ref = Len(revs) + 1
    \/ /\ mode = "direct" /\ IsOpen
       /\ parent = head /\ WorkingRevision' = WorkingRevision
       /\ head' = Len(revs) + 1
       /\ cascades' = cascades
    \/ /\ mode = "direct" /\ ~IsOpen
       /\ parent = WorkingRevision /\ WorkingRevision' = Len(revs) + 1

LEMMA WrittenParent ==
    ASSUME Inv, NEW mode \in Modes, Writes(mode),
           NEW parent, parent = revs'[Len(revs')].parent
    PROVE  /\ Len(revs) \in Nat /\ Len(revs') = Len(revs) + 1
           /\ parent \in 0..Len(revs)
           /\ \A r \in 0..Len(revs) : Chain(revs', r) = Chain(revs, r)
           /\ Chain(revs', Len(revs) + 1) = Chain(revs, parent) \cup {Len(revs) + 1}
           /\ OpenCascades' = OpenCascades
           /\ \A c \in CascadeIds : cascades'[c].base = cascades[c].base
           /\ WritesAfter(mode, parent)
<1>1. PICK changes : IsChange(changes) /\ Record(mode, changes) /\ (mode = "cascade" => IsOpen)
  BY DEF Writes
<1>2. /\ revs \in Seq(RevisionRow) /\ Len(revs) \in Nat /\ ChainsSound(revs)
      /\ WorkingRevision \in 0..Len(revs)
      /\ head \in 0..Len(revs)
  BY WorkingRevisionExists DEF Inv, StoreInv, TypeOK, Revisions, NoRevision
<1>3. /\ \A c \in CascadeIds : cascades'[c].base = cascades[c].base
      /\ OpenCascades' = OpenCascades
      /\ IsOpen' <=> IsOpen
      /\ OpenCascade' = OpenCascade
  BY WritesFrame DEF OpenCascade
<1>4. ASSUME NEW from \in 0..Len(revs), revs' = RecordRevision(revs, from, changes)
      PROVE  /\ Len(revs') = Len(revs) + 1
             /\ parent = from
             /\ \A r \in 0..Len(revs) : Chain(revs', r) = Chain(revs, r)
             /\ Chain(revs', Len(revs) + 1) = Chain(revs, from) \cup {Len(revs) + 1}
  <2>1. /\ Len(revs') = Len(revs) + 1
        /\ \A r \in 1..Len(revs) : revs'[r] = revs[r]
        /\ revs'[Len(revs) + 1] = NewRevision(revs, from, changes)
    BY <1>1, <1>2, <1>4, RecordRevisionFact
  <2>2. QED BY <1>2, <2>1 DEF NewRevision, Chain, NoRevision
<1>5. CASE mode = "cascade"
  <2>1. /\ OpenCascade \in OpenCascades
        /\ WorkingRevision = cascades[OpenCascade].ref
    BY <1>1, <1>5 DEF IsOpen, OpenCascade, WorkingRevision
  <2>2. /\ revs' = RecordRevision(revs, WorkingRevision, changes)
        /\ cascades' = [cascades EXCEPT ![OpenCascade].ref = Len(revs) + 1]
        /\ head' = head
    BY <1>1, <1>5, <2>1 DEF Record
  <2>3. cascades'[OpenCascade].ref = Len(revs) + 1
    BY <2>1, <2>2 DEF Inv, TypeOK, CascadeRow, OpenCascades
  <2>4. WorkingRevision' = Len(revs) + 1
    BY <1>1, <1>3, <1>5, <2>3 DEF WorkingRevision
  <2>5. \A c \in OpenCascades : c = OpenCascade
    BY <2>1 DEF Inv, StoreInv, CascadeAnchored
  <2>6. WritesAfter(mode, WorkingRevision)
    BY <1>1, <1>5, <2>1, <2>2, <2>3, <2>4, <2>5 DEF WritesAfter
  <2>7. QED BY <1>2, <1>3, <1>4, <2>2, <2>6
<1>6. CASE mode = "direct"
  <2>1. /\ revs' = RecordRevision(revs, head, changes)
        /\ cascades' = cascades
        /\ head' = Len(revs) + 1
    BY <1>1, <1>6 DEF Record
  <2>2. WritesAfter(mode, head)
    <3>1. CASE IsOpen
      BY <1>3, <1>6, <2>1, <3>1 DEF WritesAfter, WorkingRevision
    <3>2. CASE ~IsOpen
      BY <1>3, <1>6, <2>1, <3>2 DEF WritesAfter, WorkingRevision
    <3>3. QED BY <3>1, <3>2
  <2>3. QED BY <1>2, <1>3, <1>4, <2>1, <2>2
<1>7. QED BY <1>5, <1>6 DEF Modes

----------------------------------------------------------------------------
(* A command that records one revision                                     *)

LEMMA SameCompact ==
    ASSUME NEW set, NEW t, NEW u, \A p \in set : t[p] = u[p], Compact(t, set)
    PROVE  Compact(u, set)
<1>1. {t[p].position : p \in set} = {u[p].position : p \in set}
  OBVIOUS
<1>2. QED BY <1>1 DEF Compact

\* The rows of the present plan, when no import was lost, are those of the
\* revision that is worked on.
AllKept(r) == \A p \in Paragraphs : replaced[p] \in Chain(revs, r) \cup {NoRevision}

StoredIsLive ==
    /\ Live(WorkingRevision) = Stored
    /\ \A p \in Stored : paras[p] = TextAt(WorkingRevision)[p]

LEMMA StoredIsLiveNow ==
    TextRecorded /\ ReplacedGone /\ AllKept(WorkingRevision) => StoredIsLive
<1>1. SUFFICES ASSUME TextRecorded, ReplacedGone, AllKept(WorkingRevision) PROVE StoredIsLive
  OBVIOUS
<1>2. \A p \in Paragraphs : \/ replaced[p] = NoRevision /\ paras[p] = TextAt(WorkingRevision)[p]
                            \/ replaced[p] # NoRevision /\ paras[p] = Absent
  BY <1>1 DEF AllKept, TextRecorded, ReplacedGone, TextAt
<1>3. QED BY <1>2 DEF StoredIsLive, Live, Stored

LEMMA StoredIsLiveNext ==
    (TextRecorded /\ ReplacedGone /\ AllKept(WorkingRevision))' => StoredIsLive'
BY StoredIsLiveNow, PTL

\* A command on the text, or, changing nothing of it, another that writes.
TextWrites(mode, changes) ==
    /\ Writes(mode)
    /\ IsTextChange(changes)
    /\ texts' = Text!RecordRevision(texts, revs'[Len(revs')].parent, changes)
    /\ \A p \in Paragraphs : paras'[p] = IF p \in DOMAIN changes THEN changes[p] ELSE paras[p]
    /\ paras' = [p \in Paragraphs |-> paras'[p]]
    /\ \A p \in DOMAIN changes : p \in Stored \/ p \in Unused
    /\ DOMAIN changes # {} => (mode = "direct" => ~IsOpen)
    /\ DOMAIN changes # {} /\ Compact(paras, Stored) => Compact(paras', Stored')
    /\ UNCHANGED replaced

LEMMA TextWritesKeep ==
    ASSUME Inv, TextInv, NEW mode \in Modes, NEW changes, TextWrites(mode, changes)
    PROVE  TextInv'
<1>0. PICK L \in Nat : L = Len(revs)
  BY DEF Inv, TypeOK
<1> DEFINE parent == revs'[Len(revs')].parent
<1>1. /\ Writes(mode) /\ IsTextChange(changes)
      /\ texts' = Text!RecordRevision(texts, parent, changes)
      /\ \A p \in Paragraphs : paras'[p] = IF p \in DOMAIN changes THEN changes[p] ELSE paras[p]
      /\ paras' = [p \in Paragraphs |-> paras'[p]]
      /\ \A p \in DOMAIN changes : p \in Stored \/ p \in Unused
      /\ DOMAIN changes # {} => (mode = "direct" => ~IsOpen)
      /\ DOMAIN changes # {} /\ Compact(paras, Stored) => Compact(paras', Stored')
      /\ replaced' = replaced
  BY DEF TextWrites
<1>2. /\ L \in Nat /\ Len(revs') = L + 1
      /\ parent \in 0..L
      /\ \A r \in 0..L : Chain(revs', r) = Chain(revs, r)
      /\ Chain(revs', L + 1) = Chain(revs, parent) \cup {L + 1}
      /\ OpenCascades' = OpenCascades
      /\ \A c \in CascadeIds : cascades'[c].base = cascades[c].base
      /\ WritesAfter(mode, parent)
  <2>1. /\ Len(revs) \in Nat /\ Len(revs') = Len(revs) + 1
        /\ parent \in 0..Len(revs)
        /\ \A r \in 0..Len(revs) : Chain(revs', r) = Chain(revs, r)
        /\ Chain(revs', Len(revs) + 1) = Chain(revs, parent) \cup {Len(revs) + 1}
        /\ OpenCascades' = OpenCascades
        /\ \A c \in CascadeIds : cascades'[c].base = cascades[c].base
        /\ WritesAfter(mode, parent)
    BY <1>1, WrittenParent
  <2>2. QED BY <1>0, <2>1
<1> HIDE DEF parent
<1>3. /\ texts \in Seq(TextRow) /\ Len(texts) = L
      /\ paras \in TextTables /\ replaced \in [Paragraphs -> 0..L]
  BY <1>0 DEF TextInv, TextTyped
<1>4. TextLogged(texts, texts', parent, changes)
  <2>1. parent \in 0..Len(texts)
    BY <1>2, <1>3
  <2>2. QED BY <1>1, <1>3, <2>1, TextLogFact
<1>5. /\ texts' \in Seq(TextRow) /\ Len(texts') = L + 1
      /\ \A r \in 1..L : texts'[r] = texts[r]
      /\ \A r \in 0..L : TextAt(r)' = TextAt(r)
      /\ texts'[L + 1].touched = DOMAIN changes
      /\ TextAt(L + 1)' \in TextTables
      /\ \A p \in Paragraphs : TextAt(L + 1)'[p] =
            IF p \in DOMAIN changes THEN changes[p] ELSE TextAt(parent)[p]
  <2>1. \A r : TextAt(r)' = Text!StateAt(texts', r) /\ TextAt(r) = Text!StateAt(texts, r)
    BY DEF TextAt, Text!StateAt
  <2>2. QED BY <1>3, <1>4, <2>1 DEF TextLogged
<1>6. /\ WorkingRevision \in 0..L /\ head \in 0..L
      /\ \A r \in 0..L : Chain(revs, r) \subseteq 1..L
      /\ \A c \in OpenCascades : /\ c \in CascadeIds
                                 /\ cascades[c].base \in 0..L /\ cascades[c].ref \in 0..L
  BY <1>0, WorkingRevisionExists, RevisionFact
     DEF Inv, StoreInv, TypeOK, Revisions, NoRevision, RefsExist, OpenCascades
<1>7. \A p \in Paragraphs : replaced[p] \in 0..L
  BY <1>3
<1>8. DOMAIN changes # {} => parent = WorkingRevision /\ WorkingRevision' = L + 1
  BY <1>0, <1>1, <1>2 DEF WritesAfter, Modes
\* What is changed was not removed by an import of the present plan.
<1>9. \A p \in DOMAIN changes : replaced[p] \notin Chain(revs, WorkingRevision)
  <2>1. TAKE p \in DOMAIN changes
  <2>2. p \in Paragraphs
    BY <1>1 DEF IsTextChange
  <2>3. CASE p \in Stored
    BY <2>2, <2>3 DEF TextInv, ReplacedGone, Stored
  <2>4. CASE p \in Unused
    <3>1. replaced[p] = NoRevision
      BY <2>2, <2>4 DEF TextInv, GivenKnown, Known, Unused
    <3>2. QED BY <1>6, <3>1 DEF NoRevision
  <2>5. QED BY <1>1, <2>3, <2>4
<1>10. TextTyped'
  <2>1. \A p \in Paragraphs : paras'[p] \in ParagraphRow \cup {Absent}
    BY <1>1, <1>3 DEF IsTextChange, TextTables
  <2>2. paras' \in TextTables
    BY <1>1, <2>1, TextTableMade
  <2>3. replaced' \in [Paragraphs -> 0..(L + 1)]
    BY <1>1, <1>2, <1>3
  <2>4. QED BY <1>2, <1>5, <2>2, <2>3 DEF TextTyped
<1>11. \/ WorkingRevision' = L + 1 /\ parent = WorkingRevision
       \/ WorkingRevision' = WorkingRevision /\ DOMAIN changes = {}
  BY <1>0, <1>1, <1>2 DEF WritesAfter
<1>12. TextRecorded'
  <2>1. SUFFICES ASSUME NEW p \in Paragraphs, replaced'[p] = NoRevision
                 PROVE  paras'[p] = TextAt(WorkingRevision)'[p]
    BY DEF TextRecorded, TextAt
  <2>2. paras[p] = TextAt(WorkingRevision)[p]
    BY <1>1, <2>1 DEF TextInv, TextRecorded, TextAt
  <2>3. CASE WorkingRevision' = L + 1 /\ parent = WorkingRevision
    <3>1. TextAt(WorkingRevision)' = TextAt(L + 1)'
      BY <1>2, <2>3 DEF TextAt
    <3>2. QED BY <1>1, <1>5, <2>2, <2>3, <3>1
  <2>4. CASE WorkingRevision' = WorkingRevision /\ DOMAIN changes = {}
    <3>1. TextAt(WorkingRevision)' = TextAt(WorkingRevision)
      BY <1>5, <1>6, <2>4 DEF TextAt
    <3>2. QED BY <1>1, <2>2, <2>4, <3>1
  <2>5. QED BY <1>11, <2>3, <2>4
<1>13. ReplacedGone'
  <2>1. SUFFICES ASSUME NEW p \in Paragraphs, replaced[p] \in Chain(revs', WorkingRevision')
                 PROVE  paras'[p] = Absent
    BY <1>1 DEF ReplacedGone
  <2>2. replaced[p] \in Chain(revs, WorkingRevision)
    <3>1. CASE WorkingRevision' = L + 1 /\ parent = WorkingRevision
      BY <1>2, <1>7, <2>1, <3>1
    <3>2. CASE WorkingRevision' = WorkingRevision
      BY <1>2, <1>6, <2>1, <3>2
    <3>3. QED BY <1>11, <3>1, <3>2
  <2>3. paras[p] = Absent /\ p \notin DOMAIN changes
    BY <1>9, <2>2 DEF TextInv, ReplacedGone
  <2>4. QED BY <1>1, <2>3
<1>14. TextHeadWaits'
  <2>1. SUFFICES ASSUME NEW c \in OpenCascades
                 PROVE  /\ TextAt(head)' = TextAt(cascades[c].base)
                        /\ \A p \in Paragraphs : replaced[p] \in Chain(revs', head') =>
                              replaced[p] \in Chain(revs, cascades[c].base)
    BY <1>1, <1>2, <1>5, <1>6 DEF TextHeadWaits, TextAt
  <2>2. /\ TextAt(head) = TextAt(cascades[c].base)
        /\ \A p \in Paragraphs : replaced[p] \in Chain(revs, head) =>
              replaced[p] \in Chain(revs, cascades[c].base)
    BY DEF TextInv, TextHeadWaits
  <2>3. IsOpen
    BY DEF IsOpen
  <2>4. CASE mode = "cascade"
    <3>1. head' = head
      BY <1>0, <1>2, <2>4 DEF WritesAfter
    <3>2. TextAt(head)' = TextAt(head)
      BY <1>5, <1>6, <3>1 DEF TextAt
    <3>3. Chain(revs', head') = Chain(revs, head)
      BY <1>2, <1>6, <3>1
    <3>4. QED BY <2>2, <3>2, <3>3
  <2>5. CASE mode = "direct"
    <3>1. parent = head /\ head' = L + 1 /\ DOMAIN changes = {}
      BY <1>0, <1>1, <1>2, <2>3, <2>5 DEF WritesAfter
    <3>2. TextAt(head)' = TextAt(L + 1)'
      BY <1>2, <3>1 DEF TextAt
    <3>3. \A p \in Paragraphs : TextAt(L + 1)'[p] = TextAt(head)[p]
      BY <1>5, <3>1
    <3>4. TextAt(head) \in TextTables
      BY <1>3, <1>6, TextStateFact DEF TextAt
    <3>5. TextAt(L + 1)' = TextAt(head)
      BY <1>5, <3>3, <3>4 DEF TextTables
    <3>6. \A p \in Paragraphs : replaced[p] \in Chain(revs', head') =>
                                   replaced[p] \in Chain(revs, head)
      BY <1>2, <1>7, <3>1
    <3>7. QED BY <2>2, <3>2, <3>5, <3>6
  <2>6. QED BY <2>4, <2>5 DEF Modes
<1>15. TextBaseStays'
  <2>1. SUFFICES ASSUME NEW c \in OpenCascades
                 PROVE  /\ Chain(revs, cascades[c].base) \subseteq Chain(revs', cascades'[c].ref)
                        /\ \A p \in Paragraphs :
                              replaced[p] \in Chain(revs, cascades[c].base) =>
                                 TextAt(cascades[c].ref)'[p] = TextAt(cascades[c].base)[p]
    <3>1. \A c \in OpenCascades : /\ cascades'[c].base = cascades[c].base
                                  /\ Chain(revs', cascades'[c].base) = Chain(revs, cascades[c].base)
                                  /\ TextAt(cascades[c].base)' = TextAt(cascades[c].base)
      BY <1>2, <1>5, <1>6 DEF TextAt
    <3>2. QED BY <1>1, <1>2, <2>1, <3>1 DEF TextBaseStays
  <2>2. /\ Chain(revs, cascades[c].base) \subseteq Chain(revs, cascades[c].ref)
        /\ \A p \in Paragraphs :
              replaced[p] \in Chain(revs, cascades[c].base) =>
                 TextAt(cascades[c].ref)[p] = TextAt(cascades[c].base)[p]
    BY DEF TextInv, TextBaseStays
  <2>3. IsOpen
    BY DEF IsOpen
  <2>4. CASE mode = "cascade"
    <3>1. parent = WorkingRevision /\ cascades[c].ref = parent /\ cascades'[c].ref = L + 1
      BY <1>0, <1>2, <2>4 DEF WritesAfter
    <3>2. TextAt(cascades[c].ref)' = TextAt(L + 1)'
      BY <1>2, <3>1 DEF TextAt
    <3>3. ASSUME NEW p \in Paragraphs, replaced[p] \in Chain(revs, cascades[c].base)
          PROVE  TextAt(cascades[c].ref)'[p] = TextAt(cascades[c].base)[p]
      <4>1. p \notin DOMAIN changes
        BY <1>9, <2>2, <3>1, <3>3
      <4>2. QED BY <1>5, <2>2, <3>1, <3>2, <3>3, <4>1
    <3>4. QED BY <1>2, <2>2, <3>1, <3>3
  <2>5. CASE mode = "direct"
    <3>1. cascades' = cascades
      BY <1>2, <2>3, <2>5 DEF WritesAfter
    <3>2. TextAt(cascades[c].ref)' = TextAt(cascades[c].ref)
      BY <1>5, <1>6, <3>1 DEF TextAt
    <3>3. QED BY <1>2, <1>6, <2>2, <3>1, <3>2
  <2>6. QED BY <2>4, <2>5 DEF Modes
<1>16. GivenKnown'
  <2>1. \A p \in Paragraphs : Known(p) => Known(p)'
    BY <1>0, <1>2, <1>5 DEF Known, Revisions
  <2>2. \A p \in DOMAIN changes : Known(p)'
    <3>1. L + 1 \in Revisions'
      BY <1>0, <1>2 DEF Revisions
    <3>2. QED BY <1>5, <3>1 DEF Known
  <2>3. ASSUME NEW p \in Paragraphs, p \notin DOMAIN changes,
               \/ paras'[p] # Absent
               \/ replaced'[p] # NoRevision
               \/ \E r \in Revisions' : TextAt(r)'[p] # Absent
        PROVE  Known(p)
    <3>1. \/ paras[p] # Absent \/ replaced[p] # NoRevision
          \/ \E r \in 0..L : TextAt(r)[p] # Absent
      <4>1. ASSUME NEW r \in Revisions', TextAt(r)'[p] # Absent
            PROVE  \E q \in 0..L : TextAt(q)[p] # Absent
        <5>1. r \in 0..L \/ r = L + 1
          BY <1>0, <1>2 DEF Revisions
        <5>2. QED BY <1>2, <1>5, <2>3, <4>1, <5>1
      <4>2. QED BY <1>1, <2>3, <4>1
    <3>2. TextAt(0)[p] = Absent
      BY DEF TextAt, Text!StateAt, Text!EmptyState, Text!NoRevision
    <3>3. \A r \in 0..L : r # 0 => r \in Revisions
      BY <1>0, <1>2 DEF Revisions
    <3>4. QED BY <3>1, <3>2, <3>3 DEF TextInv, GivenKnown
  <2>4. QED BY <2>1, <2>2, <2>3 DEF GivenKnown, TextAt
<1>17. \A r \in 0..L : Live(r)' = Live(r) /\ (AllKept(r)' <=> AllKept(r))
  BY <1>1, <1>2, <1>5 DEF Live, AllKept, TextAt
<1>18. ASSUME NEW r \in 0..L PROVE DenseAt(r)'
  <2>1. DenseAt(r) /\ TextAt(r)' = TextAt(r)
    BY <1>0, <1>5 DEF TextInv
  <2>2. QED BY <1>17, <2>1 DEF DenseAt, AllKept, Compact, TextAt
<1>19. DenseAt(L + 1)'
  <2>1. SUFFICES ASSUME AllKept(L + 1)' PROVE Compact(TextAt(L + 1)', Live(L + 1)')
    BY <1>2 DEF DenseAt, AllKept, Compact, Live, TextAt
  <2>2. AllKept(parent)
    <3>1. \A p \in Paragraphs : replaced[p] \in Chain(revs', L + 1) \cup {NoRevision}
      BY <1>1, <1>2, <2>1 DEF AllKept
    <3>2. QED BY <1>2, <1>7, <3>1 DEF AllKept
  <2>3. Compact(TextAt(parent), Live(parent))
    BY <1>0, <1>2, <2>2 DEF TextInv, DenseAt, AllKept
  <2>4. CASE DOMAIN changes = {}
    <3>1. \A p \in Paragraphs : TextAt(L + 1)'[p] = TextAt(parent)[p]
      BY <1>5, <2>4
    <3>2. Live(L + 1)' = Live(parent)
      BY <1>1, <1>2, <3>1 DEF Live, TextAt
    <3>3. \A p \in Live(parent) : TextAt(parent)[p] = TextAt(L + 1)'[p]
      BY <3>1 DEF Live
    <3>4. Compact(TextAt(L + 1)', Live(parent))
      BY <2>3, <3>3, SameCompact
    <3>5. QED BY <3>2, <3>4
  <2>5. CASE DOMAIN changes # {}
    <3>1. parent = WorkingRevision /\ WorkingRevision' = L + 1
      BY <1>8, <2>5
    <3>2. Live(WorkingRevision) = Stored /\ \A p \in Stored : paras[p] = TextAt(WorkingRevision)[p]
      BY <2>2, <3>1, StoredIsLiveNow DEF TextInv, StoredIsLive
    <3>3. \A p \in Stored : TextAt(WorkingRevision)[p] = paras[p]
      BY <3>2
    <3>4. Compact(paras, Stored)
      BY <2>3, <3>1, <3>2, <3>3, SameCompact
    <3>5. Compact(paras', Stored')
      BY <1>1, <2>5, <3>4
    <3>6. AllKept(WorkingRevision)'
      BY <1>2, <2>1, <3>1 DEF AllKept
    <3>7. StoredIsLive'
      BY <1>12, <1>13, <3>6, StoredIsLiveNext
    <3>8. TextAt(WorkingRevision)' = TextAt(L + 1)' /\ Live(WorkingRevision)' = Live(L + 1)'
      BY <1>2, <3>1 DEF TextAt, Live
    <3>9. Live(L + 1)' = Stored' /\ \A p \in Stored' : paras'[p] = TextAt(L + 1)'[p]
      BY <3>7, <3>8 DEF StoredIsLive
    <3>10. Compact(TextAt(L + 1)', Stored')
      BY <3>5, <3>9, SameCompact
    <3>11. QED BY <3>9, <3>10
  <2>6. QED BY <2>4, <2>5
<1>20. \A r \in 0..Len(revs') : DenseAt(r)'
  BY <1>2, <1>18, <1>19
<1>21. QED BY <1>10, <1>12, <1>13, <1>14, <1>15, <1>16, <1>20 DEF TextInv, DenseAt, TextAt, Live, Compact

----------------------------------------------------------------------------
(* Places in a finite set of numbers                                       *)

Place(set, p) == Cardinality({q \in set : q < p})

LEMMA Places ==
    ASSUME NEW set, set \subseteq Nat, IsFiniteSet(set)
    PROVE  /\ Cardinality(set) \in Nat
           /\ \A p \in set : Place(set, p) \in 0..(Cardinality(set) - 1)
           /\ \A p, q \in set : Place(set, p) = Place(set, q) => p = q
           /\ \A k \in 0..(Cardinality(set) - 1) : \E p \in set : Place(set, p) = k
<1> DEFINE R == {e \in set \X set : e[1] < e[2]}
           N == Cardinality(set)
<1>1. /\ IsFiniteSet(set)
      /\ \A p, q, r \in set : <<p, q>> \in R /\ <<q, r>> \in R => <<p, r>> \in R
      /\ \A p \in set : <<p, p>> \notin R
      /\ \A p, q \in set : p = q \/ <<p, q>> \in R \/ <<q, p>> \in R
  <2>1. \A p \in set : p \in Nat
    OBVIOUS
  <2>2. /\ \A p, q, r \in set : p < q /\ q < r => p < r
        /\ \A p \in set : ~(p < p)
        /\ \A p, q \in set : p = q \/ p < q \/ q < p
    BY <2>1
  <2>3. \A p, q \in set : <<p, q>> \in R <=> p < q
    OBVIOUS
  <2> HIDE DEF R
  <2>4. QED BY <2>2, <2>3
<1>2. \A p \in set : Preceding(set, R, p) = {q \in set : q < p}
  BY DEF Preceding
<1> HIDE DEF R, N
<1>3. /\ N \in Nat
      /\ \A p \in set : \E i \in 1..N : Cardinality(Preceding(set, R, p)) = i - 1
      /\ \A p, q \in set : Cardinality(Preceding(set, R, p))
                              = Cardinality(Preceding(set, R, q)) => p = q
      /\ \A i \in 1..N : \E p \in set : Cardinality(Preceding(set, R, p)) = i - 1
  <2> DEFINE P == set
  <2>1. /\ IsFiniteSet(P)
        /\ \A p, q, r \in P : <<p, q>> \in R /\ <<q, r>> \in R => <<p, r>> \in R
        /\ \A p \in P : <<p, p>> \notin R
        /\ \A p, q \in P : p = q \/ <<p, q>> \in R \/ <<q, p>> \in R
    BY <1>1
  <2> HIDE DEF P
  <2>2. /\ Cardinality(P) \in Nat
        /\ \A p \in P : \E i \in 1..Cardinality(P) : Cardinality(Preceding(P, R, p)) = i - 1
        /\ \A p, q \in P : Cardinality(Preceding(P, R, p))
                              = Cardinality(Preceding(P, R, q)) => p = q
        /\ \A i \in 1..Cardinality(P) : \E p \in P : Cardinality(Preceding(P, R, p)) = i - 1
    BY <2>1, NumbersInOrder
  <2>3. QED BY <2>2 DEF N, P
<1>4. \A p \in set : Place(set, p) = Cardinality(Preceding(set, R, p))
  BY <1>2 DEF Place
<1>5. /\ \A p \in set : Place(set, p) \in 0..(N - 1)
      /\ \A p, q \in set : Place(set, p) = Place(set, q) => p = q
  BY <1>3, <1>4
<1>6. ASSUME NEW k \in 0..(N - 1) PROVE \E p \in set : Place(set, p) = k
  <2>1. k + 1 \in 1..N /\ (k + 1) - 1 = k
    BY <1>3
  <2>2. QED BY <1>3, <1>4, <2>1
<1>7. QED BY <1>3, <1>5, <1>6 DEF N

\* The n least members keep their places, which are the first ones.
LEMMA LeastPlaces ==
    ASSUME NEW set, set \subseteq Nat, IsFiniteSet(set), NEW n \in Nat
    PROVE  /\ Least(set, n) = {p \in set : Place(set, p) < n}
           /\ IsFiniteSet(Least(set, n))
           /\ \A p \in Least(set, n) : Place(Least(set, n), p) = Place(set, p)
           /\ Cardinality(Least(set, n)) \in 0..n
           /\ n <= Cardinality(set) => Cardinality(Least(set, n)) = n
<1> DEFINE D == Least(set, n)
<1>1. /\ Cardinality(set) \in Nat
      /\ \A p \in set : Place(set, p) \in 0..(Cardinality(set) - 1)
      /\ \A k \in 0..(Cardinality(set) - 1) : \E p \in set : Place(set, p) = k
  BY Places
<1>2. D = {p \in set : Place(set, p) < n}
  <2>1. ASSUME NEW p \in set
        PROVE  Cardinality({q \in set : q <= p}) = Place(set, p) + 1
    <3>0. p \in Nat /\ \A q \in set : q \in Nat
      BY <2>1
    <3>1. {q \in set : q <= p} = {q \in set : q < p} \cup {p} /\ p \notin {q \in set : q < p}
      <4>1. ~(p < p) /\ \A q \in set : q <= p <=> q < p \/ q = p
        BY <3>0
      <4>2. QED BY <2>1, <4>1
    <3>2. IsFiniteSet({q \in set : q < p})
      BY FS_Subset
    <3>3. QED BY <3>1, <3>2, FS_AddElement DEF Place
  <2>2. \A p \in set : Place(set, p) + 1 <= n <=> Place(set, p) < n
    BY <1>1
  <2>3. QED BY <2>1, <2>2 DEF Least
<1> HIDE DEF D
<1>3. IsFiniteSet(D) /\ D \subseteq set
  BY <1>2, FS_Subset
<1>4. ASSUME NEW p \in D PROVE Place(D, p) = Place(set, p)
  <2>1. ASSUME NEW q \in set, q < p PROVE q \in D
    <3>0. p \in Nat /\ \A x \in set : x \in Nat
      BY <1>3
    <3>1. {x \in set : x < q} \subseteq {x \in set : x < p}
      <4>1. \A x \in set : x < q => x < p
        BY <1>3, <2>1, <3>0
      <4>2. QED BY <4>1
    <3>2. IsFiniteSet({x \in set : x < p})
      BY FS_Subset
    <3>3. Place(set, q) <= Place(set, p)
      BY <3>1, <3>2, FS_Subset DEF Place
    <3>4. QED BY <1>1, <1>2, <2>1, <3>3
  <2>2. {q \in D : q < p} = {q \in set : q < p}
    BY <1>3, <2>1
  <2>3. QED BY <2>2 DEF Place
<1>5. /\ Cardinality(D) \in Nat
      /\ \A p \in D : Place(D, p) \in 0..(Cardinality(D) - 1)
      /\ \A k \in 0..(Cardinality(D) - 1) : \E p \in D : Place(D, p) = k
  BY <1>3, Places
<1>6. Cardinality(D) \in 0..n
  <2>1. SUFFICES ASSUME n < Cardinality(D) PROVE FALSE
    BY <1>5
  <2>2. PICK p \in D : Place(D, p) = n
    BY <1>5, <2>1
  <2>3. QED BY <1>2, <1>4, <2>2
<1>7. ASSUME n <= Cardinality(set), Cardinality(D) # n PROVE FALSE
  <2>1. Cardinality(D) \in 0..(Cardinality(set) - 1) /\ Cardinality(D) < n
    BY <1>1, <1>6, <1>7
  <2>2. PICK p \in set : Place(set, p) = Cardinality(D)
    BY <1>1, <2>1
  <2>3. p \in D
    BY <1>2, <2>1, <2>2
  <2>4. QED BY <1>4, <1>5, <2>2, <2>3
<1>8. QED BY <1>2, <1>3, <1>4, <1>6, <1>7 DEF D

LEMMA GreatestNumber ==
    ASSUME NEW F, F \subseteq Nat, IsFiniteSet(F), F # {}
    PROVE  /\ Max(F) \in F
           /\ \A n \in F : n <= Max(F)
<1> DEFINE Upward(m) == {k \in F : m <= k}
           G == {Upward(m) : m \in F}
<1>1. PICK A \in G : \A B \in G : B \subseteq A => B = A
  <2>1. IsFiniteSet(F) /\ G \subseteq SUBSET F /\ G # {}
    OBVIOUS
  <2> DEFINE I == F
  <2>2. IsFiniteSet(I) /\ G \subseteq SUBSET I /\ G # {}
    BY <2>1
  <2> HIDE DEF G, I
  <2>3. QED BY <2>2, LeastSet
<1>2. PICK m \in F : A = Upward(m)
  OBVIOUS
<1>3. ASSUME NEW n \in F PROVE n <= m
  <2>1. SUFFICES ASSUME m < n PROVE FALSE
    BY <1>3
  <2>2. Upward(n) \in G /\ Upward(n) \subseteq Upward(m) /\ m \in Upward(m) /\ m \notin Upward(n)
    <3>1. m \in Nat /\ n \in Nat /\ \A k \in F : k \in Nat
      OBVIOUS
    <3>2. ~(n <= m) /\ m <= m /\ \A k \in F : n <= k => m <= k
      BY <2>1, <3>1
    <3>3. QED BY <3>2
  <2>3. QED BY <1>1, <1>2, <2>2
<1>4. \E x \in F : \A y \in F : x >= y
  BY <1>3
<1>5. Max(F) = CHOOSE x \in F : \A y \in F : x >= y
  BY DEF Max
<1>6. Max(F) \in F /\ \A y \in F : Max(F) >= y
  BY <1>4, <1>5
<1>7. QED BY <1>6

----------------------------------------------------------------------------
(* The commands on paragraphs                                              *)

\* A table that shares the rows outside a set, and whose rows in it were there
\* or are new.
LEMMA WriteTextWrites ==
    ASSUME Inv, NEW mode \in Modes, Admitted(mode),
           NEW table \in TextTables, NEW set \in SUBSET Paragraphs,
           WriteText(mode, table, set),
           \A p \in Paragraphs \ set : table[p] = paras[p],
           \A p \in set : p \in Stored \/ p \in Unused,
           Compact(paras, Stored) => Compact(table, {p \in Paragraphs : table[p] # Absent})
    PROVE  \E changes : TextWrites(mode, changes)
<1> DEFINE changes == Snapshot(table, set)
<1>1. /\ paras' = table
      /\ Record(mode, <<>>)
      /\ texts' = Text!RecordRevision(texts, revs'[Len(revs')].parent, changes)
      /\ UNCHANGED <<rows, planStatus, completed, bypassed>>
      /\ UNCHANGED replaced
  BY DEF WriteText, RecordText
<1>2. AdmitCascade(mode)
  BY DEF Admitted, AdmitPlan
<1>3. Writes(mode)
  <2> DEFINE none == <<>>
  <2>1. DOMAIN none = {}
    OBVIOUS
  <2> HIDE DEF none
  <2>2. IsChange(none)
    BY <2>1 DEF IsChange
  <2>3. rows' \in Tables /\ \A e \in Entities : AgreesAt(rows', rows, e)
    BY <1>1 DEF AgreesAt, Inv, TypeOK
  <2>4. /\ \A e \in DOMAIN none : rows'[e] = none[e]
        /\ \A e \in Entities \ DOMAIN none : AgreesAt(rows', rows, e)
    BY <2>1, <2>3
  <2>5. Record(mode, none)
    BY <1>1 DEF none
  <2>6. QED BY <1>1, <1>2, <2>2, <2>3, <2>4, <2>5, AdmittedWrites
<1>4. DOMAIN changes = set /\ \A p \in set : changes[p] = table[p]
  BY DEF Snapshot
<1> HIDE DEF changes
<1>5. IsTextChange(changes)
  BY <1>4 DEF IsTextChange, TextTables
<1>6. \A p \in Paragraphs : paras'[p] = IF p \in DOMAIN changes THEN changes[p] ELSE paras[p]
  BY <1>1, <1>4
<1>7. paras' = [p \in Paragraphs |-> paras'[p]]
  BY <1>1 DEF TextTables
<1>8. mode = "direct" => ~IsOpen
  BY <1>2 DEF AdmitCascade
<1>9. Stored' = {p \in Paragraphs : table[p] # Absent}
  BY <1>1 DEF Stored
<1>10. Compact(paras, Stored) => Compact(paras', Stored')
  BY <1>1, <1>9
<1>11. TextWrites(mode, changes)
  BY <1>1, <1>3, <1>4, <1>5, <1>6, <1>7, <1>8, <1>10 DEF TextWrites
<1>12. QED BY <1>11

LEMMA StoredFact ==
    ASSUME TextTyped
    PROVE  /\ Stored \subseteq Paragraphs /\ IsFiniteSet(Stored)
           /\ Cardinality(Stored) \in Nat
           /\ \A p \in Stored : /\ paras[p] \in ParagraphRow
                                /\ paras[p].position \in Nat
<1>1. Stored \subseteq Paragraphs
  BY DEF Stored
<1>2. IsFiniteSet(Stored)
  BY <1>1, ParagraphsAssumption, FS_Subset
<1>3. \A p \in Stored : paras[p] \in ParagraphRow
  BY DEF TextTyped, TextTables, Stored
<1>4. \A p \in Stored : paras[p].position \in Nat
  BY <1>3 DEF ParagraphRow
<1>5. QED BY <1>1, <1>2, <1>3, <1>4, FS_CardinalityType

\* Rows that make room or close a gap stay rows.
LEMMA ShiftedFact ==
    ASSUME TextTyped, NEW set, set \subseteq Stored, NEW delta \in {1, -1},
           \A p \in set : paras[p].position + delta \in Nat
    PROVE  /\ Shifted(set, delta) \in TextTables
           /\ \A p \in Paragraphs \ set : Shifted(set, delta)[p] = paras[p]
           /\ \A p \in set : /\ Shifted(set, delta)[p] # Absent
                             /\ Shifted(set, delta)[p].position = paras[p].position + delta
<1>1. /\ Stored \subseteq Paragraphs
      /\ \A p \in Stored : paras[p] \in ParagraphRow
  BY StoredFact
<1>2. ASSUME NEW p \in set
      PROVE  /\ [paras[p] EXCEPT !.position = @ + delta] \in ParagraphRow
             /\ [paras[p] EXCEPT !.position = @ + delta].position = paras[p].position + delta
  <2>1. paras[p] \in ParagraphRow /\ paras[p].position + delta \in Nat
    BY <1>1
  <2>2. QED BY <2>1 DEF ParagraphRow
<1>3. \A p \in Paragraphs : paras[p] \in ParagraphRow \cup {Absent}
  BY DEF TextTyped, TextTables
<1>4. \A p \in Paragraphs :
         Shifted(set, delta)[p] = IF p \in set THEN [paras[p] EXCEPT !.position = @ + delta]
                                  ELSE paras[p]
  BY DEF Shifted
<1>5. Shifted(set, delta) = [p \in Paragraphs |-> Shifted(set, delta)[p]]
  BY DEF Shifted
<1>6. \A p \in Paragraphs : Shifted(set, delta)[p] \in ParagraphRow \cup {Absent}
  BY <1>2, <1>3, <1>4
<1>7. Shifted(set, delta) \in TextTables
  BY <1>5, <1>6, TextTableMade
<1>8. ASSUME NEW p \in set
      PROVE  /\ Shifted(set, delta)[p] # Absent
             /\ Shifted(set, delta)[p].position = paras[p].position + delta
  <2>1. p \in Paragraphs
    BY <1>1
  <2>2. QED BY <1>2, <1>4, <2>1, AbsentTextAssumption
<1>9. QED BY <1>1, <1>4, <1>7, <1>8

LEMMA UpdateWrites ==
    ASSUME Inv, TextInv, NEW mode \in Modes, NEW p \in Paragraphs, NEW row \in ParagraphRow,
           Admitted(mode), p \in Stored, row.position = paras[p].position,
           WriteText(mode, [paras EXCEPT ![p] = row], {p})
    PROVE  \E changes : TextWrites(mode, changes)
<1> DEFINE table == [paras EXCEPT ![p] = row]
<1>1. paras \in TextTables
  BY DEF TextInv, TextTyped
<1>2. /\ table \in TextTables
      /\ table[p] = row
      /\ \A q \in Paragraphs \ {p} : table[q] = paras[q]
  BY <1>1 DEF TextTables
<1>3. WriteText(mode, table, {p})
  OBVIOUS
<1> HIDE DEF table
<1>4. {q \in Paragraphs : table[q] # Absent} = Stored
  BY <1>2, AbsentTextAssumption DEF Stored
<1>5. \A q \in Stored : table[q].position = paras[q].position
  BY <1>2 DEF Stored
<1>6. {table[q].position : q \in Stored} = {paras[q].position : q \in Stored}
  BY <1>5
<1>7. Compact(paras, Stored) => Compact(table, {q \in Paragraphs : table[q] # Absent})
  BY <1>4, <1>6 DEF Compact
<1>8. {p} \in SUBSET Paragraphs
  OBVIOUS
<1>9. QED BY <1>2, <1>3, <1>7, <1>8, WriteTextWrites

LEMMA ParaUpdateWrites ==
    ASSUME Inv, TextInv, NEW mode \in Modes, NEW p \in Paragraphs, NEW text \in Texts,
           ParaUpdate(p, text, mode)
    PROVE  \E changes : TextWrites(mode, changes)
<1> DEFINE row == [paras[p] EXCEPT !.text = text]
<1>1. Admitted(mode) /\ p \in Binding
      /\ WriteText(mode, [paras EXCEPT ![p].text = text], {p})
  BY DEF ParaUpdate
<1>2. p \in Stored
  BY <1>1 DEF Binding
<1>3. paras[p] \in ParagraphRow
  BY <1>2, StoredFact DEF TextInv
<1>4. row \in ParagraphRow /\ row.position = paras[p].position
  BY <1>3 DEF ParagraphRow
<1>5. [paras EXCEPT ![p].text = text] = [paras EXCEPT ![p] = row]
  OBVIOUS
<1> HIDE DEF row
<1>6. WriteText(mode, [paras EXCEPT ![p] = row], {p})
  BY <1>1, <1>5
<1>7. QED BY <1>1, <1>2, <1>4, <1>6, UpdateWrites

LEMMA ParaMarkWrites ==
    ASSUME Inv, TextInv, NEW mode \in Modes, NEW p \in Paragraphs, NEW binding \in BOOLEAN,
           ParaMarkNonBinding(p, binding, mode)
    PROVE  \E changes : TextWrites(mode, changes)
<1> DEFINE row == [paras[p] EXCEPT !.binding = binding]
<1>1. Admitted(mode) /\ p \in Stored
      /\ WriteText(mode, [paras EXCEPT ![p].binding = binding], {p})
  BY DEF ParaMarkNonBinding
<1>2. paras[p] \in ParagraphRow
  BY <1>1, StoredFact DEF TextInv
<1>3. row \in ParagraphRow /\ row.position = paras[p].position
  BY <1>2 DEF ParagraphRow
<1>4. [paras EXCEPT ![p].binding = binding] = [paras EXCEPT ![p] = row]
  OBVIOUS
<1> HIDE DEF row
<1>5. WriteText(mode, [paras EXCEPT ![p] = row], {p})
  BY <1>1, <1>4
<1>6. QED BY <1>1, <1>3, <1>5, UpdateWrites

\* Making room at a place and closing a gap leave no gaps.
LEMMA RoomMade ==
    ASSUME NEW set, IsFiniteSet(set), NEW t, NEW u, NEW new, new \notin set,
           Compact(t, set), NEW x \in 0..Cardinality(set),
           \A p \in set : u[p].position = IF t[p].position >= x THEN t[p].position + 1
                                          ELSE t[p].position,
           u[new].position = x
    PROVE  Compact(u, {new} \cup set)
<1> DEFINE n == Cardinality(set)
           at == {u[p].position : p \in {new} \cup set}
<1>1. n \in Nat /\ Cardinality({new} \cup set) = n + 1
  <2>1. {new} \cup set = set \cup {new}
    OBVIOUS
  <2>2. Cardinality(set \cup {new}) = n + 1
    BY FS_AddElement
  <2>3. QED BY <2>1, <2>2, FS_CardinalityType
<1>2. {t[p].position : p \in set} = 0..(n - 1)
  BY DEF Compact
<1>3. \A p \in set : t[p].position \in 0..(n - 1)
  BY <1>2
<1>4. \A k \in 0..(n - 1) : \E p \in set : t[p].position = k
  BY <1>2
<1> HIDE DEF n
<1>5. x \in 0..n
  BY DEF n
<1>6. at \subseteq 0..n
  <2>1. ASSUME NEW p \in set PROVE u[p].position \in 0..n
    BY <1>1, <1>3, <1>5, <2>1
  <2>2. QED BY <1>5, <2>1
<1>7. ASSUME NEW k \in 0..n PROVE k \in at
  <2>1. CASE k = x
    BY <2>1
  <2>2. CASE k < x
    <3>1. PICK p \in set : t[p].position = k
      BY <1>1, <1>4, <1>5, <2>2
    <3>2. u[p].position = k
      BY <1>1, <1>5, <2>2, <3>1
    <3>3. QED BY <3>2
  <2>3. CASE x < k
    <3>1. k - 1 \in 0..(n - 1)
      BY <1>1, <1>5, <2>3
    <3>2. PICK p \in set : t[p].position = k - 1
      BY <1>4, <3>1
    <3>3. u[p].position = k
      BY <1>1, <1>5, <2>3, <3>2
    <3>4. QED BY <3>3
  <2>4. QED BY <1>1, <1>5, <2>1, <2>2, <2>3
<1>8. at = 0..n
  BY <1>6, <1>7
<1>9. QED BY <1>1, <1>8 DEF Compact

LEMMA PositionsDiffer ==
    ASSUME NEW set, IsFiniteSet(set), NEW t, Compact(t, set)
    PROVE  \A p, q \in set : t[p].position = t[q].position => p = q
<1> DEFINE n == Cardinality(set)
           f == [p \in set |-> t[p].position]
<1>1. n \in Nat
  BY FS_CardinalityType
<1>2. {t[p].position : p \in set} = 0..(n - 1)
  BY DEF Compact
<1>3. IsFiniteSet(0..(n - 1)) /\ Cardinality(0..(n - 1)) = n
  BY <1>1, FS_Interval
<1> HIDE DEF n
<1>4. f \in Surjection(set, 0..(n - 1))
  <2>1. f \in [set -> 0..(n - 1)]
    BY <1>2
  <2>2. \A k \in 0..(n - 1) : \E p \in set : f[p] = k
    BY <1>2
  <2> HIDE DEF f
  <2>3. QED BY <2>1, <2>2 DEF Surjection
<1>5. Cardinality(0..(n - 1)) = Cardinality(set)
  BY <1>3 DEF n
<1> DEFINE places == 0..(n - 1)
<1>6. f \in Surjection(set, places) /\ Cardinality(places) = Cardinality(set)
  BY <1>4, <1>5
<1>7. f \in Injection(set, places)
  <2> HIDE DEF f, places
  <2>1. QED BY <1>6, FS_Surjection
<1>8. \A p, q \in set : f[p] = f[q] => p = q
  <2> HIDE DEF f, places
  <2>1. QED BY <1>7 DEF Injection, IsInjective
<1>9. QED BY <1>8

LEMMA GapClosed ==
    ASSUME NEW set, IsFiniteSet(set), NEW t, NEW u, NEW gone \in set, Compact(t, set),
           \A p \in set \ {gone} :
              u[p].position = IF t[p].position >= t[gone].position + 1
                              THEN t[p].position - 1 ELSE t[p].position
    PROVE  Compact(u, set \ {gone})
<1> DEFINE n == Cardinality(set)
           x == t[gone].position
           at == {u[p].position : p \in set \ {gone}}
<1>1. n \in Nat /\ Cardinality(set \ {gone}) = n - 1
  BY FS_CardinalityType, FS_RemoveElement
<1>2. {t[p].position : p \in set} = 0..(n - 1)
  BY DEF Compact
<1>3. \A p \in set : t[p].position \in 0..(n - 1)
  BY <1>2
<1>4. \A k \in 0..(n - 1) : \E p \in set : t[p].position = k
  BY <1>2
<1>5. x \in 0..(n - 1)
  BY <1>3
<1>6. \A p \in set \ {gone} : t[p].position # x
  BY PositionsDiffer
<1>7. \A p \in set \ {gone} :
         u[p].position = IF t[p].position >= x + 1 THEN t[p].position - 1 ELSE t[p].position
  OBVIOUS
<1>8. t[gone].position = x
  OBVIOUS
<1> HIDE DEF n, x
<1>9. at \subseteq 0..(n - 2)
  <2>1. ASSUME NEW p \in set \ {gone} PROVE u[p].position \in 0..(n - 2)
    <3>1. t[p].position \in 0..(n - 1) /\ t[p].position # x
      BY <1>3, <1>6
    <3>2. QED BY <1>1, <1>5, <1>7, <3>1
  <2>2. QED BY <2>1
<1>10. ASSUME NEW k \in 0..(n - 2) PROVE k \in at
  <2>1. CASE k < x
    <3>1. PICK p \in set : t[p].position = k
      BY <1>1, <1>4, <1>10
    <3>2. p \in set \ {gone}
      BY <1>5, <1>8, <1>10, <2>1, <3>1
    <3>3. u[p].position = k
      BY <1>1, <1>5, <1>7, <2>1, <3>1, <3>2
    <3>4. QED BY <3>2, <3>3
  <2>2. CASE x <= k
    <3>1. k + 1 \in 0..(n - 1)
      BY <1>1, <1>10
    <3>2. PICK p \in set : t[p].position = k + 1
      BY <1>4, <3>1
    <3>3. p \in set \ {gone}
      BY <1>1, <1>5, <1>8, <1>10, <2>2, <3>2
    <3>4. u[p].position = k
      BY <1>1, <1>5, <1>7, <1>10, <2>2, <3>2, <3>3
    <3>5. QED BY <3>3, <3>4
  <2>3. QED BY <1>1, <1>5, <2>1, <2>2
<1>11. at = 0..(n - 2)
  BY <1>9, <1>10
<1>12. Cardinality(set \ {gone}) - 1 = n - 2
  BY <1>1
<1>13. QED BY <1>11, <1>12 DEF Compact

\* Where a paragraph is inserted.
LEMMA PlaceOfInsert ==
    ASSUME TextTyped, NEW place,
           NEW x, x = IF place \in Binding THEN paras[place].position
                      ELSE Max({0} \cup {paras[p].position + 1 : p \in Stored})
    PROVE  /\ x \in Nat
           /\ Compact(paras, Stored) => x \in 0..Cardinality(Stored)
<1> DEFINE n == Cardinality(Stored)
           after == {paras[p].position + 1 : p \in Stored}
<1>1. /\ IsFiniteSet(Stored) /\ n \in Nat
      /\ \A p \in Stored : paras[p].position \in Nat
  BY StoredFact
<1>2. Compact(paras, Stored) => \A p \in Stored : paras[p].position \in 0..(n - 1)
  <2>1. ASSUME {paras[p].position : p \in Stored} = 0..(n - 1)
        PROVE  \A p \in Stored : paras[p].position \in 0..(n - 1)
    BY <2>1
  <2>2. QED BY <2>1 DEF Compact
<1> HIDE DEF n
<1>3. CASE place \in Binding
  <2>1. place \in Stored /\ x = paras[place].position
    BY <1>3 DEF Binding
  <2>2. x \in Nat
    BY <1>1, <2>1
  <2>3. ASSUME Compact(paras, Stored) PROVE x \in 0..n
    <3>1. x \in 0..(n - 1)
      BY <1>2, <2>1, <2>3
    <3>2. QED BY <1>1, <3>1
  <2>4. QED BY <2>2, <2>3 DEF n
<1>4. CASE place \notin Binding
  <2>1. IsFiniteSet(after)
    <3> DEFINE f == [p \in Stored |-> paras[p].position + 1]
    <3>1. f \in Surjection(Stored, after)
      BY DEF Surjection
    <3>2. IsFiniteSet(Stored) /\ f \in Surjection(Stored, after)
      BY <1>1, <3>1
    <3> HIDE DEF f, after
    <3>3. QED BY <3>2, FS_Surjection
  <2>2. after \subseteq Nat
    BY <1>1
  <2>3. x = Max({0} \cup after)
    BY <1>4
  <2>4. Compact(paras, Stored) => \A k \in after : k \in 1..n
    <3>1. ASSUME \A p \in Stored : paras[p].position \in 0..(n - 1)
          PROVE  \A k \in after : k \in 1..n
      <4>1. ASSUME NEW p \in Stored PROVE paras[p].position + 1 \in 1..n
        BY <1>1, <3>1
      <4>2. QED BY <4>1
    <3>2. QED BY <1>2, <3>1
  <2> DEFINE F == {0} \cup after
  <2> HIDE DEF after
  <2>5. IsFiniteSet(F)
    <3>1. F = after \cup {0}
      OBVIOUS
    <3>2. IsFiniteSet(after \cup {0})
      BY <2>1, FS_AddElement
    <3>3. QED BY <3>1, <3>2
  <2>6. F \subseteq Nat /\ F # {}
    BY <2>2
  <2>7. \A k \in F : k = 0 \/ k \in after
    OBVIOUS
  <2>8. x = Max(F)
    BY <2>3
  <2> HIDE DEF F
  <2>9. Max(F) \in F
    BY <2>5, <2>6, GreatestNumber
  <2>10. ASSUME Compact(paras, Stored) PROVE x \in 0..n
    BY <1>1, <2>4, <2>7, <2>8, <2>9, <2>10
  <2>11. QED BY <2>6, <2>8, <2>9, <2>10 DEF n
<1>5. QED BY <1>3, <1>4

LEMMA ParaInsertWrites ==
    ASSUME Inv, TextInv, NEW mode \in Modes, NEW text \in Texts, NEW place,
           ParaInsert(text, place, mode)
    PROVE  \E changes : TextWrites(mode, changes)
<1> DEFINE x == IF place \in Binding THEN paras[place].position
                ELSE Max({0} \cup {paras[p].position + 1 : p \in Stored})
           later == From(x)
           room == Shifted(later, 1)
           row == [text |-> text, position |-> x, binding |-> TRUE]
<1>1. Admitted(mode) /\ \E new \in Least(Unused, 1) :
         WriteText(mode, [room EXCEPT ![new] = row], {new} \cup later)
  BY DEF ParaInsert
<1>2. TextTyped
  BY DEF TextInv
<1>3. x \in Nat /\ (Compact(paras, Stored) => x \in 0..Cardinality(Stored))
  BY <1>2, PlaceOfInsert
<1>4. later = {p \in Stored : paras[p].position >= x}
  BY DEF From
<1> HIDE DEF x
<1>5. PICK new \in Unused : WriteText(mode, [room EXCEPT ![new] = row], {new} \cup later)
  BY <1>1 DEF Least
<1>6. new \in Paragraphs /\ new \notin Stored
  BY DEF Unused
<1>7. /\ Stored \subseteq Paragraphs /\ IsFiniteSet(Stored)
      /\ \A p \in Stored : paras[p] \in ParagraphRow /\ paras[p].position \in Nat
  BY <1>2, StoredFact
<1>8. row \in ParagraphRow /\ row.position = x
  BY <1>3 DEF ParagraphRow
<1>9. /\ room \in TextTables
      /\ \A p \in Paragraphs \ later : room[p] = paras[p]
      /\ \A p \in later : room[p] # Absent /\ room[p].position = paras[p].position + 1
  <2>1. later \subseteq Stored /\ \A p \in later : paras[p].position + 1 \in Nat
    BY <1>4, <1>7
  <2> HIDE DEF later
  <2>2. QED BY <1>2, <2>1, ShiftedFact
<1> DEFINE table == [room EXCEPT ![new] = row]
<1> HIDE DEF room, row, later
<1>10. /\ table \in TextTables /\ table[new] = row
       /\ \A p \in Paragraphs \ {new} : table[p] = room[p]
  BY <1>6, <1>8, <1>9 DEF TextTables
<1>11. WriteText(mode, table, {new} \cup later)
  BY <1>5
<1> HIDE DEF table
<1>12. \A p \in Paragraphs \ ({new} \cup later) : table[p] = paras[p]
  BY <1>9, <1>10
<1>13. \A p \in {new} \cup later : p \in Stored \/ p \in Unused
  BY <1>4
<1>14. {new} \cup later \in SUBSET Paragraphs
  BY <1>4, <1>6, <1>7
<1>15. {p \in Paragraphs : table[p] # Absent} = {new} \cup Stored
  <2>1. table[new] # Absent
    BY <1>8, <1>10, AbsentTextAssumption
  <2>2. ASSUME NEW p \in Paragraphs, p # new PROVE table[p] # Absent <=> p \in Stored
    BY <1>4, <1>9, <1>10, <2>2 DEF Stored
  <2>3. QED BY <1>6, <1>7, <2>1, <2>2
<1>16. \A p \in Stored : table[p].position = IF paras[p].position >= x
                                             THEN paras[p].position + 1 ELSE paras[p].position
  BY <1>4, <1>6, <1>7, <1>9, <1>10
<1>17. Compact(paras, Stored) => Compact(table, {new} \cup Stored)
  <2>1. SUFFICES ASSUME Compact(paras, Stored) PROVE Compact(table, {new} \cup Stored)
    OBVIOUS
  <2> DEFINE set == Stored
             t == paras
  <2>2. /\ IsFiniteSet(set) /\ new \notin set /\ Compact(t, set)
        /\ x \in 0..Cardinality(set)
        /\ \A p \in set : table[p].position = IF t[p].position >= x
                                              THEN t[p].position + 1 ELSE t[p].position
        /\ table[new].position = x
    BY <1>3, <1>6, <1>7, <1>8, <1>10, <1>16, <2>1
  <2> HIDE DEF set, t
  <2>3. Compact(table, {new} \cup set)
    BY <2>2, RoomMade
  <2>4. QED BY <2>3 DEF set
<1>18. Compact(paras, Stored) => Compact(table, {p \in Paragraphs : table[p] # Absent})
  BY <1>15, <1>17
<1>19. QED BY <1>1, <1>10, <1>11, <1>12, <1>13, <1>14, <1>18, WriteTextWrites

LEMMA ParaDeleteWrites ==
    ASSUME Inv, TextInv, NEW mode \in Modes, NEW gone \in Paragraphs,
           ParaDelete(gone, mode)
    PROVE  \E changes : TextWrites(mode, changes)
<1> DEFINE later == From(paras[gone].position + 1)
           closed == Shifted(later, -1)
           table == [closed EXCEPT ![gone] = Absent]
<1>1. Admitted(mode) /\ gone \in Binding /\ WriteText(mode, table, {gone} \cup later)
  BY DEF ParaDelete
<1>2. TextTyped
  BY DEF TextInv
<1>3. later = {p \in Stored : paras[p].position >= paras[gone].position + 1}
  BY DEF From
<1>4. gone \in Stored
  BY <1>1 DEF Binding
<1>5. /\ Stored \subseteq Paragraphs /\ IsFiniteSet(Stored)
      /\ \A p \in Stored : paras[p] \in ParagraphRow /\ paras[p].position \in Nat
  BY <1>2, StoredFact
<1>6. gone \notin later
  BY <1>3, <1>4, <1>5
<1>7. /\ closed \in TextTables
      /\ \A p \in Paragraphs \ later : closed[p] = paras[p]
      /\ \A p \in later : closed[p] # Absent /\ closed[p].position = paras[p].position + (-1)
  <2>1. later \subseteq Stored /\ \A p \in later : paras[p].position + (-1) \in Nat
    BY <1>3, <1>4, <1>5
  <2> HIDE DEF later
  <2>2. -1 \in {1, -1}
    OBVIOUS
  <2>3. QED BY <1>2, <2>1, <2>2, ShiftedFact
<1> HIDE DEF closed, later
<1>8. /\ table \in TextTables /\ table[gone] = Absent
      /\ \A p \in Paragraphs \ {gone} : table[p] = closed[p]
  BY <1>7 DEF TextTables
<1> HIDE DEF table
<1>9. \A p \in Paragraphs \ ({gone} \cup later) : table[p] = paras[p]
  BY <1>7, <1>8
<1>10. \A p \in {gone} \cup later : p \in Stored \/ p \in Unused
  BY <1>3, <1>4
<1>11. {gone} \cup later \in SUBSET Paragraphs
  BY <1>3, <1>5
<1>12. {p \in Paragraphs : table[p] # Absent} = Stored \ {gone}
  <2>1. ASSUME NEW p \in Paragraphs, p # gone PROVE table[p] # Absent <=> p \in Stored
    BY <1>3, <1>7, <1>8, <2>1 DEF Stored
  <2>2. QED BY <1>5, <1>8, <2>1
<1>13. \A p \in Stored \ {gone} :
          table[p].position = IF paras[p].position >= paras[gone].position + 1
                              THEN paras[p].position - 1 ELSE paras[p].position
  BY <1>3, <1>5, <1>7, <1>8
<1>14. Compact(paras, Stored) => Compact(table, Stored \ {gone})
  <2>1. SUFFICES ASSUME Compact(paras, Stored) PROVE Compact(table, Stored \ {gone})
    OBVIOUS
  <2> DEFINE set == Stored
             t == paras
  <2>2. /\ IsFiniteSet(set) /\ gone \in set /\ Compact(t, set)
        /\ \A p \in set \ {gone} :
              table[p].position = IF t[p].position >= t[gone].position + 1
                                  THEN t[p].position - 1 ELSE t[p].position
    BY <1>4, <1>5, <1>13, <2>1
  <2> HIDE DEF set, t
  <2>3. Compact(table, set \ {gone})
    BY <2>2, GapClosed
  <2>4. QED BY <2>3 DEF set
<1>15. Compact(paras, Stored) => Compact(table, {p \in Paragraphs : table[p] # Absent})
  BY <1>12, <1>14
<1>16. QED BY <1>1, <1>8, <1>9, <1>10, <1>11, <1>15, WriteTextWrites

----------------------------------------------------------------------------
(* hrs_import                                                              *)

PartOf(new, n, k) == {p \in DOMAIN new : n > 1 => new[p].position = k - 1}

ParentOf(first, k) == IF k = 1 THEN first ELSE Len(revs) + k - 1

LoggedBy(new, n, j) == UNION {PartOf(new, n, i) : i \in 1..j}

\* The first k revisions of an import: they follow the revision first, leave
\* the steps as it has them, and have ever more rows of the document.
Logged(log, new, first, n, k) ==
    /\ log \in [revs : Seq(RevisionRow), texts : Seq(TextRow)]
    /\ Len(log.revs) = Len(revs) + k /\ Len(log.texts) = Len(revs) + k
    /\ ChainsSound(log.revs)
    /\ \A r \in 1..Len(revs) : log.revs[r] = revs[r] /\ log.texts[r] = texts[r]
    /\ \A j \in 1..k :
          /\ StateAt(log.revs, Len(revs) + j) = StateAt(revs, first)
          /\ Chain(log.revs, Len(revs) + j)
                = Chain(revs, first) \cup ((Len(revs) + 1)..(Len(revs) + j))
          /\ log.texts[Len(revs) + j].touched = PartOf(new, n, j)
          /\ \A p \in Paragraphs :
                Text!StateAt(log.texts, Len(revs) + j)[p] =
                   IF p \in LoggedBy(new, n, j) THEN new[p] ELSE TextAt(first)[p]

LEMMA NothingChanged ==
    ASSUME NEW none, none = <<>>
    PROVE  IsChange(none) /\ \A t \in Tables : Overlay(t, none) = t
<1>1. DOMAIN none = {}
  OBVIOUS
<1>2. IsChange(none)
  BY <1>1 DEF IsChange
<1>3. ASSUME NEW t \in Tables PROVE Overlay(t, none) = t
  <2>1. Overlay(t, none) \in Tables /\ \A e \in Entities : Overlay(t, none)[e] = t[e]
    BY <1>1, <1>2, OverlayTyped
  <2>2. QED BY <2>1 DEF Tables
<1>4. QED BY <1>2, <1>3

LEMMA LoggedNext ==
    ASSUME Inv, TextTyped, NEW first \in 0..Len(revs), NEW n \in Nat, NEW k \in 1..n,
           NEW new, IsTextChange(new),
           NEW log, Logged(log, new, first, n, k - 1),
           NEW next, next = Recorded(log, ParentOf(first, k), Snapshot(new, PartOf(new, n, k)))
    PROVE  Logged(next, new, first, n, k)
<1>0. PICK L \in Nat : L = Len(revs)
  BY DEF Inv, TypeOK
<1> DEFINE from == ParentOf(first, k)
           changes == Snapshot(new, PartOf(new, n, k))
           new1 == L + k
           none == <<>>
<1>1. /\ log.revs \in Seq(RevisionRow) /\ log.texts \in Seq(TextRow)
      /\ Len(log.revs) = L + (k - 1) /\ Len(log.texts) = L + (k - 1)
      /\ ChainsSound(log.revs)
      /\ \A r \in 1..L : log.revs[r] = revs[r] /\ log.texts[r] = texts[r]
      /\ \A j \in 1..(k - 1) :
            /\ StateAt(log.revs, L + j) = StateAt(revs, first)
            /\ Chain(log.revs, L + j) = Chain(revs, first) \cup ((L + 1)..(L + j))
            /\ log.texts[L + j].touched = PartOf(new, n, j)
            /\ \A p \in Paragraphs :
                  Text!StateAt(log.texts, L + j)[p] =
                     IF p \in LoggedBy(new, n, j) THEN new[p] ELSE TextAt(first)[p]
  BY <1>0 DEF Logged
<1>2. /\ k \in Nat /\ k >= 1 /\ L + (k - 1) \in Nat
      /\ (L + (k - 1)) + 1 = new1 /\ new1 \in Nat /\ new1 # 0
  BY <1>0
<1>3. from \in 0..(L + (k - 1))
  BY <1>0, <1>2 DEF ParentOf
<1>4. next.revs = RecordRevision(log.revs, from, none)
      /\ next.texts = Text!RecordRevision(log.texts, from, changes)
      /\ next = [revs |-> next.revs, texts |-> next.texts]
  BY DEF Recorded
<1>5. /\ IsTextChange(changes) /\ DOMAIN changes = PartOf(new, n, k)
      /\ \A p \in DOMAIN changes : changes[p] = new[p]
  BY DEF Snapshot, PartOf, IsTextChange
<1>6. StateAt(log.revs, from) = StateAt(revs, first)
  <2>1. CASE k = 1
    <3>1. from = first /\ first \in 0..L
      BY <1>0, <2>1 DEF ParentOf
    <3>2. QED BY <1>0, <1>1, <3>1 DEF StateAt, NoRevision
  <2>2. CASE k # 1
    <3>1. from = L + (k - 1) /\ k - 1 \in 1..(k - 1)
      BY <1>0, <1>2, <2>2 DEF ParentOf
    <3> HIDE DEF from
    <3>2. QED BY <1>1, <3>1
  <2>3. QED BY <2>1, <2>2
<1>7. Chain(log.revs, from) \cup {new1} = Chain(revs, first) \cup ((L + 1)..new1)
  <2>1. CASE k = 1
    <3>1. from = first /\ first \in 0..L
      BY <1>0, <2>1 DEF ParentOf
    <3>2. Chain(log.revs, from) = Chain(revs, first)
      BY <1>0, <1>1, <3>1 DEF Chain, NoRevision
    <3>3. (L + 1)..new1 = {new1}
      BY <1>0, <2>1
    <3>4. QED BY <3>2, <3>3
  <2>2. CASE k # 1
    <3>1. from = L + (k - 1) /\ k - 1 \in 1..(k - 1)
      BY <1>0, <1>2, <2>2 DEF ParentOf
    <3>2. ((L + 1)..(L + (k - 1))) \cup {new1} = (L + 1)..new1
      BY <1>0, <1>2, <2>2
    <3> HIDE DEF from, new1
    <3>3. QED BY <1>1, <3>1, <3>2
  <2>3. QED BY <2>1, <2>2
<1>8. \A p \in Paragraphs :
         (IF p \in DOMAIN changes THEN changes[p] ELSE Text!StateAt(log.texts, from)[p])
            = IF p \in LoggedBy(new, n, k) THEN new[p] ELSE TextAt(first)[p]
  <2>1. CASE k = 1
    <3>1. from = first /\ first \in 0..L
      BY <1>0, <2>1 DEF ParentOf
    <3>2. Text!StateAt(log.texts, from) = TextAt(first)
      BY <1>0, <1>1, <3>1 DEF Text!StateAt, Text!NoRevision, TextAt
    <3>3. 1..k = {1}
      BY <2>1
    <3>4. LoggedBy(new, n, k) = PartOf(new, n, k)
      BY <2>1, <3>3 DEF LoggedBy
    <3>5. QED BY <1>5, <3>2, <3>4
  <2>2. CASE k # 1
    <3>1. from = L + (k - 1) /\ k - 1 \in 1..(k - 1)
      BY <1>0, <1>2, <2>2 DEF ParentOf
    <3>2. 1..k = (1..(k - 1)) \cup {k}
      BY <1>2
    <3>3. LoggedBy(new, n, k) = LoggedBy(new, n, k - 1) \cup PartOf(new, n, k)
      BY <3>2 DEF LoggedBy
    <3> HIDE DEF from, changes
    <3>4. QED BY <1>1, <1>5, <3>1, <3>3
  <2>3. QED BY <2>1, <2>2
<1>9. IsChange(none) /\ \A t \in Tables : Overlay(t, none) = t
  BY NothingChanged
<1> HIDE DEF from, changes, none
<1>10. /\ next.revs \in Seq(RevisionRow)
       /\ Len(next.revs) = new1
       /\ \A r \in 1..(L + (k - 1)) : next.revs[r] = log.revs[r]
       /\ next.revs[new1] = NewRevision(log.revs, from, none)
       /\ ChainsSound(next.revs)
  <2> DEFINE store == log.revs
             after == next.revs
  <2>1. /\ store \in Seq(RevisionRow) /\ from \in 0..Len(store) /\ ChainsSound(store)
        /\ IsChange(none) /\ after = RecordRevision(store, from, none)
        /\ Len(store) = L + (k - 1)
    BY <1>1, <1>3, <1>4, <1>9
  <2> HIDE DEF store, after
  <2>2. /\ after \in Seq(RevisionRow)
        /\ Len(after) = Len(store) + 1
        /\ \A r \in 1..Len(store) : after[r] = store[r]
        /\ after[Len(store) + 1] = NewRevision(store, from, none)
        /\ ChainsSound(after)
    <3>1. IsChange(none)
      BY <1>9
    <3>2. ASSUME NEW any \in Seq(RevisionRow), NEW parent \in 0..Len(any),
                 ChainsSound(any), after = RecordRevision(any, parent, none)
          PROVE  /\ after \in Seq(RevisionRow)
                 /\ Len(after) = Len(any) + 1
                 /\ \A r \in 1..Len(any) : after[r] = any[r]
                 /\ after[Len(any) + 1] = NewRevision(any, parent, none)
                 /\ ChainsSound(after)
      BY <3>1, <3>2, RecordRevisionFact
    <3>3. QED BY <2>1, <3>2, Zenon
  <2>3. QED BY <1>2, <2>1, <2>2 DEF store, after
<1>11. TextLogged(log.texts, next.texts, from, changes)
  <2> DEFINE store == log.texts
             after == next.texts
  <2>1. /\ store \in Seq(TextRow) /\ from \in 0..Len(store)
        /\ IsTextChange(changes) /\ after = Text!RecordRevision(store, from, changes)
    BY <1>1, <1>3, <1>4, <1>5
  <2> HIDE DEF store, after
  <2>2. TextLogged(store, after, from, changes)
    BY <2>1, TextLogFact
  <2>3. QED BY <2>2 DEF store, after
<1>12. /\ next.texts \in Seq(TextRow)
       /\ Len(next.texts) = new1
       /\ \A r \in 1..(L + (k - 1)) : next.texts[r] = log.texts[r]
       /\ \A r \in 0..(L + (k - 1)) : Text!StateAt(next.texts, r) = Text!StateAt(log.texts, r)
       /\ next.texts[new1].touched = DOMAIN changes
       /\ \A p \in Paragraphs :
             Text!StateAt(next.texts, new1)[p] =
                IF p \in DOMAIN changes THEN changes[p] ELSE Text!StateAt(log.texts, from)[p]
  BY <1>1, <1>2, <1>11 DEF TextLogged
<1>13. StateAt(next.revs, new1) = StateAt(revs, first)
  <2>1. StateAt(revs, first) \in Tables
    BY RevisionFact DEF Inv, TypeOK, StoreInv
  <2>2. StateAt(next.revs, new1) = Overlay(StateAt(log.revs, from), none)
    BY <1>2, <1>10 DEF StateAt, NewRevision, NoRevision
  <2>3. QED BY <1>6, <1>9, <2>1, <2>2
<1>14. Chain(next.revs, new1) = Chain(revs, first) \cup ((L + 1)..new1)
  <2>1. Chain(next.revs, new1) = Chain(log.revs, from) \cup {new1}
    BY <1>1, <1>2, <1>10 DEF Chain, NewRevision, NoRevision
  <2>2. QED BY <1>7, <2>1
<1>15. next \in [revs : Seq(RevisionRow), texts : Seq(TextRow)]
  BY <1>4, <1>10, <1>12
<1>16. \A r \in 1..L : next.revs[r] = revs[r] /\ next.texts[r] = texts[r]
  <2>1. \A r \in 1..L : r \in 1..(L + (k - 1))
    BY <1>0, <1>2
  <2>2. QED BY <1>1, <1>10, <1>12, <2>1
<1>17. ASSUME NEW j \in 1..k
       PROVE  /\ StateAt(next.revs, L + j) = StateAt(revs, first)
              /\ Chain(next.revs, L + j) = Chain(revs, first) \cup ((L + 1)..(L + j))
              /\ next.texts[L + j].touched = PartOf(new, n, j)
              /\ \A p \in Paragraphs :
                    Text!StateAt(next.texts, L + j)[p] =
                       IF p \in LoggedBy(new, n, j) THEN new[p] ELSE TextAt(first)[p]
  <2>1. CASE j = k
    BY <1>5, <1>8, <1>12, <1>13, <1>14, <2>1
  <2>2. CASE j # k
    <3>1. j \in 1..(k - 1) /\ L + j \in 1..(L + (k - 1)) /\ L + j # 0
      BY <1>0, <1>2, <2>2
    <3>2. next.revs[L + j] = log.revs[L + j] /\ next.texts[L + j] = log.texts[L + j]
      BY <1>10, <1>12, <3>1
    <3>3. /\ StateAt(next.revs, L + j) = StateAt(log.revs, L + j)
          /\ Chain(next.revs, L + j) = Chain(log.revs, L + j)
          /\ Text!StateAt(next.texts, L + j) = Text!StateAt(log.texts, L + j)
      BY <3>1, <3>2 DEF StateAt, Chain, NoRevision, Text!StateAt, Text!NoRevision
    <3>4. QED BY <1>1, <3>1, <3>2, <3>3
  <2>3. QED BY <2>1, <2>2
<1>18. Len(next.revs) = L + k /\ Len(next.texts) = L + k
  BY <1>0, <1>2, <1>10, <1>12
<1>19. QED
  <2>1. ChainsSound(next.revs)
    BY <1>10
  <2>2. \A j \in 1..k :
           /\ StateAt(next.revs, Len(revs) + j) = StateAt(revs, first)
           /\ Chain(next.revs, Len(revs) + j) = Chain(revs, first) \cup ((Len(revs) + 1)..(Len(revs) + j))
           /\ next.texts[Len(revs) + j].touched = PartOf(new, n, j)
           /\ \A p \in Paragraphs :
                 Text!StateAt(next.texts, Len(revs) + j)[p] =
                    IF p \in LoggedBy(new, n, j) THEN new[p] ELSE TextAt(first)[p]
    BY <1>0, <1>17
  <2> HIDE DEF new1
  <2>3. Len(next.revs) = Len(revs) + k /\ Len(next.texts) = Len(revs) + k
    BY <1>0, <1>18
  <2>4. \A r \in 1..Len(revs) : next.revs[r] = revs[r] /\ next.texts[r] = texts[r]
    BY <1>0, <1>16
  <2> HIDE DEF new1
  <2>5. QED BY <1>15, <2>1, <2>2, <2>3, <2>4, ZenonT(30) DEF Logged

LEMMA RowsLoggedFact ==
    ASSUME Inv, TextTyped, NEW first \in 0..Len(revs), NEW n \in Nat,
           NEW new, IsTextChange(new)
    PROVE  \A k \in 0..n : Logged(RowsLogged(new, first, n)[k], new, first, n, k)
<1> DEFINE Logs == [revs : Seq(RevisionRow), texts : Seq(TextRow)]
           init == [revs |-> revs, texts |-> texts]
           After(k, log) == Recorded(log, ParentOf(first, k), Snapshot(new, PartOf(new, n, k)))
           step == [kl \in (1..n) \X Logs |->
                      IF After(kl[1], kl[2]) \in Logs THEN After(kl[1], kl[2]) ELSE kl[2]]
           Def(f) == [k \in 0..n |-> IF k = 0 THEN init ELSE After(k, f[k - 1])]
           D == RowsLogged(new, first, n)
<1>1. Logged(init, new, first, n, 0) /\ init \in Logs
  BY DEF Logged, Inv, TypeOK, StoreInv, TextTyped
<1>2. ASSUME NEW log, NEW k \in 1..n, Logged(log, new, first, n, k - 1)
      PROVE  Logged(After(k, log), new, first, n, k) /\ After(k, log) \in Logs
  <2>1. Logged(After(k, log), new, first, n, k)
    BY <1>2, LoggedNext
  <2>2. QED BY <2>1 DEF Logged
<1> HIDE DEF init, Logs, After
<1>3. ASSUME NEW g, g[0] = init,
             \A k \in 1..n : Logged(g[k - 1], new, first, n, k - 1) => g[k] = After(k, g[k - 1])
      PROVE  \A k \in 0..n : Logged(g[k], new, first, n, k)
  <2> DEFINE Bad == {k \in 0..n : ~Logged(g[k], new, first, n, k)}
  <2>1. SUFFICES ASSUME Bad # {} PROVE FALSE
    OBVIOUS
  <2>2. PICK k \in Bad : \A m \in Bad : k <= m
    <3>1. Bad \subseteq Nat
      OBVIOUS
    <3> HIDE DEF Bad
    <3>2. QED BY <2>1, <3>1, LeastNumber
  <2>3. k # 0
    BY <1>1, <1>3
  <2>4. k \in 1..n /\ k - 1 \in 0..n /\ ~(k <= k - 1)
    BY <2>3
  <2>5. Logged(g[k - 1], new, first, n, k - 1)
    BY <2>2, <2>4
  <2>6. Logged(g[k], new, first, n, k)
    BY <1>2, <1>3, <2>4, <2>5
  <2>7. QED BY <2>6
<1>4. PICK f \in [0..n -> Logs] :
         f[0] = init /\ \A k \in 1..n : f[k] = step[<<k, f[k - 1]>>]
  <2>1. step \in [(1..n) \X Logs -> Logs]
    OBVIOUS
  <2> HIDE DEF step
  <2>2. \E f \in [0..n -> Logs] : Recurs(f, n, init, step)
    BY <1>1, <2>1, IntervalRecursion
  <2>3. QED BY <2>2 DEF Recurs
<1>5. ASSUME NEW k \in 1..n, Logged(f[k - 1], new, first, n, k - 1)
      PROVE  f[k] = After(k, f[k - 1])
  <2>1. k - 1 \in 0..n /\ f[k - 1] \in Logs
    BY <1>5
  <2>2. After(k, f[k - 1]) \in Logs
    BY <1>2, <1>5
  <2>3. step[<<k, f[k - 1]>>] = After(k, f[k - 1])
    BY <2>1, <2>2
  <2>4. QED BY <1>4, <2>3
<1>6. \A k \in 0..n : Logged(f[k], new, first, n, k)
  BY <1>3, <1>4, <1>5
<1>7. f = Def(f)
  <2>1. \A k \in 0..n : k # 0 => k \in 1..n /\ k - 1 \in 0..n
    OBVIOUS
  <2>2. QED BY <1>4, <1>5, <1>6, <2>1
<1>8. D = CHOOSE g : g = Def(g)
  BY DEF RowsLogged, PartOf, ParentOf, init, After
<1>9. D = Def(D)
  <2> HIDE DEF Def, D
  <2>1. QED BY <1>7, <1>8
<1>10. D[0] = init /\ \A k \in 1..n : D[k] = After(k, D[k - 1])
  <2> HIDE DEF D
  <2>1. \A k \in 1..n : k \in 0..n /\ k # 0
    OBVIOUS
  <2>2. QED BY <1>9, <2>1
<1>11. QED
  <2> HIDE DEF D
  <2>1. \A k \in 0..n : Logged(D[k], new, first, n, k)
    BY <1>3, <1>10
  <2>2. QED BY <2>1 DEF D

\* The rows of a document have the positions 0, 1, 2 ..., in every revision of
\* the import.
LEMMA PartsFact ==
    ASSUME NEW set, set \subseteq Nat, IsFiniteSet(set), set # {}, NEW n \in {1, Cardinality(set)},
           NEW new, DOMAIN new = set, \A p \in set : new[p].position = Place(set, p)
    PROVE  /\ n \in Nat /\ n >= 1
           /\ LoggedBy(new, n, n) = set
           /\ \A j \in 1..n : LoggedBy(new, n, j) \subseteq set /\ Compact(new, LoggedBy(new, n, j))
<1> DEFINE m == Cardinality(set)
<1>1. /\ m \in Nat
      /\ \A p \in set : Place(set, p) \in 0..(m - 1)
      /\ \A k \in 0..(m - 1) : \E p \in set : Place(set, p) = k
  <2> DEFINE P == set
  <2>1. P \subseteq Nat /\ IsFiniteSet(P)
    OBVIOUS
  <2> HIDE DEF P
  <2>2. /\ Cardinality(P) \in Nat
        /\ \A p \in P : Place(P, p) \in 0..(Cardinality(P) - 1)
        /\ \A k \in 0..(Cardinality(P) - 1) : \E p \in P : Place(P, p) = k
    BY <2>1, Places
  <2>3. QED BY <2>2 DEF P
<1>2. m >= 1
  <2>1. PICK p \in set : TRUE
    OBVIOUS
  <2>2. Place(set, p) \in 0..(m - 1)
    BY <1>1
  <2> HIDE DEF m
  <2>3. QED BY <1>1, <2>2
<1> HIDE DEF m
<1>3. n \in Nat /\ n >= 1 /\ n <= m /\ (n = 1 \/ n = m)
  BY <1>1, <1>2 DEF m
<1>4. ASSUME NEW j \in 1..n
      PROVE  LoggedBy(new, n, j) = IF n = 1 THEN set ELSE {p \in set : Place(set, p) < j}
  <2>1. CASE n = 1
    <3>1. \A i : PartOf(new, n, i) = set
      BY <2>1 DEF PartOf
    <3>2. 1 \in 1..j
      BY <1>3, <1>4
    <3>3. QED BY <2>1, <3>1, <3>2 DEF LoggedBy
  <2>2. CASE n # 1
    <3>1. \A i \in 1..j : PartOf(new, n, i) = {p \in set : Place(set, p) = i - 1}
      <4>1. n > 1
        BY <1>3, <2>2
      <4>2. \A i : PartOf(new, n, i) = {p \in set : new[p].position = i - 1}
        BY <4>1 DEF PartOf
      <4>3. ASSUME NEW i \in 1..j
            PROVE  {p \in set : new[p].position = i - 1} = {p \in set : Place(set, p) = i - 1}
        <5>1. PICK k : k = i - 1
          OBVIOUS
        <5>2. {p \in set : new[p].position = k} = {p \in set : Place(set, p) = k}
          OBVIOUS
        <5>3. QED BY <5>1, <5>2
      <4>4. QED BY <4>2, <4>3
    <3>2. \A p \in set : (\E i \in 1..j : Place(set, p) = i - 1) <=> Place(set, p) < j
      <4>1. SUFFICES ASSUME NEW p \in set
                     PROVE  (\E i \in 1..j : Place(set, p) = i - 1) <=> Place(set, p) < j
        OBVIOUS
      <4>2. PICK place \in Nat : place = Place(set, p)
        BY <1>1
      <4>3. place < j => place + 1 \in 1..j /\ place = (place + 1) - 1
        BY <1>3
      <4>4. \A i \in 1..j : i - 1 < j
        BY <1>3
      <4>5. QED BY <4>2, <4>3, <4>4
    <3>3. LoggedBy(new, n, j) = {p \in set : \E i \in 1..j : Place(set, p) = i - 1}
      BY <3>1 DEF LoggedBy
    <3>4. QED BY <2>2, <3>2, <3>3
  <2>3. QED BY <2>1, <2>2
<1>5. LoggedBy(new, n, n) = set
  <2>1. n \in 1..n
    BY <1>3
  <2>2. n # 1 => \A p \in set : Place(set, p) < n
    BY <1>1, <1>3
  <2>3. QED BY <1>4, <2>1, <2>2
<1>6. ASSUME NEW j \in 1..m PROVE Compact(new, {p \in set : Place(set, p) < j})
  <2> DEFINE some == {p \in set : Place(set, p) < j}
             P == set
  <2>1. j \in Nat /\ j <= m
    BY <1>1
  <2>2. Least(set, j) = some /\ Cardinality(some) = j
    <3>1. P \subseteq Nat /\ IsFiniteSet(P) /\ j \in Nat /\ j <= Cardinality(P)
      BY <2>1 DEF m
    <3> HIDE DEF P
    <3>2. /\ Least(P, j) = {p \in P : Place(P, p) < j}
          /\ Cardinality(Least(P, j)) = j
      BY <3>1, LeastPlaces
    <3>3. QED BY <3>2 DEF P
  <2>3. {new[p].position : p \in some} = 0..(j - 1)
    <3>1. \A p \in some : p \in set /\ new[p].position = Place(set, p) /\ Place(set, p) \in 0..(j - 1)
      BY <1>1, <2>1
    <3>2. \A k \in 0..(j - 1) : \E p \in some : new[p].position = k
      <4>1. SUFFICES ASSUME NEW k \in 0..(j - 1) PROVE \E p \in some : new[p].position = k
        OBVIOUS
      <4>2. k \in 0..(m - 1) /\ k < j
        BY <1>1, <2>1
      <4>3. QED BY <1>1, <4>2
    <3>3. QED BY <3>1, <3>2
  <2>4. QED BY <2>2, <2>3 DEF Compact
<1>7. set = {p \in set : Place(set, p) < m}
  <2>1. \A p \in set : Place(set, p) < m
    BY <1>1
  <2>2. QED BY <2>1
<1>8. ASSUME NEW j \in 1..n
      PROVE  LoggedBy(new, n, j) \subseteq set /\ Compact(new, LoggedBy(new, n, j))
  <2>1. CASE n = 1
    <3>1. LoggedBy(new, n, j) = set /\ m \in 1..m
      BY <1>1, <1>2, <1>4, <2>1
    <3>2. Compact(new, {p \in set : Place(set, p) < m})
      BY <1>6, <3>1
    <3>3. QED BY <1>7, <3>1, <3>2
  <2>2. CASE n # 1
    <3>1. LoggedBy(new, n, j) = {p \in set : Place(set, p) < j} /\ j \in 1..m
      BY <1>1, <1>3, <1>4, <2>2
    <3>2. QED BY <1>6, <3>1
  <2>3. QED BY <2>1, <2>2
<1>9. QED BY <1>3, <1>5, <1>8

\* What an import does, with the set of the new rows and how many revisions
\* hold them.
Imports(mode, set, new, n) ==
    /\ set # {} /\ set \subseteq Unused /\ IsFiniteSet(set)
    /\ DOMAIN new = set
    /\ \A p \in set : new[p] \in ParagraphRow /\ new[p].position = Place(set, p)
    /\ n \in {1, Cardinality(set)}
    /\ \/ /\ mode = "cascade" /\ IsOpen
          /\ cascades' = [cascades EXCEPT ![OpenCascade].ref = Len(revs) + n]
          /\ head' = head
       \/ /\ mode = "direct" /\ ~IsOpen
          /\ head' = Len(revs) + n
          /\ cascades' = cascades
    /\ Logged([revs |-> revs', texts |-> texts'], new, WorkingRevision, n, n)
    /\ paras' = [p \in Paragraphs |-> IF p \in set THEN new[p] ELSE Absent]
    /\ replaced' = [p \in Paragraphs |-> IF p \in Stored THEN Len(revs) + 1 ELSE replaced[p]]
    /\ UNCHANGED <<rows, planStatus, completed, bypassed>>

LEMMA HrsImportImports ==
    ASSUME Inv, TextInv, NEW mode \in Modes, NEW doc \in Documents, HrsImport(doc, mode)
    PROVE  \E set, new, n : Imports(mode, set, new, n)
<1> DEFINE set == Least(Unused, Len(doc))
           new == Rowed(set, doc)
           n   == IF mode = "cascade" THEN Len(doc) ELSE 1
           log == RowsLogged(new, WorkingRevision, n)
<1>1. /\ doc \in Seq(Texts) /\ Len(doc) \in Nat /\ Len(doc) >= 1
  <2>1. doc \in Seq(Texts) /\ doc # <<>>
    BY TextsAssumption
  <2>2. QED BY <2>1
<1>2. /\ AdmitCascade(mode)
      /\ Cardinality(Unused) >= Len(doc)
      /\ paras' = Overlay(Text!EmptyState, new)
      /\ replaced' = [p \in Paragraphs |-> IF p \in Stored THEN Len(revs) + 1 ELSE replaced[p]]
      /\ UNCHANGED <<rows, planStatus, completed, bypassed>>
  BY DEF HrsImport, Admitted, AdmitPlan
<1>3. (mode = "cascade" => IsOpen) /\ (mode = "direct" => ~IsOpen)
  BY <1>2 DEF AdmitCascade
<1>4. /\ revs' = log[n].revs /\ texts' = log[n].texts
      /\ \/ /\ mode = "cascade" /\ IsOpen
            /\ cascades' = [cascades EXCEPT ![OpenCascade].ref = Len(revs) + n]
            /\ head' = head
         \/ /\ mode = "direct" /\ ~IsOpen
            /\ head' = Len(revs) + n
            /\ cascades' = cascades
  <2>1. CASE mode = "cascade"
    BY <1>3, <2>1 DEF HrsImport, WorkingRevision
  <2>2. CASE mode = "direct"
    BY <1>3, <2>2 DEF HrsImport, WorkingRevision
  <2>3. QED BY <2>1, <2>2 DEF Modes
<1>5. /\ set \subseteq Unused /\ IsFiniteSet(set) /\ Cardinality(set) = Len(doc)
  <2> DEFINE U == Unused
             k == Len(doc)
  <2>1. U \subseteq Nat /\ IsFiniteSet(U) /\ k \in Nat /\ k <= Cardinality(U)
    <3>1. Unused \subseteq Paragraphs
      BY DEF Unused
    <3>2. U \subseteq Nat /\ IsFiniteSet(U)
      BY <3>1, ParagraphsAssumption, FS_Subset
    <3>3. Cardinality(Unused) \in Nat
      BY <3>2, FS_CardinalityType
    <3>4. QED BY <1>1, <1>2, <3>2, <3>3
  <2> HIDE DEF U, k
  <2>2. /\ Least(U, k) = {p \in U : Place(U, p) < k}
        /\ IsFiniteSet(Least(U, k)) /\ Cardinality(Least(U, k)) = k
    BY <2>1, LeastPlaces
  <2>3. QED BY <2>2 DEF U, k
<1> HIDE DEF set
<1>6. /\ set \subseteq Paragraphs /\ set \subseteq Nat /\ set # {}
  <2>1. set \subseteq Paragraphs
    BY <1>5 DEF Unused
  <2>2. Cardinality(set) # 0
    BY <1>1, <1>5
  <2>3. QED BY <2>1, <2>2, FS_EmptySet, ParagraphsAssumption
<1>7. \A p \in set : Place(set, p) \in 0..(Len(doc) - 1)
  <2> DEFINE P == set
  <2>1. P \subseteq Nat /\ IsFiniteSet(P) /\ Cardinality(P) = Len(doc)
    BY <1>5, <1>6
  <2> HIDE DEF P
  <2>2. \A p \in P : Place(P, p) \in 0..(Cardinality(P) - 1)
    BY <2>1, Places
  <2>3. QED BY <2>1, <2>2 DEF P
<1>8. /\ DOMAIN new = set
      /\ \A p \in set : new[p] \in ParagraphRow /\ new[p].position = Place(set, p)
  <2>1. ASSUME NEW p \in set
        PROVE  new[p] \in ParagraphRow /\ new[p].position = Place(set, p)
    <3>1. new[p] = [text |-> doc[Place(set, p) + 1], position |-> Place(set, p), binding |-> TRUE]
      BY DEF Rowed, Place
    <3>2. Place(set, p) \in Nat /\ Place(set, p) + 1 \in 1..Len(doc)
      BY <1>1, <1>7
    <3>3. doc[Place(set, p) + 1] \in Texts
      BY <1>1, <3>2
    <3> HIDE DEF new
    <3>4. QED BY <3>1, <3>2, <3>3 DEF ParagraphRow
  <2>2. QED BY <2>1 DEF Rowed
<1> HIDE DEF new
<1>9. n \in {1, Cardinality(set)} /\ n \in Nat /\ n >= 1
  BY <1>1, <1>5
<1>10. IsTextChange(new)
  BY <1>6, <1>8 DEF IsTextChange
<1> HIDE DEF n
<1>11. /\ Logged(log[n], new, WorkingRevision, n, n)
  <2>1. WorkingRevision \in 0..Len(revs)
    BY WorkingRevisionExists DEF Inv
  <2>2. \A k \in 0..n : Logged(log[k], new, WorkingRevision, n, k)
    BY <1>9, <1>10, <2>1, RowsLoggedFact DEF TextInv
  <2>3. n \in 0..n
    BY <1>9
  <2>4. QED BY <2>2, <2>3
<1> HIDE DEF log
<1>12. Logged([revs |-> revs', texts |-> texts'], new, WorkingRevision, n, n)
  <2>1. log[n] \in [revs : Seq(RevisionRow), texts : Seq(TextRow)]
    BY <1>11 DEF Logged
  <2>2. log[n] = [revs |-> revs', texts |-> texts']
    BY <1>4, <2>1
  <2>3. QED BY <1>11, <2>2
<1>13. paras' = [p \in Paragraphs |-> IF p \in set THEN new[p] ELSE Absent]
  BY <1>2, <1>8 DEF Overlay, Text!EmptyState
<1>14. Imports(mode, set, new, n)
  BY <1>2, <1>4, <1>5, <1>6, <1>8, <1>9, <1>12, <1>13 DEF Imports
<1>15. QED BY <1>14

LEMMA ImportFrame ==
    ASSUME Inv, NEW mode \in Modes, NEW set, NEW new, NEW n, Imports(mode, set, new, n)
    PROVE  /\ Len(revs) \in Nat /\ n \in Nat /\ n >= 1
           /\ revs' \in Seq(RevisionRow) /\ ChainsSound(revs')
           /\ Len(revs') = Len(revs) + n /\ Len(texts') = Len(revs) + n
           /\ WorkingRevision \in 0..Len(revs) /\ WorkingRevision' = Len(revs) + n
           /\ \A r \in 0..Len(revs) : Chain(revs', r) = Chain(revs, r)
           /\ \A j \in 1..n : Chain(revs', Len(revs) + j)
                                = Chain(revs, WorkingRevision) \cup ((Len(revs) + 1)..(Len(revs) + j))
           /\ StateAt(revs', Len(revs) + n) = StateAt(revs, WorkingRevision)
           /\ OpenCascades' = OpenCascades
           /\ \A c \in CascadeIds : cascades'[c].base = cascades[c].base
           /\ cascades' \in [CascadeIds -> CascadeRow]
           /\ (mode = "cascade" /\ head' = head) \/ (mode = "direct" /\ head' = Len(revs) + n)
           /\ mode = "direct" => OpenCascades = {} /\ cascades' = cascades
           /\ \A c \in OpenCascades : /\ c = OpenCascade /\ cascades[c].ref = WorkingRevision
                                      /\ cascades'[c].ref = Len(revs) + n
           /\ \A c \in CascadeIds \ OpenCascades : cascades'[c] = cascades[c]
<1>0. PICK L \in Nat : L = Len(revs)
  BY DEF Inv, TypeOK
<1>1. L \in Nat /\ n \in Nat /\ n >= 1
  <2>1. IsFiniteSet(set) /\ set # {} /\ n \in {1, Cardinality(set)}
    BY DEF Imports
  <2>2. Cardinality(set) \in Nat /\ Cardinality(set) # 0
    BY <2>1, FS_CardinalityType, FS_EmptySet
  <2>3. QED BY <2>1, <2>2
<1>2. /\ revs' \in Seq(RevisionRow) /\ Len(revs') = L + n /\ Len(texts') = L + n
      /\ ChainsSound(revs')
      /\ \A r \in 1..L : revs'[r] = revs[r]
      /\ \A j \in 1..n :
            /\ StateAt(revs', L + j) = StateAt(revs, WorkingRevision)
            /\ Chain(revs', L + j) = Chain(revs, WorkingRevision) \cup ((L + 1)..(L + j))
  BY <1>0 DEF Imports, Logged
<1>3. n \in 1..n
  BY <1>1
<1>4. \A r \in 0..L : Chain(revs', r) = Chain(revs, r)
  BY <1>0, <1>2 DEF Chain, NoRevision
<1>5. \/ /\ mode = "cascade" /\ IsOpen
         /\ cascades' = [cascades EXCEPT ![OpenCascade].ref = L + n]
         /\ head' = head
      \/ /\ mode = "direct" /\ ~IsOpen
         /\ head' = L + n
         /\ cascades' = cascades
  BY <1>0 DEF Imports
<1>6. WorkingRevision \in 0..L
  BY <1>0, WorkingRevisionExists DEF Inv
<1>7. CASE mode = "cascade"
  <2>1. OpenCascade \in OpenCascades /\ OpenCascade \in CascadeIds
    BY <1>5, <1>7 DEF IsOpen, OpenCascade, OpenCascades
  <2>2. \A c \in OpenCascades : c = OpenCascade
    BY <2>1 DEF Inv, StoreInv, CascadeAnchored
  <2>3. L + n \in Nat
    BY <1>1
  <2>4. /\ cascades' \in [CascadeIds -> CascadeRow]
        /\ \A c \in CascadeIds : /\ cascades'[c].base = cascades[c].base
                                 /\ cascades'[c].status = cascades[c].status
        /\ cascades'[OpenCascade].ref = L + n
        /\ \A c \in CascadeIds \ {OpenCascade} : cascades'[c] = cascades[c]
    <3>1. cascades' = [cascades EXCEPT ![OpenCascade].ref = L + n]
      BY <1>5, <1>7
    <3>2. cascades \in [CascadeIds -> CascadeRow]
      BY DEF Inv, TypeOK
    <3>3. QED BY <2>1, <2>3, <3>1, <3>2 DEF CascadeRow
  <2>5. OpenCascades' = OpenCascades
    BY <2>4 DEF OpenCascades
  <2>6. IsOpen /\ IsOpen' /\ OpenCascade' = OpenCascade
    BY <1>5, <1>7, <2>5 DEF IsOpen, OpenCascade
  <2>7. WorkingRevision' = L + n /\ WorkingRevision = cascades[OpenCascade].ref
    BY <2>4, <2>6 DEF WorkingRevision
  <2>8. /\ head' = head
        /\ \A c \in OpenCascades : c = OpenCascade /\ cascades[c].ref = WorkingRevision
                                   /\ cascades'[c].ref = L + n
        /\ \A c \in CascadeIds \ OpenCascades : cascades'[c] = cascades[c]
    BY <1>5, <1>7, <2>1, <2>2, <2>4, <2>7
  <2>9. StateAt(revs', L + n) = StateAt(revs, WorkingRevision)
    BY <1>2, <1>3
  <2>10. QED BY <1>0, <1>1, <1>2, <1>4, <1>6, <1>7, <2>4, <2>5, <2>7, <2>8, <2>9
<1>8. CASE mode = "direct"
  <2>1. OpenCascades = {} /\ cascades' = cascades /\ OpenCascades' = OpenCascades
    BY <1>5, <1>8 DEF IsOpen, OpenCascades
  <2>2. ~IsOpen' /\ WorkingRevision' = L + n
    BY <1>5, <1>8, <2>1 DEF IsOpen, WorkingRevision
  <2>3. QED BY <1>0, <1>1, <1>2, <1>3, <1>4, <1>5, <1>6, <1>8, <2>1, <2>2 DEF Inv, TypeOK
<1>9. QED BY <1>7, <1>8 DEF Modes

LEMMA ImportKeepsInv ==
    ASSUME Inv, NEW mode \in Modes, NEW set, NEW new, NEW n, Imports(mode, set, new, n)
    PROVE  Inv'
<1>0. PICK L \in Nat : L = Len(revs)
  BY DEF Inv, TypeOK
<1>1. /\ n \in Nat /\ n >= 1
      /\ revs' \in Seq(RevisionRow) /\ ChainsSound(revs')
      /\ Len(revs') = L + n
      /\ WorkingRevision \in 0..L /\ WorkingRevision' = L + n
      /\ \A r \in 0..L : Chain(revs', r) = Chain(revs, r)
      /\ Chain(revs', L + n) = Chain(revs, WorkingRevision) \cup ((L + 1)..(L + n))
      /\ StateAt(revs', L + n) = StateAt(revs, WorkingRevision)
      /\ OpenCascades' = OpenCascades
      /\ \A c \in CascadeIds : cascades'[c].base = cascades[c].base
      /\ cascades' \in [CascadeIds -> CascadeRow]
      /\ (mode = "cascade" /\ head' = head) \/ (mode = "direct" /\ head' = L + n)
      /\ mode = "direct" => OpenCascades = {} /\ cascades' = cascades
      /\ \A c \in OpenCascades : c = OpenCascade /\ cascades[c].ref = WorkingRevision
                                 /\ cascades'[c].ref = L + n
      /\ \A c \in CascadeIds \ OpenCascades : cascades'[c] = cascades[c]
  <2>1. n \in 1..n
    BY ImportFrame
  <2>2. QED BY <1>0, <2>1, ImportFrame
<1>2. UNCHANGED <<rows, planStatus, completed, bypassed>>
  BY DEF Imports
<1>3. L + n \in 1..(L + n) /\ \A r \in 1..L : r \in 1..(L + n)
  BY <1>1
<1>4. TypeOK'
  <2>1. head' \in 0..Len(revs')
    BY <1>0, <1>1 DEF Inv, TypeOK, Revisions, NoRevision
  <2>2. head' \in Revisions' \cup {NoRevision}
    BY <1>1, <2>1 DEF Revisions, NoRevision
  <2>3. QED BY <1>1, <1>2, <2>2 DEF Inv, TypeOK
<1>5. RefsExist'
  BY <1>0, <1>1, <1>3 DEF Inv, StoreInv, RefsExist, Revisions, OpenCascades
<1>6. CascadeAnchored'
  <2>1. \A c \in OpenCascades : cascades[c].base \in Chain(revs', cascades'[c].ref)
    BY <1>1 DEF Inv, StoreInv, CascadeAnchored
  <2>2. \A c \in CascadeIds : (cascades'[c].ref # NoRevision) <=> c \in OpenCascades'
    BY <1>0, <1>1 DEF Inv, StoreInv, CascadeAnchored, NoRevision
  <2>3. \A c \in OpenCascades : mode # "direct" /\ head' = head
    BY <1>1
  <2>4. \A c \in OpenCascades : c \in CascadeIds
    BY DEF OpenCascades
  <2>5. QED BY <1>1, <1>2, <2>1, <2>2, <2>3, <2>4 DEF Inv, StoreInv, CascadeAnchored
<1>7. RowsAgree'
  BY <1>1, <1>2 DEF Inv, RowsAgree
<1>8. QED BY <1>1, <1>4, <1>5, <1>6, <1>7 DEF Inv, StoreInv

LEMMA ImportKeepsText ==
    ASSUME Inv, TextInv, NEW mode \in Modes, NEW set, NEW new, NEW n,
           Imports(mode, set, new, n)
    PROVE  TextInv'
<1>0. PICK L \in Nat : L = Len(revs)
  BY DEF Inv, TypeOK
<1>1. PICK W \in 0..L : W = WorkingRevision
  BY <1>0, ImportFrame
<1>2. /\ n \in Nat /\ n >= 1 /\ Len(revs') = L + n /\ Len(texts') = L + n
      /\ WorkingRevision' = L + n
      /\ \A r \in 0..L : Chain(revs', r) = Chain(revs, r)
      /\ \A j \in 1..n : Chain(revs', L + j) = Chain(revs, W) \cup ((L + 1)..(L + j))
      /\ OpenCascades' = OpenCascades
      /\ \A c \in CascadeIds : cascades'[c].base = cascades[c].base
      /\ (mode = "cascade" /\ head' = head) \/ (mode = "direct" /\ head' = L + n)
      /\ mode = "direct" => OpenCascades = {}
      /\ \A c \in OpenCascades : cascades[c].ref = W /\ cascades'[c].ref = L + n
  BY <1>0, <1>1, ImportFrame
<1>3. /\ set # {} /\ set \subseteq Unused /\ IsFiniteSet(set) /\ DOMAIN new = set
      /\ \A p \in set : new[p] \in ParagraphRow /\ new[p].position = Place(set, p)
      /\ n \in {1, Cardinality(set)}
      /\ paras' = [p \in Paragraphs |-> IF p \in set THEN new[p] ELSE Absent]
      /\ replaced' = [p \in Paragraphs |-> IF p \in Stored THEN L + 1 ELSE replaced[p]]
  BY <1>0 DEF Imports
<1>4. set \subseteq Paragraphs /\ set \subseteq Nat
  BY <1>3, ParagraphsAssumption DEF Unused
<1>5. /\ LoggedBy(new, n, n) = set
      /\ \A j \in 1..n : LoggedBy(new, n, j) \subseteq set /\ Compact(new, LoggedBy(new, n, j))
  <2> DEFINE P == set
  <2>1. /\ P \subseteq Nat /\ IsFiniteSet(P) /\ P # {} /\ n \in {1, Cardinality(P)}
        /\ DOMAIN new = P /\ \A p \in P : new[p].position = Place(P, p)
    BY <1>3, <1>4
  <2> HIDE DEF P
  <2>2. /\ LoggedBy(new, n, n) = P
        /\ \A j \in 1..n : LoggedBy(new, n, j) \subseteq P /\ Compact(new, LoggedBy(new, n, j))
    BY <2>1, PartsFact
  <2>3. QED BY <2>2 DEF P
<1>6. /\ texts' \in Seq(TextRow)
      /\ \A r \in 1..L : texts'[r] = texts[r]
      /\ \A j \in 1..n :
            /\ texts'[L + j].touched = PartOf(new, n, j)
            /\ \A p \in Paragraphs :
                  Text!StateAt(texts', L + j)[p] =
                     IF p \in LoggedBy(new, n, j) THEN new[p] ELSE TextAt(W)[p]
  BY <1>0, <1>1, <1>3 DEF Imports, Logged
<1>7. /\ \A r \in 0..L : TextAt(r)' = TextAt(r)
      /\ \A j \in 1..n : \A p \in Paragraphs :
            TextAt(L + j)'[p] = IF p \in LoggedBy(new, n, j) THEN new[p] ELSE TextAt(W)[p]
  <2>1. \A r : TextAt(r)' = Text!StateAt(texts', r) /\ TextAt(r) = Text!StateAt(texts, r)
    BY DEF TextAt, Text!StateAt
  <2>2. \A r \in 0..L : Text!StateAt(texts', r) = Text!StateAt(texts, r)
    BY <1>0, <1>6 DEF Text!StateAt, Text!NoRevision
  <2>3. QED BY <1>6, <2>1, <2>2
<1>8. n \in 1..n /\ L + n \in Nat
  BY <1>2
<1>9. /\ TextAt(WorkingRevision)' = TextAt(L + n)'
      /\ \A p \in Paragraphs : TextAt(L + n)'[p] = IF p \in set THEN new[p] ELSE TextAt(W)[p]
  BY <1>2, <1>5, <1>7, <1>8 DEF TextAt
<1>10. \A p \in Paragraphs : replaced[p] \in 0..L
  BY <1>0 DEF TextInv, TextTyped
<1>11. /\ head \in 0..L
       /\ \A r \in 0..L : Chain(revs, r) \subseteq 1..L
       /\ \A c \in OpenCascades : /\ c \in CascadeIds
                                  /\ cascades[c].base \in 0..L /\ cascades[c].ref \in 0..L
  BY <1>0, RevisionFact
     DEF Inv, StoreInv, TypeOK, Revisions, NoRevision, RefsExist, OpenCascades
\* The new rows were never known.
<1>12. \A p \in set : p \notin Stored /\ replaced[p] = NoRevision
  <2>1. \A p \in set : ~Known(p) /\ p \in Paragraphs
    BY <1>3, <1>4 DEF Unused, Known
  <2>2. QED BY <2>1 DEF TextInv, GivenKnown, Stored
<1>13. \A p \in Paragraphs : /\ p \in Stored => replaced'[p] = L + 1
                             /\ p \notin Stored => replaced'[p] = replaced[p]
                             /\ paras'[p] = IF p \in set THEN new[p] ELSE Absent
  BY <1>3
<1>14. \A p \in Paragraphs : \A r \in 0..L :
          replaced'[p] \in Chain(revs, r) => replaced'[p] = replaced[p] /\ p \notin Stored /\ p \notin set
  <2>1. L + 1 \notin 1..L /\ 0 \notin 1..L
    OBVIOUS
  <2>2. QED BY <1>11, <1>12, <1>13, <2>1 DEF NoRevision
<1>15. \A p \in Paragraphs :
          replaced'[p] = NoRevision => /\ p \notin Stored /\ replaced[p] = NoRevision
                                       /\ TextAt(W)[p] = Absent
  BY <1>1, <1>13 DEF TextInv, TextRecorded, TextAt, Stored, NoRevision
<1>16. TextTyped'
  <2>1. paras' \in TextTables
    BY <1>3 DEF TextTables
  <2>2. \A p \in Paragraphs : replaced'[p] \in 0..(L + n)
    BY <1>2, <1>10, <1>13
  <2>3. replaced' \in [Paragraphs -> 0..(L + n)]
    BY <1>3, <2>2
  <2>4. QED BY <1>2, <1>6, <2>1, <2>3 DEF TextTyped
<1>17. TextRecorded'
  <2>1. SUFFICES ASSUME NEW p \in Paragraphs, replaced'[p] = NoRevision
                 PROVE  paras'[p] = TextAt(WorkingRevision)'[p]
    BY DEF TextRecorded, TextAt
  <2>2. QED BY <1>9, <1>13, <1>15, <2>1
<1>18. ReplacedGone'
  <2>1. SUFFICES ASSUME NEW p \in Paragraphs, replaced'[p] \in Chain(revs', WorkingRevision')
                 PROVE  paras'[p] = Absent
    BY DEF ReplacedGone
  <2>2. replaced'[p] # NoRevision
    <3>1. 0 \notin 1..L /\ 0 \notin (L + 1)..(L + n)
      OBVIOUS
    <3>2. QED BY <1>1, <1>2, <1>8, <1>11, <2>1, <3>1, SMTT(30) DEF NoRevision
  <2>3. p \notin set
    BY <1>12, <1>13, <2>2
  <2>4. QED BY <1>13, <2>3
<1>19. \A c \in OpenCascades :
          /\ mode # "direct" /\ head' = head
          /\ Chain(revs', head) = Chain(revs, head)
          /\ Chain(revs', cascades[c].base) = Chain(revs, cascades[c].base)
          /\ TextAt(head)' = TextAt(head)
          /\ TextAt(cascades[c].base)' = TextAt(cascades[c].base)
  <2>1. \A c \in OpenCascades : mode # "direct" /\ head' = head
    BY <1>2
  <2>2. \A c \in OpenCascades : TextAt(head)' = TextAt(head)
    BY <1>7, <1>11, <2>1 DEF TextAt
  <2>3. \A c \in OpenCascades : cascades'[c].base = cascades[c].base
    BY <1>2, <1>11
  <2>4. \A c \in OpenCascades : TextAt(cascades[c].base)' = TextAt(cascades[c].base)
    BY <1>7, <1>11, <2>3 DEF TextAt
  <2>5. QED BY <1>2, <1>11, <2>1, <2>2, <2>4
<1>20. TextHeadWaits'
  <2>1. SUFFICES ASSUME NEW c \in OpenCascades
                 PROVE  /\ TextAt(head) = TextAt(cascades[c].base)
                        /\ \A p \in Paragraphs : replaced'[p] \in Chain(revs, head) =>
                              replaced'[p] \in Chain(revs, cascades[c].base)
    BY <1>2, <1>11, <1>19 DEF TextHeadWaits, TextAt
  <2>2. /\ TextAt(head) = TextAt(cascades[c].base)
        /\ \A p \in Paragraphs : replaced[p] \in Chain(revs, head) =>
              replaced[p] \in Chain(revs, cascades[c].base)
    BY DEF TextInv, TextHeadWaits
  <2>3. QED BY <1>11, <1>14, <2>2
<1>21. TextBaseStays'
  <2>1. SUFFICES ASSUME NEW c \in OpenCascades
                 PROVE  /\ Chain(revs, cascades[c].base) \subseteq Chain(revs', L + n)
                        /\ \A p \in Paragraphs :
                              replaced'[p] \in Chain(revs, cascades[c].base) =>
                                 TextAt(L + n)'[p] = TextAt(cascades[c].base)[p]
    <3>1. \A c \in OpenCascades : /\ cascades'[c].ref = L + n
                                  /\ cascades'[c].base = cascades[c].base
                                  /\ TextAt(cascades[c].ref)' = TextAt(L + n)'
      BY <1>2, <1>11 DEF TextAt
    <3>2. QED BY <1>2, <1>19, <2>1, <3>1 DEF TextBaseStays
  <2>2. /\ cascades[c].ref = W
        /\ Chain(revs, cascades[c].base) \subseteq Chain(revs, W)
        /\ \A p \in Paragraphs :
              replaced[p] \in Chain(revs, cascades[c].base) =>
                 TextAt(W)[p] = TextAt(cascades[c].base)[p]
    BY <1>2 DEF TextInv, TextBaseStays
  <2>3. QED BY <1>2, <1>8, <1>9, <1>11, <1>14, <2>2
<1>22. GivenKnown'
  <2>1. \A p \in Paragraphs : Known(p) => Known(p)'
    <3>1. \A r \in 1..L : r \in 1..(L + n)
      BY <1>2
    <3>2. QED BY <1>0, <1>2, <1>6, <3>1 DEF Known, Revisions
  <2>2. \A p \in set : Known(p)'
    <3>1. \A j \in 1..n : L + j \in 1..(L + n)
      BY <1>2
    <3>2. \A p \in set : \E j \in 1..n : p \in texts'[L + j].touched
      BY <1>5, <1>6 DEF LoggedBy
    <3>3. QED BY <1>2, <3>1, <3>2 DEF Known, Revisions
  <2>3. ASSUME NEW p \in Paragraphs, p \notin set,
               \/ paras'[p] # Absent
               \/ replaced'[p] # NoRevision
               \/ \E r \in Revisions' : TextAt(r)'[p] # Absent
        PROVE  Known(p)
    <3>1. \/ paras[p] # Absent \/ replaced[p] # NoRevision
          \/ \E r \in 0..L : TextAt(r)[p] # Absent
      <4>1. ASSUME NEW r \in Revisions', TextAt(r)'[p] # Absent
            PROVE  \E q \in 0..L : TextAt(q)[p] # Absent
        <5>1. r \in 0..L \/ \E j \in 1..n : r = L + j
          <6>1. r \in 1..(L + n)
            BY <1>2 DEF Revisions
          <6>2. r \notin 0..L => r - L \in 1..n /\ r = L + (r - L)
            BY <1>2, <6>1
          <6>3. QED BY <6>2
        <5>2. CASE r \in 0..L
          BY <1>7, <4>1, <5>2
        <5>3. CASE \E j \in 1..n : r = L + j
          <6>1. PICK j \in 1..n : r = L + j
            BY <5>3
          <6>2. p \notin LoggedBy(new, n, j)
            BY <1>5, <2>3
          <6>3. TextAt(r)' = TextAt(L + j)'
            BY <6>1 DEF TextAt
          <6>4. TextAt(W)[p] # Absent
            BY <1>7, <4>1, <6>2, <6>3
          <6>5. QED BY <6>4
        <5>4. QED BY <5>1, <5>2, <5>3
      <4>2. paras'[p] = Absent
        BY <1>13, <2>3
      <4>3. QED BY <1>13, <2>3, <4>1, <4>2 DEF Stored
    <3>2. TextAt(0)[p] = Absent
      BY DEF TextAt, Text!StateAt, Text!EmptyState, Text!NoRevision
    <3>3. \A r \in 0..L : r # 0 => r \in Revisions
      BY <1>0 DEF Revisions
    <3>4. QED BY <3>1, <3>2, <3>3 DEF TextInv, GivenKnown
  <2>4. QED BY <2>1, <2>2, <2>3 DEF GivenKnown, TextAt
<1>23. ASSUME NEW r \in 0..L PROVE DenseAt(r)'
  <2>1. SUFFICES ASSUME AllKept(r)' PROVE Compact(TextAt(r)', Live(r)')
    BY DEF DenseAt, AllKept, Compact, Live, TextAt
  <2>2. \A p \in Paragraphs : replaced'[p] \in Chain(revs, r) \cup {NoRevision}
    BY <1>2, <2>1 DEF AllKept
  <2>3. \A p \in Paragraphs : replaced'[p] = replaced[p]
    BY <1>13, <1>14, <1>15, <2>2
  <2>4. AllKept(r)
    BY <2>2, <2>3 DEF AllKept
  <2>5. Compact(TextAt(r), Live(r))
    BY <1>0, <2>4 DEF TextInv, DenseAt, AllKept
  <2>6. TextAt(r)' = TextAt(r)
    BY <1>7
  <2>7. Live(r)' = Live(r)
    BY <2>3, <2>6 DEF Live, TextAt
  <2>8. QED BY <2>5, <2>6, <2>7
<1>24. ASSUME NEW j \in 1..n, NEW r, r = L + j PROVE DenseAt(r)'
  <2>1. SUFFICES Compact(TextAt(r)', Live(r)')
    BY DEF DenseAt, Compact, Live, TextAt
  <2>2. TextAt(r)' = TextAt(L + j)'
    BY <1>24 DEF TextAt
  <2>3. \A p \in LoggedBy(new, n, j) :
           /\ p \in Paragraphs /\ replaced'[p] = NoRevision
           /\ TextAt(r)'[p] = new[p] /\ TextAt(r)'[p] # Absent
    <3>1. SUFFICES ASSUME NEW p \in LoggedBy(new, n, j)
                   PROVE  /\ p \in Paragraphs /\ replaced'[p] = NoRevision
                          /\ TextAt(r)'[p] = new[p] /\ TextAt(r)'[p] # Absent
      OBVIOUS
    <3>2. p \in Paragraphs /\ replaced'[p] = NoRevision
      BY <1>3, <1>4, <1>5, <1>12, <1>13
    <3>3. TextAt(r)'[p] = new[p]
      BY <1>7, <2>2, <3>2
    <3>4. new[p] # Absent
      BY <1>3, <1>4, <1>5, <1>12, AbsentTextAssumption
    <3>5. QED BY <3>2, <3>3, <3>4
  <2>4. \A p \in Paragraphs \ LoggedBy(new, n, j) :
           replaced'[p] = NoRevision => TextAt(r)'[p] = Absent
    BY <1>7, <1>15, <2>2
  <2>5. Live(r)' = {p \in Paragraphs : replaced'[p] = NoRevision /\ TextAt(r)'[p] # Absent}
    BY DEF Live, TextAt
  <2>6. Live(r)' = LoggedBy(new, n, j)
    BY <2>3, <2>4, <2>5
  <2>7. \A p \in LoggedBy(new, n, j) : new[p] = TextAt(r)'[p]
    BY <2>3
  <2>8. Compact(TextAt(r)', LoggedBy(new, n, j))
    BY <1>5, <2>7, SameCompact
  <2>9. QED BY <2>6, <2>8
<1>25. \A r \in 0..Len(revs') : DenseAt(r)'
  <2>1. SUFFICES ASSUME NEW r \in 0..(L + n) PROVE DenseAt(r)'
    BY <1>2
  <2>2. CASE r \in 0..L
    BY <1>23, <2>2
  <2>3. CASE r \notin 0..L
    <3>1. r - L \in 1..n /\ r = L + (r - L)
      BY <1>2, <2>3
    <3>2. QED BY <1>24, <3>1
  <2>4. QED BY <2>2, <2>3
<1>26. QED BY <1>16, <1>17, <1>18, <1>20, <1>21, <1>22, <1>25
           DEF TextInv, DenseAt, TextAt, Live, Compact

----------------------------------------------------------------------------
(* The other commands of the plan                                          *)

\* A command on the steps or the MRS writes a revision without text.
LEMMA FollowsIsTextWrites ==
    ASSUME Inv, TextInv, NEW mode \in Modes, Writes(mode), TextFollows
    PROVE  \E changes : TextWrites(mode, changes)
<1> DEFINE none == <<>>
<1>1. DOMAIN none = {}
  OBVIOUS
<1>2. ~Aborts
  BY WritesFrame DEF Aborts, OpenCascades
<1>3. Len(revs') # Len(revs)
  BY WritesFrame DEF Inv, TypeOK
<1>4. /\ texts' = Text!RecordRevision(texts, revs'[Len(revs')].parent, none)
      /\ paras' = paras
      /\ UNCHANGED replaced
  BY <1>2, <1>3 DEF TextFollows, TextsFollow
<1> HIDE DEF none
<1>5. IsTextChange(none)
  BY <1>1 DEF IsTextChange
<1>6. paras' = [p \in Paragraphs |-> paras'[p]]
  BY <1>4 DEF TextInv, TextTyped, TextTables
<1>7. TextWrites(mode, none)
  BY <1>1, <1>4, <1>5, <1>6 DEF TextWrites
<1>8. QED BY <1>7

LEMMA FollowsWrite ==
    ASSUME Inv, TextInv, NEW mode \in Modes, Writes(mode), TextFollows
    PROVE  TextInv'
BY FollowsIsTextWrites, TextWritesKeep

\* Nothing is recorded and no row of the text changes.
LEMMA TextStays ==
    ASSUME TextInv, UNCHANGED <<revs, paras, texts, replaced>>,
           WorkingRevision' = WorkingRevision, TextHeadWaits', TextBaseStays'
    PROVE  TextInv'
<1>1. TextTyped' /\ TextRecorded' /\ ReplacedGone'
  BY DEF TextInv, TextTyped, TextRecorded, ReplacedGone
<1>2. GivenKnown'
  BY DEF TextInv, GivenKnown, Known, Revisions, TextAt
<1>3. ASSUME NEW r \in 0..Len(revs') PROVE DenseAt(r)'
  <2>1. DenseAt(r)
    BY <1>3 DEF TextInv
  <2>2. TextAt(r)' = TextAt(r) /\ Live(r)' = Live(r)
    BY DEF TextAt, Live
  <2>3. QED BY <2>1, <2>2 DEF DenseAt, Compact, TextAt, Live
<1>4. QED BY <1>1, <1>2, <1>3 DEF TextInv, DenseAt, TextAt, Live, Compact

LEMMA BegunText ==
    ASSUME Inv, TextInv, NEW c \in CascadeIds, OpenNewCascade(c), TextFollows
    PROVE  /\ cascades'[c].base = head /\ cascades'[c].ref = head /\ OpenCascades' = {c}
           /\ UNCHANGED <<revs, head, paras, texts, replaced>>
           /\ WorkingRevision' = WorkingRevision
<1>1. /\ ~IsOpen
      /\ cascades' = [cascades EXCEPT ![c] = [status |-> "open", base |-> head, ref |-> head]]
      /\ UNCHANGED <<revs, head>>
  BY DEF OpenNewCascade
<1>2. /\ cascades'[c].status = "open" /\ cascades'[c].base = head /\ cascades'[c].ref = head
      /\ \A d \in CascadeIds \ {c} : cascades'[d] = cascades[d]
  BY <1>1 DEF Inv, TypeOK
<1>3. OpenCascades = {}
  BY <1>1 DEF IsOpen
<1>4. OpenCascades' = {c}
  BY <1>2, <1>3 DEF OpenCascades
<1>5. WorkingRevision' = WorkingRevision
  <2>1. IsOpen' /\ OpenCascade' = c
    BY <1>4 DEF IsOpen, OpenCascade
  <2>2. QED BY <1>1, <1>2, <2>1 DEF WorkingRevision
<1>6. UNCHANGED <<paras, texts, replaced>>
  BY <1>1, <1>3 DEF TextFollows, TextsFollow, Aborts
<1>7. QED BY <1>1, <1>2, <1>4, <1>5, <1>6

LEMMA FollowsBegin ==
    ASSUME Inv, TextInv, NEW c \in CascadeIds, OpenNewCascade(c), TextFollows
    PROVE  TextInv'
<1>1. /\ cascades'[c].base = head /\ cascades'[c].ref = head /\ OpenCascades' = {c}
      /\ UNCHANGED <<revs, head, paras, texts, replaced>>
      /\ WorkingRevision' = WorkingRevision
  BY BegunText
<1>2. TextHeadWaits'
  BY <1>1 DEF TextHeadWaits, TextAt
<1>3. TextBaseStays'
  BY <1>1 DEF TextBaseStays, TextAt
<1>4. QED BY <1>1, <1>2, <1>3, TextStays

LEMMA CommittedText ==
    ASSUME Inv, TextInv, NEW c \in CascadeIds, CascadeCommit(c), TextFollows
    PROVE  /\ UNCHANGED <<revs, paras, texts, replaced>> /\ OpenCascades' = {}
           /\ WorkingRevision' = WorkingRevision
<1>1. /\ c \in OpenCascades
      /\ cascades' = [cascades EXCEPT ![c].status = "committed", ![c].ref = NoRevision]
      /\ revs' = revs
  BY DEF CascadeCommit
<1>2. ~IsOpen' /\ WorkingRevision' = WorkingRevision
  BY CommitKeepsInv
<1>3. OpenCascades' = {}
  BY <1>2 DEF IsOpen
<1>4. ~Aborts
  <2>1. \A d \in OpenCascades : d = c
    BY <1>1 DEF Inv, StoreInv, CascadeAnchored
  <2>2. cascades'[c].status = "committed"
    BY <1>1, CascadeEnds DEF Inv
  <2>3. QED BY <2>1, <2>2 DEF Aborts
<1>5. UNCHANGED <<paras, texts, replaced>>
  BY <1>1, <1>4 DEF TextFollows, TextsFollow
<1>6. QED BY <1>1, <1>2, <1>3, <1>5

LEMMA FollowsCommit ==
    ASSUME Inv, TextInv, NEW c \in CascadeIds, CascadeCommit(c), TextFollows
    PROVE  TextInv'
<1>1. /\ UNCHANGED <<revs, paras, texts, replaced>> /\ OpenCascades' = {}
      /\ WorkingRevision' = WorkingRevision
  BY CommittedText
<1>2. TextHeadWaits' /\ TextBaseStays'
  BY <1>1 DEF TextHeadWaits, TextBaseStays
<1>3. QED BY <1>1, <1>2, TextStays

\* What an abort does to the text: the rows that differ between the tip and the
\* base are as at the base.
LEMMA AbortedText ==
    ASSUME Inv, TextInv, NEW c \in CascadeIds, CascadeAbort(c), TextFollows
    PROVE  /\ c \in OpenCascades /\ OpenCascades' = {}
           /\ revs' = revs /\ head' = head /\ UNCHANGED <<texts, replaced>>
           /\ WorkingRevision' = head /\ WorkingRevision = cascades[c].ref
           /\ paras' = [p \in Paragraphs |-> paras'[p]]
           /\ \A p \in Paragraphs :
                 \/ /\ paras'[p] = TextAt(cascades[c].base)[p]
                    /\ TextAt(cascades[c].base)[p] # TextAt(cascades[c].ref)[p]
                 \/ /\ paras'[p] = paras[p]
                    /\ TextAt(cascades[c].base)[p] = TextAt(cascades[c].ref)[p]
           /\ TextAt(head) = TextAt(cascades[c].base)
<1> DEFINE base == cascades[c].base
           tip  == cascades[c].ref
<1>1. /\ c \in OpenCascades
      /\ cascades' = [cascades EXCEPT ![c].status = "aborted", ![c].ref = NoRevision]
      /\ revs' = revs /\ head' = head
  BY DEF CascadeAbort
<1>2. ~IsOpen' /\ WorkingRevision' = head
  BY AbortKeepsInv
<1>3. OpenCascades' = {}
  BY <1>2 DEF IsOpen
<1>4. /\ \A d \in OpenCascades : d = c
      /\ cascades'[c].status = "aborted" /\ WorkingRevision = tip
  <2>1. \A d \in OpenCascades : d = c
    BY <1>1 DEF Inv, StoreInv, CascadeAnchored
  <2>2. cascades'[c].status = "aborted" /\ WorkingRevision = tip
    BY <1>1, CascadeEnds DEF Inv
  <2>3. QED BY <2>1, <2>2
<1>5. /\ paras' = Text!Restored(texts, paras, base, tip)
      /\ UNCHANGED <<texts, replaced>>
  <2>1. Aborts
    BY <1>1, <1>4 DEF Aborts
  <2>2. (CHOOSE d \in OpenCascades : cascades'[d].status = "aborted") = c
    BY <1>1, <1>4
  <2>3. QED BY <1>1, <2>1, <2>2 DEF TextFollows, TextsFollow
<1>6. \A p \in Paragraphs :
         \/ paras'[p] = TextAt(base)[p] /\ TextAt(base)[p] # TextAt(tip)[p]
         \/ paras'[p] = paras[p] /\ TextAt(base)[p] = TextAt(tip)[p]
  BY <1>5 DEF Text!Restored, Text!Changed, Text!Removed, Text!Added, TextAt
<1>7. paras' = [p \in Paragraphs |-> paras'[p]]
  BY <1>5 DEF Text!Restored
<1>8. TextAt(head) = TextAt(base)
  BY <1>1 DEF TextInv, TextHeadWaits
<1>9. QED BY <1>1, <1>2, <1>3, <1>4, <1>5, <1>6, <1>7, <1>8

LEMMA FollowsAbort ==
    ASSUME Inv, TextInv, NEW c \in CascadeIds, CascadeAbort(c), TextFollows
    PROVE  TextInv'
<1> DEFINE base == cascades[c].base
           tip  == cascades[c].ref
           B == TextAt(base)
           T == TextAt(tip)
<1>1. /\ c \in OpenCascades /\ OpenCascades' = {}
      /\ revs' = revs /\ head' = head /\ UNCHANGED <<texts, replaced>>
      /\ WorkingRevision' = head /\ WorkingRevision = tip
      /\ paras' = [p \in Paragraphs |-> paras'[p]]
      /\ \A p \in Paragraphs :
            \/ paras'[p] = B[p] /\ B[p] # T[p]
            \/ paras'[p] = paras[p] /\ B[p] = T[p]
      /\ TextAt(head) = B
  BY AbortedText
<1>6. base \in Revisions /\ tip \in Revisions
  BY <1>1 DEF Inv, StoreInv, RefsExist
<1>7. /\ texts \in Seq(TextRow) /\ Len(texts) = Len(revs) /\ paras \in TextTables
      /\ base \in 0..Len(texts)
  BY <1>6 DEF TextInv, TextTyped, Revisions
<1>8. TextAt(base) \in TextTables
  BY <1>7, TextStateFact DEF TextAt
<1> HIDE DEF B, T
<1>10. paras' \in TextTables
  <2>1. paras' = [p \in Paragraphs |-> paras'[p]]
    BY <1>1
  <2>2. \A p \in Paragraphs : paras'[p] \in ParagraphRow \cup {Absent}
    BY <1>1, <1>7, <1>8 DEF B, TextTables
  <2>3. QED BY <2>1, <2>2, TextTableMade
<1>11. TextTyped'
  BY <1>1, <1>10 DEF TextInv, TextTyped
<1>13. TextRecorded'
  <2>1. SUFFICES ASSUME NEW p \in Paragraphs, replaced[p] = NoRevision
                 PROVE  paras'[p] = TextAt(head)[p]
    BY <1>1 DEF TextRecorded, TextAt
  <2>2. paras[p] = T[p]
    BY <1>1, <2>1 DEF TextInv, TextRecorded, TextAt, T
  <2>3. QED BY <1>1, <2>2
<1>14. ReplacedGone'
  <2>1. SUFFICES ASSUME NEW p \in Paragraphs, replaced[p] \in Chain(revs, head)
                 PROVE  paras'[p] = Absent
    BY <1>1 DEF ReplacedGone
  <2>2. replaced[p] \in Chain(revs, base)
    BY <1>1, <2>1 DEF TextInv, TextHeadWaits
  <2>3. /\ Chain(revs, base) \subseteq Chain(revs, tip)
        /\ T[p] = B[p]
    BY <1>1, <2>2 DEF TextInv, TextBaseStays, B, T
  <2>4. paras[p] = Absent
    BY <1>1, <2>2, <2>3 DEF TextInv, ReplacedGone
  <2>5. QED BY <1>1, <2>3, <2>4
<1>15. GivenKnown'
  <2>1. SUFFICES ASSUME NEW p \in Paragraphs,
                        \/ paras'[p] # Absent
                        \/ replaced[p] # NoRevision
                        \/ \E r \in Revisions : TextAt(r)[p] # Absent
                 PROVE  Known(p)
    BY <1>1 DEF GivenKnown, Known, Revisions, TextAt
  <2>2. paras'[p] # Absent => paras[p] # Absent \/ TextAt(base)[p] # Absent
    BY <1>1 DEF B
  <2>3. QED BY <1>6, <2>1, <2>2 DEF TextInv, GivenKnown
<1>16. ASSUME NEW r \in 0..Len(revs') PROVE DenseAt(r)'
  <2>1. DenseAt(r)
    BY <1>1, <1>16 DEF TextInv
  <2>2. TextAt(r)' = TextAt(r) /\ Live(r)' = Live(r)
    BY <1>1 DEF TextAt, Live
  <2>3. QED BY <1>1, <2>1, <2>2 DEF DenseAt, Compact, TextAt, Live
<1>17. TextHeadWaits' /\ TextBaseStays'
  BY <1>1 DEF TextHeadWaits, TextBaseStays
<1>18. QED BY <1>11, <1>13, <1>14, <1>15, <1>16, <1>17
           DEF TextInv, DenseAt, TextAt, Live, Compact

\* No command touches what the text is made of.
LEMMA FollowsRest ==
    ASSUME TextInv, UNCHANGED <<revs, head, cascades>>, UNCHANGED textVars
    PROVE  TextInv'
<1>1. UNCHANGED <<paras, texts, replaced>>
  BY DEF textVars
<1>2. OpenCascades' = OpenCascades
  BY DEF OpenCascades
<1>3. WorkingRevision' = WorkingRevision
  BY <1>2 DEF WorkingRevision, IsOpen, OpenCascade
<1>4. TextHeadWaits' /\ TextBaseStays'
  BY <1>1, <1>2 DEF TextInv, TextHeadWaits, TextBaseStays, TextAt
<1>5. QED BY <1>1, <1>3, <1>4, TextStays

LEMMA FollowsNext ==
    ASSUME Inv, TextInv, Next, TextFollows
    PROVE  TextInv'
<1>1. CASE \E mode \in Modes : Writes(mode)
  BY <1>1, FollowsWrite
<1>2. CASE \E c \in CascadeIds : CascadeBegin(c) \/ PlanUnfreeze(c)
  BY <1>2, BeginKeepsInv, FollowsBegin
<1>3. CASE \E c \in CascadeIds : CascadeCommit(c) \/ CascadeAbort(c)
  BY <1>3, FollowsCommit, FollowsAbort
<1>4. CASE \E flag \in BOOLEAN : PlanCompletedSet(flag)
  <2>1. UNCHANGED <<revs, head, cascades>>
    BY <1>4 DEF PlanCompletedSet
  <2>2. ~Aborts
    BY <2>1 DEF Aborts, OpenCascades
  <2>3. UNCHANGED textVars
    BY <2>1, <2>2 DEF TextFollows, TextsFollow, textVars
  <2>4. QED BY <2>1, <2>3, FollowsRest
<1>5. QED BY <1>1, <1>2, <1>3, <1>4, NextIsWriteOrCascade

LEMMA TextCommandKeeps ==
    ASSUME Inv, TextInv, NEW mode \in Modes, TextCommand(mode)
    PROVE  Inv' /\ TextInv'
<1>1. ASSUME NEW changes, TextWrites(mode, changes) PROVE Inv' /\ TextInv'
  <2>1. TextInv'
    BY <1>1, TextWritesKeep
  <2>2. Inv'
    BY <1>1, WritesKeepInv DEF TextWrites
  <2>3. QED BY <2>1, <2>2
<1>2. CASE \E text \in Texts : \E place \in Binding \cup {0} : ParaInsert(text, place, mode)
  BY <1>1, <1>2, ParaInsertWrites
<1>3. CASE \E text \in Texts : \E p \in Paragraphs : ParaUpdate(p, text, mode)
  BY <1>1, <1>3, ParaUpdateWrites
<1>4. CASE \E p \in Paragraphs : ParaDelete(p, mode)
  BY <1>1, <1>4, ParaDeleteWrites
<1>5. CASE \E p \in Paragraphs : \E binding \in BOOLEAN : ParaMarkNonBinding(p, binding, mode)
  BY <1>1, <1>5, ParaMarkWrites
<1>6. CASE \E doc \in Documents : HrsImport(doc, mode)
  <2>1. PICK doc \in Documents : HrsImport(doc, mode)
    BY <1>6
  <2>2. PICK set, new, n : Imports(mode, set, new, n)
    BY <2>1, HrsImportImports
  <2>3. QED BY <2>2, ImportKeepsInv, ImportKeepsText
<1>7. QED BY <1>2, <1>3, <1>4, <1>5, <1>6 DEF TextCommand

LEMMA NextTextKeeps ==
    ASSUME Inv, TextInv, [NextText]_<<vars, textVars>>
    PROVE  Inv' /\ TextInv'
<1>1. CASE Next /\ TextFollows
  <2>1. Inv'
    BY <1>1, NextInv
  <2>2. QED BY <1>1, <2>1, FollowsNext
<1>2. CASE \E mode \in Modes : TextCommand(mode)
  BY <1>2, TextCommandKeeps
<1>3. CASE UNCHANGED <<vars, textVars>>
  <2>1. UNCHANGED vars /\ UNCHANGED textVars
    BY <1>3
  <2>2. Inv'
    BY <2>1, NextInv
  <2>3. UNCHANGED <<revs, head, cascades>>
    BY <2>1 DEF vars
  <2>4. QED BY <2>1, <2>2, <2>3, FollowsRest
<1>4. QED BY <1>1, <1>2, <1>3 DEF NextText

----------------------------------------------------------------------------
(* The invariant holds                                                     *)

LEMMA NoneCompact == ASSUME NEW t PROVE Compact(t, {})
<1>1. Cardinality({}) = 0 /\ 0..(0 - 1) = {}
  BY FS_EmptySet
<1>2. QED BY <1>1 DEF Compact

LEMMA InitTextInv == ASSUME InitText PROVE Inv /\ TextInv
<1>1. /\ Init
      /\ replaced = [p \in Paragraphs |-> NoRevision]
  BY DEF InitText
<1>2. Inv
  BY <1>1, InitInv
<1>3. OpenCascades = {} /\ WorkingRevision = head
  <2>1. \A c \in CascadeIds : cascades[c].status = "none"
    BY <1>1 DEF Init, NoCascade
  <2>2. OpenCascades = {}
    BY <2>1 DEF OpenCascades
  <2>3. QED BY <2>2 DEF WorkingRevision, IsOpen
<1>4. \/ revs = <<>> /\ Len(revs) = 0 /\ head = 0
      \/ revs # <<>> /\ Len(revs) = 1 /\ head = 1
  <2>1. CASE revs = <<>> /\ head = NoRevision
    BY <2>1 DEF NoRevision
  <2>2. CASE \E x : revs = Append(<<>>, x) /\ head = 1
    <3>1. PICK x : revs = Append(<<>>, x) /\ head = 1
      BY <2>2
    <3>2. revs = <<x>>
      BY <3>1
    <3>3. QED BY <3>1, <3>2
  <2>3. \/ revs = <<>> /\ head = NoRevision
        \/ \E tree \in ImportTrees :
              /\ revs = RecordRevision(<<>>, NoRevision,
                                      [s \in {s \in Steps : tree[s] # Absent} |-> tree[s]])
              /\ head = 1
    BY <1>1 DEF Init
  <2>4. \/ revs = <<>> /\ head = NoRevision
        \/ \E x : revs = Append(<<>>, x) /\ head = 1
    BY <2>3, Zenon DEF RecordRevision
  <2>5. QED BY <2>1, <2>2, <2>4
<1>5. TextHeadWaits /\ TextBaseStays
  BY <1>3 DEF TextHeadWaits, TextBaseStays
<1>6. ReplacedGone
  <2>1. Chain(revs, head) \subseteq 1..Len(revs)
    <3>1. head \in 0..Len(revs) /\ revs \in Seq(RevisionRow) /\ ChainsSound(revs)
      BY <1>2, <1>4 DEF Inv, TypeOK, StoreInv
    <3>2. QED BY <3>1, RevisionFact
  <2>2. 0 \notin 1..Len(revs)
    BY <1>4
  <2>3. QED BY <1>1, <1>3, <2>1, <2>2 DEF ReplacedGone, NoRevision
<1>7. replaced \in [Paragraphs -> 0..Len(revs)]
  BY <1>1, <1>4 DEF NoRevision
<1>8. TextAt(0) = [p \in Paragraphs |-> Absent] /\ Live(0) = {}
  BY DEF TextAt, Live, Text!StateAt, Text!EmptyState, Text!NoRevision
<1>9. DenseAt(0)
  BY <1>8, NoneCompact DEF DenseAt
<1>10. CASE revs = <<>>
  <2>1. paras = [p \in Paragraphs |-> Absent] /\ texts = <<>>
    BY <1>10 DEF InitText, Text!EmptyState
  <2>2. TextTyped
    BY <1>4, <1>7, <1>10, <2>1 DEF TextTyped, TextTables
  <2>3. TextRecorded
    BY <1>3, <1>4, <1>8, <1>10, <2>1 DEF TextRecorded, TextAt
  <2>4. GivenKnown
    <3>1. Revisions = {}
      BY <1>4, <1>10 DEF Revisions
    <3>2. QED BY <1>1, <2>1, <3>1 DEF GivenKnown
  <2>5. 0..Len(revs) = {0}
    BY <1>4, <1>10
  <2>6. QED BY <1>2, <1>5, <1>6, <1>9, <2>2, <2>3, <2>4, <2>5 DEF TextInv
<1>11. CASE revs # <<>>
  <2>1. PICK doc \in Documents :
           /\ paras = Overlay(Text!EmptyState, Rowed(Least(Paragraphs, Len(doc)), doc))
           /\ texts = Text!RecordRevision(<<>>, NoRevision, Rowed(Least(Paragraphs, Len(doc)), doc))
    BY <1>11 DEF InitText
  <2>2. doc \in Seq(Texts) /\ Len(doc) \in Nat
    BY TextsAssumption
  <2> DEFINE set == Least(Paragraphs, Len(doc))
             new == Rowed(set, doc)
             none == <<>>
  <2>3. IsFiniteSet(set) /\ Cardinality(set) \in 0..Len(doc) /\ set \subseteq Paragraphs
    <3>1. Paragraphs \subseteq Nat /\ IsFiniteSet(Paragraphs)
      BY ParagraphsAssumption
    <3>2. /\ set = {p \in Paragraphs : Place(Paragraphs, p) < Len(doc)}
          /\ IsFiniteSet(set)
          /\ Cardinality(set) \in 0..Len(doc)
      BY <2>2, <3>1, LeastPlaces, ZenonT(40)
    <3>3. QED BY <3>2
  <2> HIDE DEF set
  <2>4. /\ \A p \in set : Place(set, p) \in 0..(Cardinality(set) - 1)
        /\ \A k \in 0..(Cardinality(set) - 1) : \E p \in set : Place(set, p) = k
    <3> DEFINE P == set
    <3>1. P \subseteq Nat /\ IsFiniteSet(P)
      BY <2>3, ParagraphsAssumption
    <3> HIDE DEF P
    <3>2. /\ \A p \in P : Place(P, p) \in 0..(Cardinality(P) - 1)
          /\ \A k \in 0..(Cardinality(P) - 1) : \E p \in P : Place(P, p) = k
      BY <3>1, Places
    <3>3. QED BY <3>2 DEF P
  <2>5. /\ DOMAIN new = set
        /\ \A p \in set : new[p] \in ParagraphRow /\ new[p].position = Place(set, p)
    <3>1. ASSUME NEW p \in set
          PROVE  new[p] \in ParagraphRow /\ new[p].position = Place(set, p)
      <4>1. new[p] = [text |-> doc[Place(set, p) + 1], position |-> Place(set, p),
                      binding |-> TRUE]
        BY DEF Rowed, Place
      <4>2. Place(set, p) \in Nat /\ Place(set, p) + 1 \in 1..Len(doc)
        BY <2>2, <2>3, <2>4
      <4>3. doc[Place(set, p) + 1] \in Texts
        BY <2>2, <4>2
      <4> HIDE DEF new
      <4>4. QED BY <4>1, <4>2, <4>3 DEF ParagraphRow
    <3>2. QED BY <3>1 DEF Rowed
  <2>6. texts = Text!RecordRevision(none, 0, new) /\ none \in Seq(TextRow) /\ Len(none) = 0
    BY <2>1 DEF set, NoRevision
  <2>7. paras = [p \in Paragraphs |-> IF p \in set THEN new[p] ELSE Absent]
    BY <2>1, <2>5 DEF set, Overlay, Text!EmptyState
  <2> HIDE DEF new, none
  <2>8. IsTextChange(new)
    BY <2>3, <2>5 DEF IsTextChange
  <2>9. TextLogged(none, texts, 0, new)
    <3>1. 0 \in 0..Len(none)
      BY <2>6
    <3>2. QED BY <2>6, <2>8, <3>1, TextLogFact
  <2>10. /\ texts \in Seq(TextRow) /\ Len(texts) = 1
         /\ texts[1].touched = set
         /\ \A p \in Paragraphs : TextAt(1)[p] = IF p \in set THEN new[p] ELSE Absent
    <3>1. Len(none) + 1 = 1 /\ Text!StateAt(none, 0) = [p \in Paragraphs |-> Absent]
      BY <2>6 DEF Text!StateAt, Text!EmptyState, Text!NoRevision
    <3>2. QED BY <2>5, <2>9, <3>1 DEF TextLogged, TextAt
  <2>11. \A p \in set : new[p] # Absent
    BY <2>5, AbsentTextAssumption
  <2>12. TextTyped
    <3>1. paras \in TextTables
      BY <2>5, <2>7 DEF TextTables
    <3>2. QED BY <1>4, <1>7, <1>11, <2>10, <3>1 DEF TextTyped
  <2>13. TextRecorded
    BY <1>3, <1>4, <1>11, <2>7, <2>10 DEF TextRecorded, TextAt
  <2>14. GivenKnown
    <3>1. Revisions = {1}
      <4>1. Len(revs) = 1 /\ 1..1 = {1}
        BY <1>4, <1>11
      <4>2. QED BY <4>1 DEF Revisions
    <3>2. \A p \in Paragraphs : p \in set <=> Known(p)
      BY <2>10, <3>1 DEF Known
    <3>3. QED BY <1>1, <2>7, <2>10, <3>1, <3>2 DEF GivenKnown
  <2>15. Live(1) = set
    BY <1>1, <2>3, <2>10, <2>11 DEF Live
  <2>16. Compact(TextAt(1), set)
    <3>1. \A p \in set : TextAt(1)[p].position = Place(set, p)
      BY <2>3, <2>5, <2>10
    <3>2. {TextAt(1)[p].position : p \in set} = 0..(Cardinality(set) - 1)
      BY <2>4, <3>1
    <3>3. QED BY <3>2 DEF Compact
  <2>17. DenseAt(1)
    BY <2>15, <2>16 DEF DenseAt
  <2>18. 0..Len(revs) = {0, 1}
    <3>1. Len(revs) = 1 /\ 0..1 = {0, 1}
      BY <1>4, <1>11
    <3>2. QED BY <3>1
  <2>19. QED BY <1>2, <1>5, <1>6, <1>9, <2>12, <2>13, <2>14, <2>17, <2>18 DEF TextInv
<1>12. QED BY <1>10, <1>11

LEMMA TextInvariant == SpecText => [](Inv /\ TextInv)
<1>1. InitText => Inv /\ TextInv
  BY InitTextInv
<1>2. (Inv /\ TextInv) /\ [NextText]_<<vars, textVars>> => (Inv /\ TextInv)'
  BY NextTextKeeps
<1>3. QED BY <1>1, <1>2, PTL DEF SpecText

----------------------------------------------------------------------------
(* The theorems                                                            *)

\* Every row of the table of paragraphs, its place included, is what
\* current_working_state reads for it at the revision that is worked on, but
\* for rows that an import has replaced: shift_positions has the rows it moved
\* snapshotted with the one that was inserted or deleted, and cascade_abort
\* restores what the cascade changed (hrs/paragraph_edit.py, cascade/regime.py).
THEOREM TextsRecorded == SpecText => []TextRecorded
<1>1. Inv /\ TextInv => TextRecorded
  BY DEF TextInv
<1>2. QED BY <1>1, TextInvariant, PTL

\* Without an import lost to an abort, the positions of all paragraphs of the
\* plan are 0, 1, 2 ...: para_insert makes room, para_delete closes the gap,
\* hrs_import numbers afresh, and an abort goes back to a text that was dense.
THEOREM TextsDense == SpecText => []TextDense
<1>1. Inv /\ TextInv => TextDense
  <2>1. SUFFICES ASSUME Inv, TextInv, \A p \in Paragraphs : ~LostWith(p)
                 PROVE  {paras[p].position : p \in Stored} = 0..(Cardinality(Stored) - 1)
    BY DEF TextDense
  <2>2. AllKept(WorkingRevision)
    BY <2>1 DEF AllKept, LostWith
  <2>3. StoredIsLive
    BY <2>1, <2>2, StoredIsLiveNow DEF TextInv
  <2>4. DenseAt(WorkingRevision)
    BY <2>1, WorkingRevisionExists DEF Inv, TextInv
  <2>5. Compact(TextAt(WorkingRevision), Stored)
    BY <2>2, <2>3, <2>4 DEF DenseAt, AllKept, StoredIsLive
  <2>6. \A p \in Stored : TextAt(WorkingRevision)[p] = paras[p]
    BY <2>3 DEF StoredIsLive
  <2>7. Compact(paras, Stored)
    BY <2>5, <2>6, SameCompact
  <2>8. QED BY <2>7 DEF Compact
<1>2. QED BY <1>1, TextInvariant, PTL

----------------------------------------------------------------------------
(* Commands on the text leave the steps alone                              *)

\* What a command on the text does to the rest of the plan: it records one
\* revision, or several, that hold what the working revision held of it.
TextEdit ==
    /\ UNCHANGED <<rows, planStatus, completed, bypassed>>
    /\ OpenCascades' = OpenCascades
    /\ \A c \in CascadeIds : /\ cascades'[c].base = cascades[c].base
                             /\ cascades'[c].status = cascades[c].status
    /\ Len(revs') \in Nat /\ Len(revs) < Len(revs')
    /\ WorkingRevision' = Len(revs')
    /\ head' = IF IsOpen THEN head ELSE Len(revs')
    /\ \A r \in 0..Len(revs) : /\ StateAt(revs', r) = StateAt(revs, r)
                               /\ Chain(revs', r) = Chain(revs, r)
    /\ \A r \in (Len(revs) + 1)..Len(revs') :
          /\ StateAt(revs', r) = StateAt(revs, WorkingRevision)
          /\ Chain(revs', r) = Chain(revs, WorkingRevision) \cup ((Len(revs) + 1)..r)

LEMMA RecordedTextEdits ==
    ASSUME Inv, NEW mode \in Modes, Admitted(mode), NEW changes, RecordText(mode, changes)
    PROVE  TextEdit
<1> DEFINE none == <<>>
           W == WorkingRevision
<1>1. /\ revs \in Seq(RevisionRow) /\ Len(revs) \in Nat /\ ChainsSound(revs)
      /\ W \in 0..Len(revs)
      /\ cascades \in [CascadeIds -> CascadeRow]
  BY WorkingRevisionExists DEF Inv, TypeOK, StoreInv
<1>2. Record(mode, none) /\ UNCHANGED <<rows, planStatus, completed, bypassed>>
  BY DEF RecordText
<1>3. IF mode = "cascade" THEN IsOpen ELSE mode = "direct" /\ ~IsOpen
  BY DEF Admitted, AdmitPlan, AdmitCascade, Modes
<1>4. /\ revs' = RecordRevision(revs, W, none)
      /\ head' = IF IsOpen THEN head ELSE Len(revs) + 1
      /\ IF IsOpen THEN cascades' = [cascades EXCEPT ![OpenCascade].ref = Len(revs) + 1]
                   ELSE cascades' = cascades
  BY <1>2, <1>3 DEF Record, WorkingRevision
<1>5. IsChange(none) /\ \A t \in Tables : Overlay(t, none) = t
  BY NothingChanged
<1> HIDE DEF none
<1>6. /\ Len(revs') = Len(revs) + 1
      /\ \A r \in 1..Len(revs) : revs'[r] = revs[r]
      /\ revs'[Len(revs) + 1] = NewRevision(revs, W, none)
  <2> HIDE DEF W
  <2>1. QED BY <1>1, <1>4, <1>5, RecordRevisionFact
<1>7. \A r \in 0..Len(revs) : StateAt(revs', r) = StateAt(revs, r) /\ Chain(revs', r) = Chain(revs, r)
  BY <1>1, <1>6 DEF StateAt, Chain, NoRevision
<1>8. /\ StateAt(revs', Len(revs) + 1) = StateAt(revs, W)
      /\ Chain(revs', Len(revs) + 1) = Chain(revs, W) \cup {Len(revs) + 1}
  <2> HIDE DEF W
  <2>1. Len(revs) + 1 # NoRevision
    BY <1>1 DEF NoRevision
  <2>2. StateAt(revs, W) \in Tables
    BY <1>1, RevisionFact
  <2>3. QED BY <1>5, <1>6, <2>1, <2>2 DEF StateAt, Chain, NewRevision
<1>9. \A r \in (Len(revs) + 1)..Len(revs') : r = Len(revs) + 1 /\ (Len(revs) + 1)..r = {r}
  BY <1>1, <1>6
<1>10. /\ \A c \in CascadeIds : /\ cascades'[c].base = cascades[c].base
                                /\ cascades'[c].status = cascades[c].status
       /\ IsOpen => cascades'[OpenCascade].ref = Len(revs) + 1
  <2>1. IsOpen => OpenCascade \in CascadeIds
    BY DEF IsOpen, OpenCascade, OpenCascades
  <2>2. QED BY <1>1, <1>4, <2>1, SMTT(30) DEF CascadeRow
<1>11. OpenCascades' = OpenCascades
  BY <1>10 DEF OpenCascades
<1>12. WorkingRevision' = Len(revs) + 1
  <2>1. (IsOpen' <=> IsOpen) /\ OpenCascade' = OpenCascade
    BY <1>11 DEF IsOpen, OpenCascade
  <2>2. QED BY <1>4, <1>10, <2>1 DEF WorkingRevision
<1> HIDE DEF W
<1>13. \A r \in (Len(revs) + 1)..Len(revs') :
          /\ StateAt(revs', r) = StateAt(revs, W)
          /\ Chain(revs', r) = Chain(revs, W) \cup ((Len(revs) + 1)..r)
  BY <1>8, <1>9
<1>14. Len(revs') \in Nat /\ Len(revs) < Len(revs')
  BY <1>1, <1>6
<1>15. QED BY <1>2, <1>4, <1>6, <1>7, <1>10, <1>11, <1>12, <1>13, <1>14 DEF TextEdit, W

LEMMA ImportsEdit ==
    ASSUME Inv, NEW mode \in Modes, NEW set, NEW new, NEW n, Imports(mode, set, new, n)
    PROVE  TextEdit
<1>1. PICK L \in Nat : L = Len(revs)
  BY DEF Inv, TypeOK
<1>2. /\ n \in Nat /\ n >= 1
      /\ Len(revs') = L + n
      /\ WorkingRevision \in 0..L /\ WorkingRevision' = L + n
      /\ \A r \in 0..L : Chain(revs', r) = Chain(revs, r)
      /\ \A j \in 1..n : Chain(revs', L + j) = Chain(revs, WorkingRevision) \cup ((L + 1)..(L + j))
      /\ OpenCascades' = OpenCascades
      /\ \A c \in CascadeIds : cascades'[c].base = cascades[c].base
  BY <1>1, ImportFrame
<1>3. /\ \A r \in 1..L : revs'[r] = revs[r]
      /\ \A j \in 1..n : StateAt(revs', L + j) = StateAt(revs, WorkingRevision)
      /\ UNCHANGED <<rows, planStatus, completed, bypassed>>
      /\ head' = IF IsOpen THEN head ELSE L + n
      /\ IF IsOpen THEN cascades' = [cascades EXCEPT ![OpenCascade].ref = L + n]
                   ELSE cascades' = cascades
  BY <1>1 DEF Imports, Logged
<1>4. \A r \in 0..L : StateAt(revs', r) = StateAt(revs, r)
  BY <1>1, <1>3 DEF StateAt, NoRevision
<1>5. \A c \in CascadeIds : cascades'[c].status = cascades[c].status
  <2>1. cascades \in [CascadeIds -> CascadeRow]
    BY DEF Inv, TypeOK
  <2>2. QED BY <1>3, <2>1 DEF CascadeRow
<1>6. \A r \in (L + 1)..(L + n) :
         /\ StateAt(revs', r) = StateAt(revs, WorkingRevision)
         /\ Chain(revs', r) = Chain(revs, WorkingRevision) \cup ((L + 1)..r)
  <2>1. TAKE r \in (L + 1)..(L + n)
  <2>2. r - L \in 1..n /\ L + (r - L) = r
    BY <1>1, <1>2
  <2>3. QED BY <1>2, <1>3, <2>2
<1>7. L + n \in Nat /\ L < L + n
  BY <1>2
<1>8. QED BY <1>1, <1>2, <1>3, <1>4, <1>5, <1>6, <1>7 DEF TextEdit

LEMMA TextCommandEdits ==
    ASSUME Inv, TextInv, NEW mode \in Modes, TextCommand(mode)
    PROVE  TextEdit
<1>1. ASSUME NEW table, NEW set, Admitted(mode), WriteText(mode, table, set) PROVE TextEdit
  BY <1>1, RecordedTextEdits DEF WriteText
<1>2. ASSUME NEW text \in Texts, NEW place \in Binding \cup {0}, ParaInsert(text, place, mode)
      PROVE  TextEdit
  BY <1>1, <1>2 DEF ParaInsert
<1>3. ASSUME NEW text \in Texts, NEW p \in Paragraphs, ParaUpdate(p, text, mode)
      PROVE  TextEdit
  BY <1>1, <1>3 DEF ParaUpdate
<1>4. ASSUME NEW p \in Paragraphs, ParaDelete(p, mode) PROVE TextEdit
  BY <1>1, <1>4 DEF ParaDelete
<1>5. ASSUME NEW p \in Paragraphs, NEW binding \in BOOLEAN, ParaMarkNonBinding(p, binding, mode)
      PROVE  TextEdit
  BY <1>1, <1>5 DEF ParaMarkNonBinding
<1>6. ASSUME NEW doc \in Documents, HrsImport(doc, mode) PROVE TextEdit
  <2>1. PICK set, new, n : Imports(mode, set, new, n)
    BY <1>6, HrsImportImports
  <2>2. QED BY <2>1, ImportsEdit
<1>7. QED BY <1>2, <1>3, <1>4, <1>5, <1>6 DEF TextCommand

\* The invariants of the tree and of the history.
LEMMA EditKeepsTreeInv == ASSUME Inv, TreeInv, TextEdit PROVE TreeInv'
<1> DEFINE W == WorkingRevision
<1>1. /\ rows' = rows /\ bypassed' = bypassed
      /\ OpenCascades' = OpenCascades
      /\ \A c \in CascadeIds : cascades'[c].base = cascades[c].base
      /\ \A r \in 0..Len(revs) : StateAt(revs', r) = StateAt(revs, r)
      /\ \A r \in (Len(revs) + 1)..Len(revs') : StateAt(revs', r) = StateAt(revs, W)
  BY DEF TextEdit
<1>2. Len(revs) \in Nat /\ W \in 0..Len(revs) /\ RefsExist
  BY WorkingRevisionExists DEF Inv, TypeOK, StoreInv
<1> HIDE DEF W
<1>3. LevelsFit(StateAt(revs, W))
  <2>1. CASE W = NoRevision
    BY <2>1, StepsAreEntities DEF LevelsFit, Present, StateAt, EmptyState
  <2>2. CASE W # NoRevision
    BY <1>2, <2>2 DEF TreeInv, Revisions, NoRevision
  <2>3. QED BY <2>1, <2>2
<1>4. ASSUME NEW r \in Revisions' PROVE LevelsFit(StateAt(revs', r))
  <2>1. Len(revs') \in Nat
    BY DEF TextEdit
  <2>2. r \in 1..Len(revs) \/ r \in (Len(revs) + 1)..Len(revs')
    BY <1>2, <1>4, <2>1 DEF Revisions
  <2>3. CASE r \in 1..Len(revs)
    <3>1. LevelsFit(StateAt(revs, r)) /\ r \in 0..Len(revs)
      BY <2>3 DEF TreeInv, Revisions
    <3>2. QED BY <1>1, <3>1
  <2>4. CASE r \in (Len(revs) + 1)..Len(revs')
    BY <1>1, <1>3, <2>4
  <2>5. QED BY <2>2, <2>3, <2>4
<1>5. ASSUME ~bypassed, NEW c \in OpenCascades PROVE ParentsThere(StateAt(revs', cascades'[c].base))
  <2>1. c \in CascadeIds /\ cascades[c].base \in 0..Len(revs)
    BY <1>2 DEF OpenCascades, RefsExist, Revisions
  <2>2. StateAt(revs', cascades'[c].base) = StateAt(revs, cascades[c].base)
    BY <1>1, <2>1
  <2>3. QED BY <1>5, <2>2 DEF TreeInv
<1>6. QED BY <1>1, <1>4, <1>5 DEF TreeInv

LEMMA OpenRefIsWorking ==
    ASSUME Inv, NEW c \in OpenCascades
    PROVE  cascades[c].ref = WorkingRevision
BY TheOpenCascade DEF Inv, StoreInv, WorkingRevision

LEMMA OpenRefIsWorkingNext ==
    (Inv => \A c \in OpenCascades : cascades[c].ref = WorkingRevision)'
<1>1. Inv => \A c \in OpenCascades : cascades[c].ref = WorkingRevision
  BY OpenRefIsWorking
<1>2. QED BY <1>1, PTL

LEMMA EditKeepsHistory ==
    ASSUME Inv, Inv', HistoryInv, TextEdit PROVE HistoryInv'
<1> DEFINE W == WorkingRevision
           L == Len(revs)
<1>1. /\ bypassed' = bypassed
      /\ OpenCascades' = OpenCascades
      /\ \A c \in CascadeIds : /\ cascades'[c].base = cascades[c].base
                               /\ cascades'[c].status = cascades[c].status
      /\ Len(revs') \in Nat /\ L < Len(revs')
      /\ WorkingRevision' = Len(revs')
      /\ \A r \in 0..L : Chain(revs', r) = Chain(revs, r)
      /\ \A r \in (L + 1)..Len(revs') : Chain(revs', r) = Chain(revs, W) \cup ((L + 1)..r)
  BY DEF TextEdit
<1>2. /\ L \in Nat /\ W \in 0..L /\ RefsExist
      /\ Chain(revs, W) \subseteq 1..L
  BY WorkingRevisionExists, RevisionFact DEF Inv, TypeOK, StoreInv
<1> HIDE DEF W, L
<1>3. Chain(revs', Len(revs')) = Chain(revs, W) \cup ((L + 1)..Len(revs'))
  BY <1>1, <1>2
<1>4. SUFFICES ASSUME ~bypassed PROVE HistoryInv'
  BY <1>1 DEF HistoryInv
<1>5. ASSUME NEW c \in OpenCascades, NEW r \in Chain(revs', cascades'[c].ref)
      PROVE  r \in Chain(revs', cascades'[c].base) \/ cascades'[c].base \in Chain(revs', r)
  <2>1. /\ c \in CascadeIds /\ cascades[c].base \in 0..L
        /\ cascades[c].base \in Chain(revs, cascades[c].ref)
    BY <1>2 DEF OpenCascades, RefsExist, Revisions, L, Inv, StoreInv, CascadeAnchored
  <2>2. cascades[c].ref = W /\ cascades'[c].ref = Len(revs')
    BY <1>1, OpenRefIsWorking, OpenRefIsWorkingNext DEF W
  <2>3. cascades'[c].base = cascades[c].base
        /\ Chain(revs', cascades[c].base) = Chain(revs, cascades[c].base)
    BY <1>1, <2>1
  <2>4. CASE r \in Chain(revs, W)
    <3>1. r \in 0..L
      BY <1>2, <2>4
    <3>2. r \in Chain(revs, cascades[c].base) \/ cascades[c].base \in Chain(revs, r)
      BY <1>4, <2>2, <2>4 DEF HistoryInv, CascadesLinear
    <3>3. QED BY <1>1, <2>3, <3>1, <3>2
  <2>5. CASE r \in (L + 1)..Len(revs')
    BY <1>1, <2>1, <2>2, <2>3, <2>5
  <2>6. QED BY <1>3, <1>5, <2>2, <2>4, <2>5
<1>6. CascadesLinear'
  BY <1>1, <1>5 DEF CascadesLinear
<1>7. ASSUME NEW r \in 1..Len(revs'), r \notin Chain(revs', Len(revs')) PROVE Discarded(r)'
  <2>1. r \in 1..L /\ r \in 0..L /\ r \notin Chain(revs, W)
    BY <1>1, <1>2, <1>3, <1>7
  <2>2. Discarded(r)
    BY <1>4, <2>1 DEF HistoryInv, Revisions, W, L
  <2>3. QED BY <1>1, <2>1, <2>2 DEF Discarded
<1>8. \A r \in Revisions' \ Chain(revs', WorkingRevision') : Discarded(r)'
  BY <1>1, <1>7 DEF Revisions
<1>9. QED BY <1>6, <1>8 DEF HistoryInv

\* To a reader of the head and an author of steps, nothing happens.
LEMMA EditIsStutter == ASSUME Inv, TextEdit PROVE UNCHANGED Abstract!vars
<1>1. rows' = rows /\ bypassed' = bypassed /\ OpenCascades' = OpenCascades
  BY DEF TextEdit
<1>2. (IsOpen' <=> IsOpen) /\ IsOpen' = IsOpen
  BY <1>1 DEF IsOpen
<1>3. StateAt(revs', head') = StateAt(revs, head)
  <2>1. CASE IsOpen
    <3>1. head' = head /\ head \in 0..Len(revs)
      BY <2>1 DEF TextEdit, Inv, TypeOK, Revisions, NoRevision
    <3>2. QED BY <3>1 DEF TextEdit
  <2>2. CASE ~IsOpen
    <3>1. head' = Len(revs') /\ WorkingRevision = head
      BY <2>2 DEF TextEdit, WorkingRevision
    <3>2. Len(revs) \in Nat /\ Len(revs') \in (Len(revs) + 1)..Len(revs')
      BY DEF TextEdit, Inv, TypeOK
    <3>3. QED BY <3>1, <3>2 DEF TextEdit
  <2>3. QED BY <2>1, <2>2
<1>4. WithoutDeps(StateAt(revs', head')) = WithoutDeps(StateAt(revs, head))
  BY <1>3 DEF WithoutDeps
<1>5. WithoutDeps(rows') = WithoutDeps(rows)
  BY <1>1 DEF WithoutDeps
<1>6. QED BY <1>1, <1>2, <1>4, <1>5 DEF Abstract!vars, WithoutDeps

PlanInvs == Inv /\ TextInv /\ TreeInv /\ HistoryInv

LEMMA TextStep ==
    ASSUME PlanInvs, [NextText]_<<vars, textVars>>
    PROVE  [Next]_vars \/ TextEdit
<1>1. CASE UNCHANGED <<vars, textVars>>
  BY <1>1
<1>2. CASE \E mode \in Modes : TextCommand(mode)
  BY <1>2, TextCommandEdits DEF PlanInvs
<1>3. QED BY <1>1, <1>2 DEF NextText

LEMMA PlanInvariant == SpecText => []PlanInvs
<1>1. InitText => PlanInvs
  BY InitTextInv, InitTreeInv, InitHistory DEF InitText, PlanInvs
<1>2. PlanInvs /\ [NextText]_<<vars, textVars>> => PlanInvs'
  <2>1. SUFFICES ASSUME PlanInvs, [NextText]_<<vars, textVars>> PROVE PlanInvs'
    OBVIOUS
  <2>2. Inv /\ TextInv /\ TreeInv /\ HistoryInv
    BY <2>1 DEF PlanInvs
  <2>3. Inv' /\ TextInv'
    BY <2>1, <2>2, NextTextKeeps
  <2>4. [Next]_vars => TreeInv' /\ HistoryInv'
    BY <2>2, <2>3, NextTreeInv, NextHistory
  <2>5. TextEdit => TreeInv' /\ HistoryInv'
    BY <2>2, <2>3, EditKeepsTreeInv, EditKeepsHistory
  <2>6. [Next]_vars \/ TextEdit
    BY <2>1, TextStep
  <2>7. TreeInv' /\ HistoryInv'
    BY <2>4, <2>5, <2>6
  <2>8. QED BY <2>3, <2>7 DEF PlanInvs
<1>3. QED BY <1>1, <1>2, PTL DEF SpecText

\* The commands on paragraphs share the revisions, the head and the cascades
\* with those on steps, and leave the steps, their record and their history as
\* they are (_record_changes of paragraph_edit.py, importer.py).
THEOREM TextKeepsPlan ==
    SpecText => [](RowsRecorded /\ TreeWellFormed /\ StepIdsUnique /\ HistoryKept)
<1>1. PlanInvs => RowsRecorded /\ TreeWellFormed /\ StepIdsUnique /\ HistoryKept
  <2>1. SUFFICES ASSUME PlanInvs PROVE RowsRecorded /\ TreeWellFormed /\ StepIdsUnique /\ HistoryKept
    OBVIOUS
  <2>2. Inv /\ TreeInv /\ HistoryInv
    BY <2>1 DEF PlanInvs
  <2>3. RowsRecorded
    BY <2>2, InvImpliesRowsRecorded
  <2>4. TreeWellFormed /\ StepIdsUnique
    BY <2>2 DEF TreeInv, TreeWellFormed, StepIdsUnique
  <2>5. QED BY <2>2, <2>3, <2>4, HistoryInvImpliesHistoryKept
<1>2. QED BY <1>1, PlanInvariant, PTL

\* Frozen steps, running steps and flagged steps may count beside the text on
\* what they may count on without it.
THEOREM TextKeepsSteps ==
    SpecText => FrozenTruth /\ FrozenDepsHeld /\ ExecutionKept /\ StaleDescendantsFlagged
<1>1. PlanInvs /\ [NextText]_<<vars, textVars>> =>
         [~IsOpen => \A f \in FrozenSteps(rows) :
              /\ f \in Present(rows')
              /\ \/ rows'[f].status = "frozen"
                 \/ LevelOf[f] = AtomicLevel /\ rows'[f].status = "in_progress"
              /\ Below(rows', f) = Below(rows, f)
              /\ \A d \in {f} \cup Below(rows, f) :
                    /\ rows'[d].parent = rows[d].parent
                    /\ rows'[d].id = rows[d].id
                    /\ rows'[d].content = rows[d].content]_vars
  <2>1. SUFFICES ASSUME PlanInvs, [NextText]_<<vars, textVars>>, ~UNCHANGED vars, ~IsOpen,
                        NEW f \in FrozenSteps(rows)
                 PROVE  Held(f)
    BY DEF Held
  <2>2. CASE TextEdit
    <3>1. f \in Present(rows) /\ rows[f].status = "frozen" /\ rows' = rows
      BY <2>2 DEF FrozenSteps, WithStatus, TextEdit
    <3>2. QED BY <3>1 DEF Held
  <2>3. CASE Next
    BY <2>1, <2>3, StepHoldsFrozen DEF PlanInvs
  <2>4. QED BY <2>1, <2>2, <2>3, TextStep
<1>2. PlanInvs /\ [NextText]_<<vars, textVars>> =>
         [~IsOpen => \A f \in FrozenSteps(rows) \cap Present(rows') :
              /\ rows'[f].deps \subseteq rows[f].deps
              /\ \A t \in Siblings(rows, f) \cap Present(rows') :
                    <<rows[t].id>> \in rows[f].deps /\ rows'[t].parent = rows[t].parent
                    => <<rows'[t].id>> \in rows'[f].deps]_vars
  <2>1. SUFFICES ASSUME PlanInvs, [NextText]_<<vars, textVars>>, ~UNCHANGED vars, ~IsOpen,
                        NEW f \in FrozenSteps(rows) \cap Present(rows')
                 PROVE  DepsHeld(f)
    BY DEF DepsHeld
  <2>2. CASE TextEdit
    BY <2>2 DEF TextEdit, DepsHeld
  <2>3. CASE Next
    BY <2>1, <2>3, StepHoldsFrozenDeps DEF PlanInvs
  <2>4. QED BY <2>1, <2>2, <2>3, TextStep
<1>3. PlanInvs /\ [NextText]_<<vars, textVars>> =>
         [\A s \in WithStatus(rows, AtomicStatuses) \cap Present(rows') :
             \/ rows'[s].status \in {rows[s].status, "done"}
             \/ Aborts]_vars
  <2>1. SUFFICES ASSUME PlanInvs, [NextText]_<<vars, textVars>>, ~UNCHANGED vars, ~Aborts,
                        NEW s \in WithStatus(rows, AtomicStatuses) \cap Present(rows')
                 PROVE  rows'[s].status \in {rows[s].status, "done"}
    OBVIOUS
  <2>2. CASE TextEdit
    BY <2>2 DEF TextEdit
  <2>3. CASE Next
    BY <2>1, <2>3, StepKeepsExecution DEF PlanInvs, WithStatus
  <2>4. QED BY <2>1, <2>2, <2>3, TextStep
<1>4. PlanInvs /\ [NextText]_<<vars, textVars>> =>
         [\A s \in Present(rows) \cap Present(rows') :
             /\ IsOpen /\ ~Aborts
             /\ \/ rows'[s].content # rows[s].content
                \/ rows'[s].parent # rows[s].parent
             => \A d \in Below(rows', s) :
                   rows'[d].status \in {"needs_review"} \cup AtomicStatuses]_vars
  <2>1. SUFFICES ASSUME PlanInvs, [NextText]_<<vars, textVars>>, ~UNCHANGED vars,
                        NEW s \in Present(rows) \cap Present(rows'), IsOpen, ~Aborts,
                        rows'[s].content # rows[s].content \/ rows'[s].parent # rows[s].parent,
                        NEW d \in Below(rows', s)
                 PROVE  rows'[d].status \in {"needs_review"} \cup AtomicStatuses
    OBVIOUS
  <2>2. ~TextEdit
    BY <2>1 DEF TextEdit
  <2>3. Next
    BY <2>1, <2>2, TextStep
  <2>4. QED BY <2>1, <2>3, RewrittenFlagsBelow DEF PlanInvs
<1>5. QED BY <1>1, <1>2, <1>3, <1>4, PlanInvariant, PTL
          DEF SpecText, FrozenTruth, FrozenDepsHeld, ExecutionKept, StaleDescendantsFlagged

\* Dependencies stay sound beside the text, whatever shares their revisions.
THEOREM TextKeepsDeps == SpecText => DepsKept /\ OrderKept
<1>1. PlanInvs /\ [NextText]_<<vars, textVars>> =>
         [ParentsThere(rows) /\ NumbersNamed(rows) /\ ~HasCycle(DeclaredEdges(rows)) /\ ~Aborts
          => /\ NumbersNamed(rows')
             /\ (Carries => AllResolve(rows)) => ~HasCycle(DeclaredEdges(rows'))]_vars
  <2>1. SUFFICES ASSUME PlanInvs, [NextText]_<<vars, textVars>>, ~UNCHANGED vars,
                        ParentsThere(rows), DepsSound(rows), ~Aborts
                 PROVE  /\ NumbersNamed(rows')
                        /\ (Carries => AllResolve(rows)) => ~HasCycle(DeclaredEdges(rows'))
    BY DEF DepsSound
  <2>2. CASE TextEdit
    BY <2>1, <2>2 DEF TextEdit, DepsSound
  <2>3. CASE Next
    BY <2>1, <2>3, StepKeepsDeps DEF PlanInvs
  <2>4. QED BY <2>1, <2>2, <2>3, TextStep
<1>2. PlanInvs /\ [NextText]_<<vars, textVars>> =>
         [/\ Present(rows') \subseteq Present(rows)
          /\ \A s \in Present(rows') : /\ rows'[s].parent = rows[s].parent
                                       /\ rows'[s].content = rows[s].content
                                       /\ rows'[s].status = rows[s].status
          /\ rows' # rows
          /\ ParentsThere(rows) /\ PrioritiesUnique(rows)
          /\ AllResolve(rows) /\ AllResolve(rows')
          /\ \A order \in RowOrders(rows) : ~HasCycle(BuildEdges(rows, order))
          /\ ~Aborts
          => \A order \in RowOrders(rows') : ~HasCycle(BuildEdges(rows', order))]_vars
  <2>1. SUFFICES ASSUME PlanInvs, [NextText]_<<vars, textVars>>, ~UNCHANGED vars, rows' # rows,
                        Present(rows') \subseteq Present(rows),
                        \A s \in Present(rows') : /\ rows'[s].parent = rows[s].parent
                                                  /\ rows'[s].content = rows[s].content,
                        ParentsThere(rows), PrioritiesUnique(rows),
                        AllResolve(rows), AllResolve(rows'),
                        \A order \in RowOrders(rows) : ~HasCycle(BuildEdges(rows, order)),
                        ~Aborts
                 PROVE  \A order \in RowOrders(rows') : ~HasCycle(BuildEdges(rows', order))
    OBVIOUS
  <2>2. Next
    BY <2>1, TextStep DEF TextEdit
  <2>3. QED BY <2>1, <2>2, StepKeepsOrder DEF PlanInvs, InOrder
<1>3. QED BY <1>1, <1>2, PlanInvariant, PTL DEF SpecText, DepsKept, OrderKept

\* An abort gives the steps back as the cascade found them, whatever the
\* cascade did to the text besides.
THEOREM TextKeepsAborts == SpecText => AbortRestoresBase
<1>1. PlanInvs /\ [NextText]_<<vars, textVars>> =>
         [\A c \in OpenCascades :
             cascades'[c].status = "aborted" /\ ~bypassed =>
                 WithoutDeps(rows') = WithoutDeps(StateAt(revs, cascades[c].base))]_vars
  <2>1. SUFFICES ASSUME PlanInvs, [NextText]_<<vars, textVars>>, NEW c \in OpenCascades,
                        cascades'[c].status = "aborted", ~bypassed
                 PROVE  WithoutDeps(rows') = WithoutDeps(StateAt(revs, cascades[c].base))
    OBVIOUS
  <2>2. ~TextEdit
    BY <2>1 DEF TextEdit, OpenCascades
  <2>3. [Next]_vars
    BY <2>1, <2>2, TextStep
  <2>4. QED BY <2>1, <2>3, AbortStep DEF PlanInvs
<1>2. QED BY <1>1, PlanInvariant, PTL DEF SpecText, AbortRestoresBase

\* With the text beside it the plan is still a published state of steps and a
\* working copy: edits of the text, even those that record many revisions,
\* publish nothing of the steps and hide nothing.
THEOREM TextImplementsPublishedPlan == SpecText => ImplementsPublishedPlan
<1>1. InitText => Abstract!Init
  BY InitImplements DEF InitText
<1>2. PlanInvs /\ PlanInvs' /\ [NextText]_<<vars, textVars>> => [Abstract!Next]_(Abstract!vars)
  <2>1. SUFFICES ASSUME PlanInvs, PlanInvs', [NextText]_<<vars, textVars>>
                 PROVE  [Abstract!Next]_(Abstract!vars)
    OBVIOUS
  <2>2. Inv /\ Inv'
    BY <2>1 DEF PlanInvs
  <2>3. TextEdit => [Abstract!Next]_(Abstract!vars)
    BY <2>2, EditIsStutter
  <2>4. [Next]_vars => [Abstract!Next]_(Abstract!vars)
    BY <2>2, StepImplements
  <2>5. QED BY <2>1, <2>3, <2>4, TextStep
<1>3. QED BY <1>1, <1>2, PlanInvariant, PTL DEF SpecText, ImplementsPublishedPlan, Abstract!Spec

----------------------------------------------------------------------------
(* The text and the steps are published together                           *)

\* A row that is there is as recorded, even if an import removed it and an
\* abort brought it back; a row that was lost is in no cascade's changes.
StoredRecorded ==
    \A p \in Paragraphs : paras[p] # Absent => TextAt(WorkingRevision)[p] = paras[p]

LostWaits ==
    \A c \in OpenCascades : \A p \in Paragraphs :
        Lost(p) => TextAt(cascades[c].base)[p] = TextAt(cascades[c].ref)[p]

LossInv == StoredRecorded /\ LostWaits

\* What every step but an abort does to a row: nothing, or it writes what it
\* records, or it removes the row by an import.
GoesOn(p) ==
    \/ /\ paras'[p] = paras[p] /\ replaced'[p] = replaced[p]
       /\ TextAt(WorkingRevision)'[p] = TextAt(WorkingRevision)[p]
    \/ /\ p \in Stored \/ p \in Unused
       /\ paras'[p] = TextAt(WorkingRevision)'[p] /\ replaced'[p] = replaced[p]
    \/ /\ p \in Stored
       /\ paras'[p] = Absent /\ replaced'[p] = Len(revs) + 1
       /\ replaced'[p] \in Chain(revs', WorkingRevision')

TextGoesOn ==
    /\ \A p \in Paragraphs : GoesOn(p)
    /\ \A r \in 0..Len(revs) : TextAt(r)' = TextAt(r) /\ Chain(revs', r) = Chain(revs, r)
    /\ \A q \in 0..Len(revs) :
          q \in Chain(revs', WorkingRevision') <=> q \in Chain(revs, WorkingRevision)

LEMMA TextWritesGoOn ==
    ASSUME Inv, TextInv, NEW mode \in Modes, NEW changes, TextWrites(mode, changes)
    PROVE  TextGoesOn
<1>0. PICK L \in Nat : L = Len(revs)
  BY DEF Inv, TypeOK
<1> DEFINE parent == revs'[Len(revs')].parent
<1>1. /\ Writes(mode) /\ IsTextChange(changes)
      /\ texts' = Text!RecordRevision(texts, parent, changes)
      /\ \A p \in Paragraphs : paras'[p] = IF p \in DOMAIN changes THEN changes[p] ELSE paras[p]
      /\ \A p \in DOMAIN changes : p \in Stored \/ p \in Unused
      /\ DOMAIN changes # {} => (mode = "direct" => ~IsOpen)
      /\ replaced' = replaced
  BY DEF TextWrites
<1>2. /\ parent \in 0..L
      /\ \A r \in 0..L : Chain(revs', r) = Chain(revs, r)
      /\ Chain(revs', L + 1) = Chain(revs, parent) \cup {L + 1}
      /\ WritesAfter(mode, parent)
  <2>1. /\ Len(revs) \in Nat
        /\ parent \in 0..Len(revs)
        /\ \A r \in 0..Len(revs) : Chain(revs', r) = Chain(revs, r)
        /\ Chain(revs', Len(revs) + 1) = Chain(revs, parent) \cup {Len(revs) + 1}
        /\ WritesAfter(mode, parent)
    BY <1>1, WrittenParent
  <2>2. QED BY <1>0, <2>1
<1> HIDE DEF parent
<1>3. texts \in Seq(TextRow) /\ Len(texts) = L
  BY <1>0 DEF TextInv, TextTyped
<1>4. TextLogged(texts, texts', parent, changes)
  <2>1. parent \in 0..Len(texts)
    BY <1>2, <1>3
  <2>2. QED BY <1>1, <1>3, <2>1, TextLogFact
<1>5. /\ \A r \in 0..L : TextAt(r)' = TextAt(r)
      /\ \A p \in Paragraphs : TextAt(L + 1)'[p] =
            IF p \in DOMAIN changes THEN changes[p] ELSE TextAt(parent)[p]
  <2>1. \A r : TextAt(r)' = Text!StateAt(texts', r) /\ TextAt(r) = Text!StateAt(texts, r)
    BY DEF TextAt, Text!StateAt
  <2>2. QED BY <1>3, <1>4, <2>1 DEF TextLogged
<1>6. WorkingRevision \in 0..L
  BY <1>0, WorkingRevisionExists DEF Inv
<1>7. \/ WorkingRevision' = L + 1 /\ parent = WorkingRevision
      \/ WorkingRevision' = WorkingRevision /\ DOMAIN changes = {}
  BY <1>0, <1>1, <1>2 DEF WritesAfter
<1>8. \A q \in 0..L : q \in Chain(revs', WorkingRevision') <=> q \in Chain(revs, WorkingRevision)
  <2>1. \A q \in 0..L : q # L + 1
    OBVIOUS
  <2>2. QED BY <1>2, <1>6, <1>7, <2>1
<1>9. ASSUME NEW p \in Paragraphs PROVE GoesOn(p)
  <2>1. CASE WorkingRevision' = L + 1 /\ parent = WorkingRevision
    <3>1. TextAt(WorkingRevision)' = TextAt(L + 1)'
      BY <2>1 DEF TextAt
    <3>2. QED BY <1>1, <1>5, <2>1, <3>1 DEF GoesOn
  <2>2. CASE WorkingRevision' = WorkingRevision /\ DOMAIN changes = {}
    <3>1. TextAt(WorkingRevision)' = TextAt(WorkingRevision)
      BY <1>5, <1>6, <2>2 DEF TextAt
    <3>2. QED BY <1>1, <2>2, <3>1 DEF GoesOn
  <2>3. QED BY <1>7, <2>1, <2>2
<1>10. QED BY <1>0, <1>2, <1>5, <1>8, <1>9 DEF TextGoesOn

LEMMA ImportsGoOn ==
    ASSUME Inv, TextInv, NEW mode \in Modes, NEW set, NEW new, NEW n, Imports(mode, set, new, n)
    PROVE  TextGoesOn
<1>0. PICK L \in Nat : L = Len(revs)
  BY DEF Inv, TypeOK
<1>1. PICK W \in 0..L : W = WorkingRevision
  BY <1>0, ImportFrame
<1>2. /\ n \in Nat /\ n >= 1 /\ WorkingRevision' = L + n
      /\ \A r \in 0..L : Chain(revs', r) = Chain(revs, r)
      /\ \A j \in 1..n : Chain(revs', L + j) = Chain(revs, W) \cup ((L + 1)..(L + j))
  BY <1>0, <1>1, ImportFrame
<1>3. /\ set # {} /\ set \subseteq Unused /\ IsFiniteSet(set) /\ DOMAIN new = set
      /\ \A p \in set : new[p] \in ParagraphRow /\ new[p].position = Place(set, p)
      /\ n \in {1, Cardinality(set)}
      /\ paras' = [p \in Paragraphs |-> IF p \in set THEN new[p] ELSE Absent]
      /\ replaced' = [p \in Paragraphs |-> IF p \in Stored THEN L + 1 ELSE replaced[p]]
      /\ \A r \in 1..L : texts'[r] = texts[r]
      /\ \A j \in 1..n : \A p \in Paragraphs :
            Text!StateAt(texts', L + j)[p] =
               IF p \in LoggedBy(new, n, j) THEN new[p] ELSE TextAt(W)[p]
  BY <1>0, <1>1 DEF Imports, Logged
<1>4. set \subseteq Paragraphs /\ set \subseteq Nat /\ \A p \in set : p \notin Stored
  BY <1>3, ParagraphsAssumption DEF Unused
<1>5. LoggedBy(new, n, n) = set
  <2> DEFINE P == set
  <2>1. /\ P \subseteq Nat /\ IsFiniteSet(P) /\ P # {} /\ n \in {1, Cardinality(P)}
        /\ DOMAIN new = P /\ \A p \in P : new[p].position = Place(P, p)
    BY <1>3, <1>4
  <2> HIDE DEF P
  <2>2. LoggedBy(new, n, n) = P
    BY <2>1, PartsFact
  <2>3. QED BY <2>2 DEF P
<1>6. n \in 1..n
  BY <1>2
<1>7. /\ \A r \in 0..L : TextAt(r)' = TextAt(r)
      /\ TextAt(WorkingRevision)' = Text!StateAt(texts', L + n)
  <2>1. \A r : TextAt(r)' = Text!StateAt(texts', r) /\ TextAt(r) = Text!StateAt(texts, r)
    BY DEF TextAt, Text!StateAt
  <2>2. \A r \in 0..L : Text!StateAt(texts', r) = Text!StateAt(texts, r)
    BY <1>0, <1>3 DEF Text!StateAt, Text!NoRevision
  <2>3. TextAt(WorkingRevision)' = Text!StateAt(texts', WorkingRevision')
    BY DEF TextAt
  <2>4. QED BY <1>2, <2>1, <2>2, <2>3
<1>8. \A p \in Paragraphs :
         TextAt(WorkingRevision)'[p] = IF p \in set THEN new[p] ELSE TextAt(WorkingRevision)[p]
  BY <1>1, <1>3, <1>5, <1>6, <1>7
<1>9. Chain(revs', WorkingRevision') = Chain(revs, W) \cup ((L + 1)..(L + n))
  BY <1>2, <1>6
<1>10. L + 1 \in Chain(revs', WorkingRevision')
  BY <1>2, <1>9
<1>11. \A q \in 0..L : q \in Chain(revs', WorkingRevision') <=> q \in Chain(revs, W)
  <2>1. \A q \in 0..L : q \notin (L + 1)..(L + n)
    BY <1>2
  <2>2. QED BY <1>9, <2>1
<1>12. ASSUME NEW p \in Paragraphs PROVE GoesOn(p)
  <2>1. CASE p \in set
    <3>1. p \in Unused /\ p \notin Stored
      BY <1>3, <1>4, <2>1
    <3>2. QED BY <1>3, <1>8, <2>1, <3>1 DEF GoesOn
  <2>2. CASE p \notin set /\ p \in Stored
    BY <1>0, <1>3, <1>10, <2>2 DEF GoesOn
  <2>3. CASE p \notin set /\ p \notin Stored
    BY <1>3, <1>8, <2>3 DEF GoesOn, Stored
  <2>4. QED BY <2>1, <2>2, <2>3
<1>13. QED BY <1>0, <1>1, <1>2, <1>7, <1>11, <1>12 DEF TextGoesOn

\* No row is lost, or found again, but by an abort.
LEMMA GoesOnLosesNothing ==
    ASSUME TextInv, StoredRecorded, TextGoesOn, NEW p \in Paragraphs
    PROVE  /\ Lost(p)' <=> Lost(p)
           /\ Lost(p) => TextAt(WorkingRevision)'[p] = TextAt(WorkingRevision)[p]
           /\ paras'[p] # Absent => TextAt(WorkingRevision)'[p] = paras'[p]
<1>1. /\ Lost(p) <=> /\ replaced[p] \notin Chain(revs, WorkingRevision) \cup {NoRevision}
                     /\ paras[p] = Absent
                     /\ TextAt(WorkingRevision)[p] # Absent
      /\ Lost(p)' <=> /\ replaced'[p] \notin Chain(revs', WorkingRevision') \cup {NoRevision}
                      /\ paras'[p] = Absent
                      /\ TextAt(WorkingRevision)'[p] # Absent
  BY DEF Lost, LostWith, TextAt
<1>2. replaced[p] \in 0..Len(revs)
  BY DEF TextInv, TextTyped
<1>3. replaced[p] \in Chain(revs', WorkingRevision')
         <=> replaced[p] \in Chain(revs, WorkingRevision)
  BY <1>2 DEF TextGoesOn
<1>4. paras[p] # Absent => TextAt(WorkingRevision)[p] = paras[p]
  BY DEF StoredRecorded
<1>5. CASE /\ paras'[p] = paras[p] /\ replaced'[p] = replaced[p]
           /\ TextAt(WorkingRevision)'[p] = TextAt(WorkingRevision)[p]
  BY <1>1, <1>3, <1>4, <1>5
<1>6. CASE /\ p \in Stored \/ p \in Unused
           /\ paras'[p] = TextAt(WorkingRevision)'[p] /\ replaced'[p] = replaced[p]
  <2>1. p \in Unused => replaced[p] = NoRevision
    BY DEF TextInv, GivenKnown, Known, Unused
  <2>2. p \in Stored => paras[p] # Absent
    BY DEF Stored
  <2>3. QED BY <1>1, <1>6, <2>1, <2>2
<1>7. CASE /\ p \in Stored
           /\ paras'[p] = Absent
           /\ replaced'[p] \in Chain(revs', WorkingRevision')
  BY <1>1, <1>7 DEF Stored
<1>8. QED BY <1>5, <1>6, <1>7 DEF TextGoesOn, GoesOn

\* The cascades stay as they are, but for their refs; or one begins.
LEMMA GoesOnKeepsLoss ==
    ASSUME Inv, Inv', TextInv, LossInv, TextGoesOn,
           \A c \in OpenCascades' :
              \/ cascades'[c].base = cascades'[c].ref
              \/ c \in OpenCascades /\ cascades'[c].base = cascades[c].base
    PROVE  LossInv'
<1>1. StoredRecorded'
  BY GoesOnLosesNothing DEF LossInv, StoredRecorded
<1>2. ASSUME NEW c \in OpenCascades', NEW p \in Paragraphs, Lost(p)'
      PROVE  (TextAt(cascades[c].base)[p] = TextAt(cascades[c].ref)[p])'
  <2>1. CASE cascades'[c].base = cascades'[c].ref
    BY <2>1 DEF TextAt
  <2>2. CASE c \in OpenCascades /\ cascades'[c].base = cascades[c].base
    <3>1. Lost(p) /\ TextAt(WorkingRevision)'[p] = TextAt(WorkingRevision)[p]
      BY <1>2, GoesOnLosesNothing DEF LossInv
    <3>2. TextAt(cascades[c].base)[p] = TextAt(cascades[c].ref)[p]
      BY <2>2, <3>1 DEF LossInv, LostWaits
    <3>3. cascades[c].ref = WorkingRevision /\ cascades'[c].ref = WorkingRevision'
      BY <1>2, <2>2, OpenRefIsWorking, OpenRefIsWorkingNext
    <3>4. cascades[c].base \in 0..Len(revs)
      BY <2>2 DEF Inv, StoreInv, RefsExist, Revisions, OpenCascades
    <3>5. TextAt(cascades[c].base)' = TextAt(cascades[c].base)
      BY <2>2, <3>4 DEF TextGoesOn, TextAt
    <3>6. TextAt(cascades[c].ref)' = TextAt(WorkingRevision)'
      BY <3>3 DEF TextAt
    <3>7. QED BY <3>1, <3>2, <3>3, <3>5, <3>6
  <2>3. QED BY <1>2, <2>1, <2>2
<1>3. LostWaits'
  BY <1>2 DEF LostWaits
<1>4. QED BY <1>1, <1>3 DEF LossInv

\* The text as an abort leaves it: a lost row stays lost.
LEMMA AbortKeepsLoss ==
    ASSUME Inv, TextInv, LossInv, NEW c \in CascadeIds, CascadeAbort(c), TextFollows
    PROVE  LossInv' /\ \A p \in Paragraphs : Lost(p) => Lost(p)'
<1> DEFINE base == cascades[c].base
           tip  == cascades[c].ref
           B == TextAt(base)
           T == TextAt(tip)
<1>1. /\ c \in OpenCascades /\ OpenCascades' = {}
      /\ revs' = revs /\ head' = head /\ UNCHANGED <<texts, replaced>>
      /\ WorkingRevision' = head /\ WorkingRevision = tip
      /\ \A p \in Paragraphs :
            \/ paras'[p] = B[p] /\ B[p] # T[p]
            \/ paras'[p] = paras[p] /\ B[p] = T[p]
      /\ TextAt(head) = B
  BY AbortedText
<1>2. TextAt(WorkingRevision)' = B /\ TextAt(WorkingRevision) = T
  BY <1>1 DEF TextAt
<1>3. StoredRecorded'
  <2>1. ASSUME NEW p \in Paragraphs, paras'[p] # Absent PROVE B[p] = paras'[p]
    BY <1>1, <1>2, <2>1 DEF LossInv, StoredRecorded
  <2>2. QED BY <1>2, <2>1 DEF StoredRecorded
<1>4. ASSUME NEW p \in Paragraphs, Lost(p) PROVE Lost(p)'
  <2>1. /\ replaced[p] \notin Chain(revs, tip) /\ replaced[p] # NoRevision
        /\ paras[p] = Absent /\ T[p] # Absent
    BY <1>1, <1>2, <1>4 DEF Lost, LostWith, TextAt
  <2>2. B[p] = T[p]
    BY <1>1, <1>4 DEF LossInv, LostWaits
  <2>3. replaced[p] \notin Chain(revs, head)
    BY <1>1, <2>1 DEF TextInv, TextHeadWaits, TextBaseStays
  <2>4. paras'[p] = Absent /\ B[p] # Absent
    BY <1>1, <2>1, <2>2
  <2> HIDE DEF B
  <2>5. Text!StateAt(texts', WorkingRevision')[p] # Absent
    BY <1>2, <2>4 DEF TextAt
  <2>6. QED BY <1>1, <2>1, <2>3, <2>4, <2>5 DEF Lost, LostWith
<1>5. QED BY <1>1, <1>3, <1>4 DEF LossInv, LostWaits

LEMMA NothingGoesOn ==
    ASSUME Inv, UNCHANGED <<revs, paras, texts, replaced>>, WorkingRevision' = WorkingRevision
    PROVE  TextGoesOn
<1>1. \A r : TextAt(r)' = TextAt(r)
  BY DEF TextAt
<1>2. TextAt(WorkingRevision)' = TextAt(WorkingRevision)
  BY DEF TextAt
<1>3. QED BY <1>1, <1>2 DEF TextGoesOn, GoesOn

\* What a cascade that is open after a step was before it.
CascadesGoOn ==
    \A c \in OpenCascades' :
       \/ cascades'[c].base = cascades'[c].ref
       \/ c \in OpenCascades /\ cascades'[c].base = cascades[c].base

LEMMA WriteGoesOn ==
    ASSUME Inv, TextInv, NEW mode \in Modes, Writes(mode), TextFollows
    PROVE  TextGoesOn /\ CascadesGoOn
<1>1. TextGoesOn
  BY FollowsIsTextWrites, TextWritesGoOn
<1>2. CascadesGoOn
  BY WritesFrame DEF CascadesGoOn, OpenCascades
<1>3. QED BY <1>1, <1>2

LEMMA TextCommandGoesOn ==
    ASSUME Inv, TextInv, NEW mode \in Modes, TextCommand(mode)
    PROVE  TextGoesOn /\ CascadesGoOn
<1>1. ASSUME NEW text \in Texts, NEW place \in Binding \cup {0}, ParaInsert(text, place, mode)
      PROVE  TextGoesOn
  BY <1>1, ParaInsertWrites, TextWritesGoOn
<1>2. ASSUME NEW text \in Texts, NEW p \in Paragraphs, ParaUpdate(p, text, mode)
      PROVE  TextGoesOn
  BY <1>2, ParaUpdateWrites, TextWritesGoOn
<1>3. ASSUME NEW p \in Paragraphs, ParaDelete(p, mode) PROVE TextGoesOn
  BY <1>3, ParaDeleteWrites, TextWritesGoOn
<1>4. ASSUME NEW p \in Paragraphs, NEW binding \in BOOLEAN, ParaMarkNonBinding(p, binding, mode)
      PROVE  TextGoesOn
  BY <1>4, ParaMarkWrites, TextWritesGoOn
<1>5. ASSUME NEW doc \in Documents, HrsImport(doc, mode) PROVE TextGoesOn
  <2>1. PICK set, new, n : Imports(mode, set, new, n)
    BY <1>5, HrsImportImports
  <2>2. QED BY <2>1, ImportsGoOn
<1>6. TextGoesOn
  BY <1>1, <1>2, <1>3, <1>4, <1>5 DEF TextCommand
<1>7. CascadesGoOn
  BY TextCommandEdits DEF TextEdit, CascadesGoOn, OpenCascades
<1>8. QED BY <1>6, <1>7

\* From some point on nothing is promised: a write went past a cascade, or an
\* abort lost a row.
Gone == bypassed \/ \E p \in Paragraphs : Lost(p)

LEMMA LossStep ==
    ASSUME Inv, Inv', TextInv, LossInv, [NextText]_<<vars, textVars>>
    PROVE  LossInv' /\ (Gone => Gone') /\ (Gone' => Gone \/ IsOpen)
<1>1. ASSUME TextGoesOn, CascadesGoOn
      PROVE  LossInv' /\ \A p \in Paragraphs : Lost(p)' <=> Lost(p)
  <2>1. LossInv'
    BY <1>1, GoesOnKeepsLoss DEF CascadesGoOn
  <2>2. \A p \in Paragraphs : Lost(p)' <=> Lost(p)
    BY <1>1, GoesOnLosesNothing DEF LossInv
  <2>3. QED BY <2>1, <2>2
<1>2. ASSUME UNCHANGED <<revs, paras, texts, replaced, bypassed>>, CascadesGoOn,
             WorkingRevision' = WorkingRevision
      PROVE  LossInv' /\ (Gone => Gone') /\ (Gone' => Gone \/ IsOpen)
  BY <1>1, <1>2, NothingGoesOn DEF Gone
<1>3. ASSUME NEW mode \in Modes, Writes(mode), TextFollows
      PROVE  LossInv' /\ (Gone => Gone') /\ (Gone' => Gone \/ IsOpen)
  <2>1. (bypassed => bypassed') /\ (bypassed' => bypassed \/ IsOpen)
    BY <1>3 DEF Writes
  <2>2. TextGoesOn /\ CascadesGoOn
    BY <1>3, WriteGoesOn
  <2>3. QED BY <1>1, <2>1, <2>2 DEF Gone
<1>4. ASSUME NEW mode \in Modes, TextCommand(mode)
      PROVE  LossInv' /\ (Gone => Gone') /\ (Gone' => Gone \/ IsOpen)
  <2>1. bypassed' = bypassed
    BY <1>4, TextCommandEdits DEF TextEdit
  <2>2. TextGoesOn /\ CascadesGoOn
    BY <1>4, TextCommandGoesOn
  <2>3. QED BY <1>1, <2>1, <2>2 DEF Gone
<1>5. ASSUME NEW c \in CascadeIds, CascadeBegin(c) \/ PlanUnfreeze(c), TextFollows
      PROVE  LossInv' /\ (Gone => Gone') /\ (Gone' => Gone \/ IsOpen)
  <2>1. OpenNewCascade(c)
    BY <1>5, BeginKeepsInv
  <2>2. /\ cascades'[c].base = cascades'[c].ref /\ OpenCascades' = {c}
        /\ UNCHANGED <<revs, paras, texts, replaced>>
        /\ WorkingRevision' = WorkingRevision
    BY <1>5, <2>1, BegunText
  <2>3. bypassed' = bypassed
    BY <2>1 DEF OpenNewCascade
  <2>4. CascadesGoOn
    BY <2>2 DEF CascadesGoOn
  <2>5. QED BY <1>2, <2>2, <2>3, <2>4
<1>6. ASSUME NEW c \in CascadeIds, CascadeCommit(c), TextFollows
      PROVE  LossInv' /\ (Gone => Gone') /\ (Gone' => Gone \/ IsOpen)
  <2>1. /\ UNCHANGED <<revs, paras, texts, replaced>> /\ OpenCascades' = {}
        /\ WorkingRevision' = WorkingRevision
    BY <1>6, CommittedText
  <2>2. bypassed' = bypassed
    BY <1>6 DEF CascadeCommit
  <2>3. CascadesGoOn
    BY <2>1 DEF CascadesGoOn
  <2>4. QED BY <1>2, <2>1, <2>2, <2>3
<1>7. ASSUME NEW c \in CascadeIds, CascadeAbort(c), TextFollows
      PROVE  LossInv' /\ (Gone => Gone') /\ (Gone' => Gone \/ IsOpen)
  <2>1. LossInv' /\ \A p \in Paragraphs : Lost(p) => Lost(p)'
    BY <1>7, AbortKeepsLoss
  <2>2. bypassed' = bypassed /\ IsOpen
    BY <1>7 DEF CascadeAbort, IsOpen
  <2>3. QED BY <2>1, <2>2 DEF Gone
<1>8. ASSUME UNCHANGED <<revs, head, cascades, bypassed>>, UNCHANGED <<paras, texts, replaced>>
      PROVE  LossInv' /\ (Gone => Gone') /\ (Gone' => Gone \/ IsOpen)
  <2>1. OpenCascades' = OpenCascades
    BY <1>8 DEF OpenCascades
  <2>2. WorkingRevision' = WorkingRevision /\ CascadesGoOn
    BY <1>8, <2>1 DEF WorkingRevision, IsOpen, OpenCascade, CascadesGoOn
  <2>3. QED BY <1>2, <1>8, <2>2
<1>9. ASSUME NEW flag \in BOOLEAN, PlanCompletedSet(flag), TextFollows
      PROVE  LossInv' /\ (Gone => Gone') /\ (Gone' => Gone \/ IsOpen)
  <2>1. UNCHANGED <<revs, head, cascades, bypassed>>
    BY <1>9 DEF PlanCompletedSet
  <2>2. ~Aborts
    BY <2>1 DEF Aborts, OpenCascades
  <2>3. UNCHANGED <<paras, texts, replaced>>
    BY <1>9, <2>1, <2>2 DEF TextFollows, TextsFollow
  <2>4. QED BY <1>8, <2>1, <2>3
<1>10. CASE Next /\ TextFollows
  BY <1>3, <1>5, <1>6, <1>7, <1>9, <1>10, NextIsWriteOrCascade
<1>11. CASE UNCHANGED <<vars, textVars>>
  BY <1>8, <1>11 DEF vars, textVars
<1>12. QED BY <1>4, <1>10, <1>11 DEF NextText

\* With nothing gone and no cascade open, what is published of the plan is its
\* working copy.
InSync == WithoutDeps(StateAt(revs, head)) = WithoutDeps(rows) /\ PublishedText = paras

LEMMA InSyncNow == Inv /\ TextInv /\ LossInv /\ ~Gone /\ ~IsOpen => InSync
<1> SUFFICES ASSUME Inv, TextInv, LossInv, ~Gone, ~IsOpen PROVE InSync
  OBVIOUS
<1>1. WorkingRevision = head
  BY DEF WorkingRevision
<1>2. WithoutDeps(StateAt(revs, head)) = WithoutDeps(rows)
  BY HeadIsWorkingCopyNow DEF Gone, HeadIsWorkingCopy
<1>3. ASSUME NEW p \in Paragraphs PROVE PublishedText[p] = paras[p]
  <2>1. PublishedText[p] = IF replaced[p] \in Chain(revs, head) THEN Absent ELSE TextAt(head)[p]
    BY DEF PublishedText, TextAt
  <2>2. CASE replaced[p] \in Chain(revs, head)
    BY <1>1, <2>1, <2>2 DEF TextInv, ReplacedGone
  <2>3. CASE replaced[p] \notin Chain(revs, head) /\ replaced[p] = NoRevision
    BY <1>1, <2>1, <2>3 DEF TextInv, TextRecorded, TextAt
  <2>4. CASE replaced[p] \notin Chain(revs, head) /\ replaced[p] # NoRevision
    <3>1. ~Lost(p) /\ LostWith(p)
      BY <1>1, <2>4 DEF Gone, LostWith
    <3>2. paras[p] # Absent \/ TextAt(head)[p] = Absent
      BY <1>1, <3>1 DEF Lost, TextAt
    <3>3. QED BY <1>1, <2>1, <2>4, <3>2 DEF LossInv, StoredRecorded
  <2>5. QED BY <2>2, <2>3, <2>4
<1>4. PublishedText = [p \in Paragraphs |-> PublishedText[p]]
  BY DEF PublishedText
<1>5. paras = [p \in Paragraphs |-> paras[p]]
  BY DEF TextInv, TextTyped, TextTables
<1>6. PublishedText = paras
  BY <1>3, <1>4, <1>5
<1>7. QED BY <1>2, <1>6 DEF InSync

LEMMA InSyncNext == (Inv /\ TextInv /\ LossInv /\ ~Gone /\ ~IsOpen)' => InSync'
BY InSyncNow, PTL

\* Inside a cascade, an import too leaves the published text alone.
LEMMA PublishedTextStays ==
    ASSUME Inv, TextInv, TextGoesOn, IsOpen, head' = head
    PROVE  PublishedText' = PublishedText
<1>1. head \in 0..Len(revs) /\ Chain(revs, head) \subseteq 1..Len(revs) /\ Len(revs) \in Nat
  BY RevisionFact DEF Inv, TypeOK, StoreInv, Revisions, NoRevision
<1>2. /\ Chain(revs', head) = Chain(revs, head)
      /\ Text!StateAt(texts', head) = Text!StateAt(texts, head)
  <2>1. TextAt(head)' = Text!StateAt(texts', head')
    BY DEF TextAt
  <2>2. TextAt(head)' = TextAt(head)
    BY <1>1 DEF TextGoesOn
  <2>3. QED BY <1>1, <2>1, <2>2 DEF TextGoesOn, TextAt
<1>3. ASSUME NEW p \in Paragraphs
      PROVE  replaced'[p] \in Chain(revs, head) <=> replaced[p] \in Chain(revs, head)
  <2>1. CASE replaced'[p] = replaced[p]
    BY <2>1
  <2>2. CASE p \in Stored /\ replaced'[p] = Len(revs) + 1
    <3>1. PICK c \in OpenCascades : TRUE
      BY DEF IsOpen
    <3>2. cascades[c].ref = WorkingRevision
      BY OpenRefIsWorking
    <3>3. replaced[p] \in Chain(revs, head) => replaced[p] \in Chain(revs, WorkingRevision)
      BY <3>2 DEF TextInv, TextHeadWaits, TextBaseStays
    <3>4. replaced[p] \notin Chain(revs, head)
      BY <2>2, <3>3 DEF TextInv, ReplacedGone, Stored
    <3>5. Len(revs) + 1 \notin Chain(revs, head)
      BY <1>1
    <3>6. QED BY <2>2, <3>4, <3>5
  <2>3. QED BY <2>1, <2>2 DEF TextGoesOn, GoesOn
<1>4. QED BY <1>2, <1>3 DEF PublishedText

\* A command on the steps or the text, with nothing gone after it, is an edit of
\* the working copy, direct or inside a cascade.
LEMMA EditImplements ==
    ASSUME Inv, Inv', TextInv, TextInv', LossInv', TextGoesOn, ~Gone, ~Gone',
           OpenCascades' = OpenCascades,
           IsOpen => head' = head /\ StateAt(revs', head) = StateAt(revs, head)
    PROVE  WithText!Next
<1>1. WithoutDeps(rows)' \in Tables /\ paras' \in TextTables
  BY WorkingIsStateNext DEF TextInv, TextTyped
<1>2. <<WithoutDeps(rows)', paras'>> \in Tables \X [Paragraphs -> ParagraphRow \cup {Absent}]
  BY <1>1 DEF TextTables
<1>3. /\ UNCHANGED IsOpen
      /\ UNCHANGED (bypassed \/ \E p \in Paragraphs : Lost(p))
  BY DEF IsOpen, Gone
<1>4. CASE IsOpen
  <2>1. PublishedText' = PublishedText
    BY <1>4, PublishedTextStays
  <2>2. WithoutDeps(StateAt(revs, head))' = WithoutDeps(StateAt(revs, head))
    BY <1>4 DEF WithoutDeps, StateAt
  <2>3. WithText!EditInCascade
    BY <1>2, <1>3, <1>4, <2>1, <2>2 DEF WithText!EditInCascade
  <2>4. QED BY <2>3 DEF WithText!Next
<1>5. CASE ~IsOpen
  <2>1. InSync'
    BY <1>3, <1>5, InSyncNext
  <2>2. /\ WithoutDeps(StateAt(revs, head))' = WithoutDeps(rows)'
        /\ PublishedText' = paras'
    BY <2>1 DEF InSync
  <2>3. WithText!EditDirectly
    BY <1>2, <1>3, <1>5, <2>2 DEF WithText!EditDirectly
  <2>4. QED BY <2>3 DEF WithText!Next
<1>6. QED BY <1>4, <1>5

LEMMA SameGone ==
    ASSUME ~Gone, ~Gone'
    PROVE  UNCHANGED (bypassed \/ \E p \in Paragraphs : Lost(p))
BY DEF Gone

LEMMA SamePublished ==
    ASSUME UNCHANGED <<revs, texts, replaced, head>>
    PROVE  /\ WithoutDeps(StateAt(revs, head))' = WithoutDeps(StateAt(revs, head))
           /\ PublishedText' = PublishedText
BY DEF WithoutDeps, StateAt, PublishedText

LEMMA BeginWithText ==
    ASSUME Inv, TextInv, NEW c \in CascadeIds, CascadeBegin(c) \/ PlanUnfreeze(c), TextFollows,
           ~Gone, ~Gone'
    PROVE  WithText!Next
<1>1. OpenNewCascade(c) /\ IsOpen'
  BY BeginKeepsInv
<1>2. ~IsOpen /\ rows' = rows
  BY <1>1 DEF OpenNewCascade
<1>3. UNCHANGED <<revs, head, paras, texts, replaced>>
  BY <1>1, BegunText
<1>4. WithoutDeps(rows)' = WithoutDeps(rows)
  BY <1>2 DEF WithoutDeps
<1>5. WithText!Begin
  BY <1>1, <1>2, <1>3, <1>4, SameGone, SamePublished DEF WithText!Begin
<1>6. QED BY <1>5 DEF WithText!Next

LEMMA CommitWithText ==
    ASSUME Inv, Inv', TextInv, TextInv', LossInv', NEW c \in CascadeIds, CascadeCommit(c),
           TextFollows, ~Gone, ~Gone'
    PROVE  WithText!Next
<1>1. ~IsOpen' /\ InSync'
  BY CommitKeepsInv, InSyncNext
<1>2. IsOpen /\ rows' = rows
  BY DEF CascadeCommit, IsOpen
<1>3. paras' = paras
  BY CommittedText
<1>4. WithoutDeps(rows)' = WithoutDeps(rows)
  BY <1>2 DEF WithoutDeps
<1>5. WithText!Commit
  BY <1>1, <1>2, <1>3, <1>4, SameGone DEF WithText!Commit, InSync
<1>6. QED BY <1>5 DEF WithText!Next

LEMMA AbortWithText ==
    ASSUME Inv, Inv', TextInv, TextInv', LossInv', NEW c \in CascadeIds, CascadeAbort(c),
           TextFollows, ~Gone, ~Gone'
    PROVE  WithText!Next
<1>1. ~IsOpen' /\ InSync'
  BY AbortKeepsInv, InSyncNext
<1>2. IsOpen
  BY DEF CascadeAbort, IsOpen
<1>3. revs' = revs /\ head' = head /\ UNCHANGED <<texts, replaced>>
  BY AbortedText
<1>4. WithText!Abort
  BY <1>1, <1>2, <1>3, SameGone, SamePublished DEF WithText!Abort, InSync
<1>5. QED BY <1>4 DEF WithText!Next

LEMMA StepWithText ==
    ASSUME Inv, Inv', TextInv, TextInv', LossInv, LossInv', [NextText]_<<vars, textVars>>
    PROVE  [WithText!Next]_(WithText!vars)
<1>1. (Gone => Gone') /\ (Gone' => Gone \/ IsOpen)
  BY LossStep
<1>2. CASE Gone'
  <2>1. /\ (bypassed \/ \E p \in Paragraphs : Lost(p))' = TRUE
        /\ (bypassed \/ \E p \in Paragraphs : Lost(p)) \/ IsOpen
    BY <1>1, <1>2 DEF Gone
  <2>2. WithText!Bypass
    BY <2>1 DEF WithText!Bypass
  <2>3. QED BY <2>2 DEF WithText!Next
<1>3. CASE ~Gone'
  <2>1. ~Gone /\ ~bypassed'
    BY <1>1, <1>3 DEF Gone
  <2>2. ASSUME NEW mode \in Modes, Writes(mode), TextFollows PROVE WithText!Next
    <3>1. TextGoesOn /\ OpenCascades' = OpenCascades
      BY <2>2, WriteGoesOn, WritesFrame
    <3>2. IsOpen => head' = head
      BY <2>1, <2>2, WritesFrame DEF Writes, Modes
    <3>3. StateAt(revs', head) = StateAt(revs, head)
      BY <2>2, WritesFrame DEF Inv, TypeOK, Revisions, NoRevision
    <3>4. QED BY <1>3, <2>1, <3>1, <3>2, <3>3, EditImplements
  <2>3. ASSUME NEW mode \in Modes, TextCommand(mode) PROVE WithText!Next
    <3>1. TextGoesOn /\ TextEdit
      BY <2>3, TextCommandGoesOn, TextCommandEdits
    <3>2. head \in 0..Len(revs)
      BY DEF Inv, TypeOK, Revisions, NoRevision
    <3>3. /\ OpenCascades' = OpenCascades
          /\ IsOpen => head' = head /\ StateAt(revs', head) = StateAt(revs, head)
      BY <3>1, <3>2 DEF TextEdit
    <3>4. QED BY <1>3, <2>1, <3>1, <3>3, EditImplements
  <2>4. ASSUME UNCHANGED <<rows, revs, head, cascades>>, UNCHANGED <<paras, texts, replaced>>
        PROVE  UNCHANGED WithText!vars
    <3>1. WithoutDeps(rows)' = WithoutDeps(rows) /\ IsOpen' = IsOpen
      BY <2>4 DEF WithoutDeps, IsOpen, OpenCascades
    <3>2. QED BY <1>3, <2>1, <2>4, <3>1, SameGone, SamePublished DEF WithText!vars
  <2>5. ASSUME NEW flag \in BOOLEAN, PlanCompletedSet(flag), TextFollows
        PROVE  UNCHANGED WithText!vars
    <3>1. UNCHANGED <<rows, revs, head, cascades>>
      BY <2>5 DEF PlanCompletedSet
    <3>2. ~Aborts
      BY <3>1 DEF Aborts, OpenCascades
    <3>3. UNCHANGED <<paras, texts, replaced>>
      BY <2>5, <3>1, <3>2 DEF TextFollows, TextsFollow
    <3>4. QED BY <2>4, <3>1, <3>3
  <2>6. CASE Next /\ TextFollows
    BY <1>3, <2>1, <2>2, <2>5, <2>6, BeginWithText, CommitWithText, AbortWithText,
       NextIsWriteOrCascade
  <2>7. CASE UNCHANGED <<vars, textVars>>
    BY <2>4, <2>7 DEF vars, textVars
  <2>8. QED BY <2>3, <2>6, <2>7 DEF NextText
<1>4. QED BY <1>2, <1>3

LEMMA InitLoss == ASSUME InitText PROVE LossInv /\ ~Gone /\ ~IsOpen
<1>1. Inv /\ TextInv
  BY InitTextInv
<1>2. \A p \in Paragraphs : replaced[p] = NoRevision
  BY DEF InitText
<1>3. OpenCascades = {} /\ ~bypassed
  BY DEF InitText, Init, NoCascade, OpenCascades
<1>4. StoredRecorded
  BY <1>1, <1>2 DEF StoredRecorded, TextInv, TextRecorded, TextAt
<1>5. \A p \in Paragraphs : ~Lost(p)
  BY <1>2 DEF Lost, LostWith
<1>6. QED BY <1>3, <1>4, <1>5 DEF LossInv, LostWaits, Gone, IsOpen

LEMMA InitWithText == ASSUME InitText PROVE WithText!Init
<1>1. Inv /\ TextInv /\ LossInv /\ ~Gone /\ ~IsOpen
  BY InitTextInv, InitLoss
<1>2. InSync
  BY <1>1, InSyncNow
<1>3. WithoutDeps(rows) \in Tables /\ paras \in [Paragraphs -> ParagraphRow \cup {Absent}]
  BY <1>1, WorkingIsState DEF TextInv, TextTyped, TextTables
<1>4. (bypassed \/ \E p \in Paragraphs : Lost(p)) = FALSE /\ IsOpen = FALSE
  BY <1>1 DEF Gone, IsOpen
<1>5. QED BY <1>2, <1>3, <1>4 DEF WithText!Init, InSync

LEMMA LossInvariant == SpecText => []LossInv
<1>1. InitText => LossInv
  BY InitLoss
<1>2. (Inv /\ TextInv) /\ (Inv /\ TextInv)' /\ LossInv /\ [NextText]_<<vars, textVars>> => LossInv'
  BY LossStep
<1>3. QED BY <1>1, <1>2, TextInvariant, PTL DEF SpecText

\* The steps and the text are one published state with one working copy:
\* outside a cascade each command publishes what it writes, inside one neither
\* hrs_import with its many revisions nor an edit of a paragraph shows to a
\* reader of the head, the commit publishes steps and text at once, and
\* cascade_abort brings both back, until an abort loses a row that an import in
\* the cascade had removed (hrs/paragraph_edit.py, exchange/importer.py,
\* cascade/regime.py).
THEOREM TextPublishedTogether == SpecText => ImplementsPublishedText
<1>1. InitText => WithText!Init
  BY InitWithText
<1>2. /\ Inv /\ TextInv /\ (Inv /\ TextInv)' /\ LossInv /\ LossInv'
      /\ [NextText]_<<vars, textVars>>
      => [WithText!Next]_(WithText!vars)
  BY StepWithText
<1>3. QED BY <1>1, <1>2, TextInvariant, LossInvariant, PTL
          DEF SpecText, ImplementsPublishedText, WithText!Spec
=============================================================================
