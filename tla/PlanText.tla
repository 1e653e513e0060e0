------------------------------ MODULE PlanText ------------------------------
(***************************************************************************)
(* The text of the plan (the HRS) beside its steps: the table paragraph,   *)
(* the commands on it (hrs/paragraph_edit.py, hrs/paragraphs.py,           *)
(* exchange/importer.py), and what the cascades of PlanCascade do to it.   *)
(* The paragraphs share the revisions of the plan; texts[r] is what        *)
(* revision r holds of them, and its state_at.  A paragraph is known by    *)
(* its uuid; its label, which is unique, is left out.                      *)
(***************************************************************************)
EXTENDS PlanCascadeProps, Integers, FiniteSetsExt

CONSTANTS Paragraphs,   \* uuids of paragraphs, numbers: given in their order
          Texts,        \* texts of paragraphs
          Documents     \* sequences of texts that hrs_import is called with

\* A uuid has 128 bits; validate_hrs refuses a document without paragraphs.
ASSUME ParagraphsAssumption == (Paragraphs \subseteq Nat \ {0}) /\ IsFiniteSet(Paragraphs)
ASSUME TextsAssumption == Documents \subseteq (Seq(Texts) \ {<<>>})

VARIABLES
    paras,      \* table paragraph
    texts,      \* the paragraph snapshots of the revisions
    replaced    \* history: the revision by which hrs_import removed a row

textVars == <<paras, texts, replaced>>

Text == INSTANCE VersionStore WITH Entities <- Paragraphs

ParagraphRow == [text : Texts, position : Nat, binding : BOOLEAN]

ASSUME AbsentTextAssumption == Absent \notin ParagraphRow

Stored  == {p \in Paragraphs : paras[p] # Absent}
Binding == {p \in Stored : paras[p].binding}

\* The uuids that no row and no revision ever had.
Unused == {p \in Paragraphs \ Stored : \A r \in Revisions : p \notin texts[r].touched}

\* The n least of a set.
Least(set, n) == {p \in set : Cardinality({q \in set : q <= p}) <= n}

\* The rows of a document; assign_missing_labels does not change their order.
Rowed(set, doc) ==
    [p \in set |->
        LET place == Cardinality({q \in set : q < p})
        IN [text |-> doc[place + 1], position |-> place, binding |-> TRUE]]

\* plan_import writes the text, then the tree: here the two revisions are one.
InitText ==
    /\ Init
    /\ replaced = [p \in Paragraphs |-> NoRevision]
    /\ IF revs = <<>>
       THEN paras = Text!EmptyState /\ texts = <<>>
       ELSE \E doc \in Documents :
            LET new == Rowed(Least(Paragraphs, Len(doc)), doc)
            IN /\ paras = Overlay(Text!EmptyState, new)
               /\ texts = Text!RecordRevision(<<>>, NoRevision, new)

----------------------------------------------------------------------------
(* Commands on paragraphs.  Admission is that of a paragraph: outside a    *)
(* cascade no step may be frozen.                                          *)

Admitted(mode) == ~completed /\ AdmitPlan(mode)

\* _record_changes: the revision of the plan that holds these snapshots.
RecordText(mode, changes) ==
    /\ Record(mode, <<>>)
    /\ texts' = Text!RecordRevision(texts, revs'[Len(revs')].parent, changes)
    /\ UNCHANGED <<rows, planStatus, completed, bypassed>>

WriteText(mode, table, set) ==
    /\ paras' = table
    /\ RecordText(mode, Snapshot(table, set))
    /\ UNCHANGED replaced

Shifted(set, delta) ==
    [p \in Paragraphs |-> IF p \in set THEN [paras[p] EXCEPT !.position = @ + delta]
                                       ELSE paras[p]]

\* Mutant: only the paragraphs that para_list shows make room.
RoomAmongBinding(position) == {p \in Binding : paras[p].position >= position}

\* shift_positions takes the rows that do not bind too.
From(position) == {p \in Stored : paras[p].position >= position}

\* para_insert: at the place of a binding paragraph, or, for 0, after the last
\* row.
ParaInsert(text, place, mode) ==
    LET position == IF place \in Binding THEN paras[place].position
                    ELSE Max({0} \cup {paras[p].position + 1 : p \in Stored})
        later == From(position)
    IN /\ Admitted(mode)
       /\ \E new \in Least(Unused, 1) :
            WriteText(mode, [Shifted(later, 1) EXCEPT ![new] =
                        [text |-> text, position |-> position, binding |-> TRUE]],
                      {new} \cup later)

\* para_update
ParaUpdate(p, text, mode) ==
    /\ Admitted(mode)
    /\ p \in Binding
    /\ WriteText(mode, [paras EXCEPT ![p].text = text], {p})

\* Mutant: the rows that move up are not snapshotted.
DeleteRecordsOne(p, mode) ==
    /\ Admitted(mode)
    /\ p \in Binding
    /\ WriteText(mode, [Shifted(From(paras[p].position + 1), -1) EXCEPT ![p] = Absent],
                 {p})

\* para_delete closes the gap; the row is recorded with a tombstone.
ParaDelete(p, mode) ==
    LET later == From(paras[p].position + 1)
    IN /\ Admitted(mode)
       /\ p \in Binding
       /\ WriteText(mode, [Shifted(later, -1) EXCEPT ![p] = Absent], {p} \cup later)

\* para_mark_non_binding, to wrap and to unwrap; the row keeps its place.
ParaMarkNonBinding(p, binding, mode) ==
    /\ Admitted(mode)
    /\ p \in Stored
    /\ paras[p].binding # binding
    /\ WriteText(mode, [paras EXCEPT ![p].binding = binding], {p})

Recorded(log, parent, changes) ==
    [revs  |-> RecordRevision(log.revs, parent, <<>>),
     texts |-> Text!RecordRevision(log.texts, parent, changes)]

\* The rows of a document, recorded in n revisions after the revision first:
\* all of them in one, or each in its own.
RowsLogged(new, first, n) ==
    LET parent(k) == IF k = 1 THEN first ELSE Len(revs) + k - 1
        part(k) == {p \in DOMAIN new : n > 1 => new[p].position = k - 1}
        log[k \in 0 .. n] ==
            IF k = 0 THEN [revs |-> revs, texts |-> texts]
                     ELSE Recorded(log[k - 1], parent(k), Snapshot(new, part(k)))
    IN log

\* hrs_import: every row goes, in one statement and without a tombstone, and
\* the rows of the document come; in a cascade each with its own revision.
HrsImport(doc, mode) ==
    LET new   == Rowed(Least(Unused, Len(doc)), doc)
        n     == IF mode = "cascade" THEN Len(doc) ELSE 1
        first == IF mode = "cascade" THEN cascades[OpenCascade].ref ELSE head
        log   == RowsLogged(new, first, n)
    IN /\ Admitted(mode)
       /\ Cardinality(Unused) >= Len(doc)
       /\ Len(revs) + n <= MaxRevs
       /\ paras' = Overlay(Text!EmptyState, new)
       /\ replaced' = [p \in Paragraphs |-> IF p \in Stored THEN Len(revs) + 1
                                                            ELSE replaced[p]]
       /\ revs' = log[n].revs
       /\ texts' = log[n].texts
       /\ IF mode = "cascade"
          THEN /\ cascades' = [cascades EXCEPT ![OpenCascade].ref = Len(revs) + n]
               /\ UNCHANGED head
          ELSE head' = Len(revs) + n /\ UNCHANGED cascades
       /\ UNCHANGED <<rows, planStatus, completed, bypassed>>

TextCommand(mode) ==
    \/ \E text \in Texts :
        \/ \E place \in Binding \cup {0} : ParaInsert(text, place, mode)
        \/ \E p \in Paragraphs : ParaUpdate(p, text, mode)
    \/ \E p \in Paragraphs :
        \/ ParaDelete(p, mode)
        \/ \E binding \in BOOLEAN : ParaMarkNonBinding(p, binding, mode)
    \/ \E doc \in Documents : HrsImport(doc, mode)

----------------------------------------------------------------------------
(* The other commands of the plan.                                         *)

TextsFollow ==
    texts' = IF Len(revs') = Len(revs) THEN texts
             ELSE Text!RecordRevision(texts, revs'[Len(revs')].parent, <<>>)

\* Mutant: cascade_abort restores the steps and the MRS only.
FollowsNoAbort == TextsFollow /\ UNCHANGED <<paras, replaced>>

\* A revision of steps or of the MRS leaves the text as its parent has it;
\* cascade_abort restores the rows of all tables.
TextFollows ==
    /\ TextsFollow
    /\ paras' = IF Aborts
                THEN LET c == CHOOSE c \in OpenCascades : cascades'[c].status = "aborted"
                     IN Text!Restored(texts, paras, cascades[c].base, cascades[c].ref)
                ELSE paras
    /\ UNCHANGED replaced

NextText ==
    \/ Next /\ TextFollows
    \/ \E mode \in Modes : TextCommand(mode)

SpecText == InitText /\ [][NextText]_<<vars, textVars>>

----------------------------------------------------------------------------
(* Properties                                                              *)

\* The paragraphs are what the version store reads at the working revision,
\* their positions included, through shifts, wrapping, commits and aborts,
\* but for those that an import has replaced.
TextRecorded ==
    \A p \in Paragraphs :
        replaced[p] = NoRevision =>
            paras[p] = Text!StateAt(texts, WorkingRevision)[p]

\* The import that removed p was not part of the present plan: its cascade
\* was aborted.
LostWith(p) == replaced[p] \notin Chain(revs, WorkingRevision) \cup {NoRevision}

\* The positions are 0, 1, 2 ... over all rows, those that do not bind
\* included, until a cascade with an import is aborted.
TextDense ==
    (\A p \in Paragraphs : ~LostWith(p)) =>
        {paras[p].position : p \in Stored} = 0 .. (Cardinality(Stored) - 1)

\* A row that an import of an aborted cascade removed and the abort did not
\* bring back.
Lost(p) ==
    /\ LostWith(p)
    /\ paras[p] = Absent
    /\ Text!StateAt(texts, WorkingRevision)[p] # Absent

\* What a reader of the head finds of the text.
PublishedText ==
    [p \in Paragraphs |-> IF replaced[p] \in Chain(revs, head) THEN Absent
                          ELSE Text!StateAt(texts, head)[p]]

WithText == INSTANCE PublishedPlan WITH
    States    <- Tables \X [Paragraphs -> ParagraphRow \cup {Absent}],
    published <- <<WithoutDeps(StateAt(revs, head)), PublishedText>>,
    working   <- <<WithoutDeps(rows), paras>>,
    editing   <- IsOpen,
    bypassed  <- bypassed \/ \E p \in Paragraphs : Lost(p)

\* The steps and the text together are one published state with one working
\* copy: inside a cascade neither is published, an import that replaces the
\* whole text included, and an abort brings both back; from the first abort on
\* that loses a row, nothing is promised.
ImplementsPublishedText == WithText!Spec

\* cascade_abort "discards the change set and leaves the plan untouched": what
\* the text was when the cascade began, it is after the abort.
AbortKeepsText ==
    [][\A c \in OpenCascades :
        cascades'[c].status = "aborted" =>
            \A p \in Paragraphs :
                paras'[p] = IF replaced[p] \in Chain(revs, cascades[c].base) THEN Absent
                            ELSE Text!StateAt(texts, cascades[c].base)[p]]_<<vars, textVars>>
=============================================================================
