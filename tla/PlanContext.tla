---------------------------- MODULE PlanContext ----------------------------
(***************************************************************************)
(* The context blocks of a plan (views/context_blocks.py), under the       *)
(* commands that compile them and the commands of PlanCascade, which carry *)
(* them over, promote them or leave them behind.  A block is a stored copy *)
(* of a step's definition and of rows of the MRS, made for the author of   *)
(* the step's children.  It is tagged with a revision and a cascade, and   *)
(* every reader takes it for current when these are the plan's working     *)
(* ones (current_working_state).                                           *)
(*                                                                         *)
(* A path is the set of the numbers along it, with their levels.  Left out *)
(* are the fragments of the HRS in a block, what is the same in all blocks *)
(* (template, standards, schema), and the child_level and child_ref.       *)
(***************************************************************************)
EXTENDS PlanCascadeProps

CONSTANTS Concepts,    \* the concepts among the rows of the MRS
          Scopes,      \* the sets of rows of the MRS that blocks are made of
          MaxBlocks    \* bound on the blocks stored

ASSUME ScopesAssumption == Concepts \subseteq MrsEntities /\ Scopes \subseteq SUBSET MrsEntities

VARIABLES
    blocks,    \* table context_block
    strays     \* history: the blocks that were compiled from other rows than
               \* those of the revision they are tagged with

contextVars == <<blocks, strays>>

PlanNode == {}

Path(table, s) ==
    {<<LevelOf[a], table[a].id>> : a \in {s} \cup Ancestors(table, s)}

Subjects == Present(rows) \cup {NoParent}

NodeOf(s) == IF s = NoParent THEN PlanNode ELSE Path(rows, s)

\* current_working_state
WorkingTag ==
    [rev |-> WorkingRevision, cascade |-> IF IsOpen THEN OpenCascade ELSE Absent]

\* resolve_context_revision: that of the cascade, when the command names it,
\* and otherwise the head, with or without an open cascade.
TagOf(mode) == IF mode = "cascade" THEN WorkingTag
                                   ELSE [rev |-> head, cascade |-> Absent]

TagKnown(mode) == mode = "cascade" => IsOpen

Current == {b \in blocks : b.tag = WorkingTag}

\* has_current_common_block
HasCommon(s) == \E b \in Current : b.kind = "common" /\ b.node = Path(rows, s)

\* The check context_coverage.common_current of the gate.
Covered == \A s \in Present(rows) : Children(rows, s) # {} => HasCommon(s)

----------------------------------------------------------------------------
(* Compiling.                                                              *)

\* compile_plan_material, less the rows that a common block holds.  A row of
\* the scope that is not there is a relation.
Material(scope, held) == [e \in scope |-> IF e \in held THEN Absent ELSE rows[e]]

Block(tag, kind, node, s, scope, held) ==
    [tag      |-> tag,
     kind     |-> kind,
     node     |-> node,
     subject  |-> NodeOf(s),
     fields   |-> IF s = NoParent THEN Absent ELSE rows[s].content,
     held     |-> held,
     material |-> Material(scope, held)]

\* common_context, compile_context and specific_delta
Common(tag, s, scope)  == Block(tag, "common", NodeOf(s), s, scope, {})
Compile(tag, s, scope) == Block(tag, "compile", PlanNode, s, scope, {})

HeldBy(common) == {e \in DOMAIN common.material : common.material[e] # Absent}

Specific(common, scope) ==
    Block(common.tag, "specific", common.node, NoParent, scope, HeldBy(common))

\* store_context_block.  A block that is there already is used again; a
\* concept that is not there refuses the command.
Store(new) ==
    /\ ~completed
    /\ \A b \in new : \A e \in DOMAIN b.material \cap Concepts : rows[e] # Absent
    /\ Cardinality(blocks \cup new) <= MaxBlocks
    /\ blocks' = blocks \cup new
    /\ strays' = strays \cup {b \in new \ blocks : b.tag # WorkingTag}
    /\ UNCHANGED vars

\* context_common
ContextCommon(s, scope, mode) ==
    TagKnown(mode) /\ Store({Common(TagOf(mode), s, scope)})

\* context_compile
ContextCompile(s, scope, mode) ==
    TagKnown(mode) /\ Store({Compile(TagOf(mode), s, scope)})

\* context_specific takes its tag from the common block, whatever that is.
ContextSpecific(common, scope) ==
    /\ common.kind = "common"
    /\ scope \subseteq DOMAIN common.material
    /\ Store({Specific(common, scope)})

\* context_bundle, with one child.
ContextBundle(s, scope, part, mode) ==
    LET common == Common(TagOf(mode), s, scope)
    IN /\ TagKnown(mode)
       /\ part \subseteq scope
       /\ Store({common, Specific(common, part)})

\* block_rebuild: the same from the present rows, under the working tag; for
\* a specific block, first the common one that it refers to.
BlockRebuild(b) ==
    \E s \in Subjects :
        \/ /\ b.kind = "common" /\ NodeOf(s) = b.node
           /\ Store({Common(WorkingTag, s, DOMAIN b.material)})
        \/ /\ b.kind = "compile" /\ NodeOf(s) = b.subject
           /\ Store({Compile(WorkingTag, s, DOMAIN b.material)})
        \/ /\ b.kind = "specific" /\ NodeOf(s) = b.node
           /\ \E c \in blocks :
                LET rebuilt == Common(WorkingTag, s, DOMAIN c.material)
                IN /\ c.kind = "common" /\ c.node = b.node /\ HeldBy(c) = b.held
                   /\ DOMAIN b.material \subseteq DOMAIN c.material
                   /\ Store({rebuilt, Specific(rebuilt, DOMAIN b.material)})

ContextCommand ==
    \/ \E mode \in Modes, s \in Subjects, scope \in Scopes :
        \/ ContextCommon(s, scope, mode)
        \/ ContextCompile(s, scope, mode)
        \/ \E part \in Scopes : ContextBundle(s, scope, part, mode)
    \/ \E b \in blocks :
        \/ BlockRebuild(b)
        \/ \E scope \in Scopes : ContextSpecific(b, scope)

----------------------------------------------------------------------------
(* The commands of PlanCascade.                                            *)

Retag(from, to, hit) ==
    LET moved(b) == IF b.tag = from /\ b \notin hit THEN [b EXCEPT !.tag = to] ELSE b
    IN /\ blocks' = {moved(b) : b \in blocks}
       /\ strays' = {moved(b) : b \in strays}

\* Mutant: every block is carried over.
CarryAll(mode) ==
    Retag(TagOf(mode), [TagOf(mode) EXCEPT !.rev = Len(revs')], {})

\* carry_forward_context_blocks, by a command that knows the paths of the
\* steps it has written: the blocks about other nodes go to the new revision.
CarryForward(mode) ==
    LET written == revs'[Len(revs')].touched \cap Steps
        paths   == {Path(rows', s) : s \in written}
        hit     == {b \in blocks : b.node \in paths \/ b.subject \in paths}
    IN Retag(TagOf(mode), [TagOf(mode) EXCEPT !.rev = Len(revs')], hit)

\* The guard of step_create on the context of the parent.
CreateInContext(s, p, content, mode) ==
    /\ StepCreate(s, p, content, mode)
    /\ p # NoParent => HasCommon(p)

ScopedCommand(mode) ==
    \/ \E s \in Steps :
        \/ \E p \in Steps \cup {NoParent}, c \in Contents : CreateInContext(s, p, c, mode)
        \/ \E c \in Contents : StepUpdate(s, c, mode)
        \/ \E status \in AllStatuses : StepSetStatus(s, status, mode)
    \/ DependencyCommand(mode)
    \/ TransitionCommand(mode)

\* Mutant: the blocks of the tip keep their cascade.
CommitAlone(c) == CascadeCommit(c) /\ Covered /\ UNCHANGED contextVars

\* commit_cascade: the gate wants the parents covered, and the blocks of the
\* tip become blocks of the head.  The unique index context_block_idempotent
\* refuses a second copy of a block: the tip may be the head.
CommitPromotes(c) ==
    LET tip    == [rev |-> cascades[c].ref, cascade |-> c]
        public == [tip EXCEPT !.cascade = Absent]
    IN /\ CascadeCommit(c)
       /\ Covered
       /\ \A b \in blocks : b.tag = tip => [b EXCEPT !.tag = public] \notin blocks
       /\ Retag(tip, public, {})

\* step_move, step_delete and the commands on the MRS carry nothing over.
UnscopedCommand ==
    \/ \E mode \in Modes, s \in Steps :
        \/ \E p \in Steps : StepMove(s, p, mode)
        \/ \E recursive \in BOOLEAN : StepDelete(s, recursive, mode)
    \/ \E e \in MrsEntities, new \in Contents \cup {Absent} : MrsWrite(e, new)
    \/ \E c \in CascadeIds : CascadeBegin(c) \/ PlanUnfreeze(c) \/ CascadeAbort(c)
    \/ \E flag \in BOOLEAN : PlanCompletedSet(flag)

InitContext == Init /\ blocks = {} /\ strays = {}

NextContext ==
    \/ ContextCommand
    \/ \E mode \in Modes : ScopedCommand(mode) /\ CarryForward(mode)
    \/ UnscopedCommand /\ UNCHANGED contextVars
    \/ \E c \in CascadeIds : CommitPromotes(c)

SpecContext == InitContext /\ [][NextContext]_<<vars, contextVars>>

----------------------------------------------------------------------------
(* Properties                                                              *)

\* What a block shows is what would be compiled now.
Fresh(b) ==
    /\ \E s \in Subjects : /\ NodeOf(s) = b.subject
                           /\ s # NoParent => rows[s].content = b.fields
    /\ b.material = Material(DOMAIN b.material, b.held)

\* A block that readers take for current shows the plan as it is: no write is
\* missed when blocks are carried over, promoted, or found again under the
\* head by an abort.  Excepted are blocks compiled past an open cascade, which
\* are tagged with a head they do not show, and plans whose head has been
\* moved past a cascade by step_transition.
BlocksCurrent == ~bypassed => \A b \in Current \ strays : Fresh(b)

\* A commit that the gate let through leaves the plan covered as it was: its
\* head does not open red for want of context.
HeadOpensGreen ==
    [][\A c \in OpenCascades :
        cascades'[c].status = "committed" => Covered']_<<vars, contextVars>>
=============================================================================
