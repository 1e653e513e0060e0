------------------------- MODULE PlanContext_proofs -------------------------
(***************************************************************************)
(* Proofs about PlanContext, for every plan and any number of blocks: what *)
(* is carried over, promoted or found again is current.                    *)
(***************************************************************************)
EXTENDS PlanContext, PlanCascade_proofs

\* A block made of definitions and rows of the MRS, under a revision.
IsBlock(b) ==
    /\ b = [tag |-> b.tag, kind |-> b.kind, node |-> b.node, subject |-> b.subject,
            fields |-> b.fields, held |-> b.held, material |-> b.material]
    /\ b.tag = [rev |-> b.tag.rev, cascade |-> b.tag.cascade]
    /\ b.tag.rev \in 0..Len(revs)
    /\ DOMAIN b.material \subseteq MrsEntities

\* What a block shows is what would be compiled from the table.
FreshAt(b, t) ==
    /\ \/ b.subject = PlanNode
       \/ \E s \in Present(t) : Path(t, s) = b.subject /\ t[s].content = b.fields
    /\ b.material = [e \in DOMAIN b.material |-> IF e \in b.held THEN Absent ELSE t[e]]

\* The inductive invariant: a block shows the revision that it is tagged with,
\* whether that is still, or again, the working one or not.
ContextInv ==
    /\ \A b \in blocks : IsBlock(b)
    /\ ~bypassed => \A b \in blocks \ strays : FreshAt(b, StateAt(revs, b.tag.rev))

LEMMA FreshNow ==
    ASSUME NEW b, FreshAt(b, rows)
    PROVE  Fresh(b)
<1>1. NoParent \notin Present(rows)
  BY StepsAssumption DEF Present
<1>2. b.material = Material(DOMAIN b.material, b.held)
  BY DEF FreshAt, Material
<1>3. \E s \in Subjects : /\ NodeOf(s) = b.subject
                          /\ s # NoParent => rows[s].content = b.fields
  <2>1. CASE b.subject = PlanNode
    <3>1. NoParent \in Subjects /\ NodeOf(NoParent) = b.subject
      BY <2>1 DEF Subjects, NodeOf
    <3>2. QED BY <3>1
  <2>2. CASE \E s \in Present(rows) : Path(rows, s) = b.subject /\ rows[s].content = b.fields
    BY <1>1, <2>2 DEF Subjects, NodeOf
  <2>3. QED BY <2>1, <2>2 DEF FreshAt
<1>4. QED BY <1>2, <1>3 DEF Fresh

\* Tables that agree but for dependencies show the same.
LEMMA AgreeingPath ==
    ASSUME NEW t, NEW u, \A e \in Entities : AgreesAt(t, u, e), NEW s \in Present(t)
    PROVE  s \in Present(u) /\ Path(t, s) = Path(u, s) /\ t[s].content = u[s].content
<1>1. Present(t) = Present(u)
  BY StepsAreEntities DEF Present, AgreesAt
<1>2. \A a \in Present(t) : /\ t[a].parent = u[a].parent
                            /\ t[a].id = u[a].id
                            /\ t[a].content = u[a].content
  BY StepsAreEntities DEF Present, AgreesAt
<1>3. \A a \in Present(t) : ImpactSet(t, a) = ImpactSet(u, a)
  BY <1>1, <1>2 DEF ImpactSet, Children
<1>4. Ancestors(t, s) = Ancestors(u, s)
  BY <1>1, <1>3 DEF Ancestors
<1>5. \A a \in {s} \cup Ancestors(t, s) : t[a].id = u[a].id
  BY <1>2 DEF Ancestors
<1>6. Path(t, s) = Path(u, s)
  BY <1>4, <1>5 DEF Path
<1>7. QED BY <1>1, <1>2, <1>6

LEMMA AgreeingFresh ==
    ASSUME NEW t, NEW u, \A e \in Entities : AgreesAt(t, u, e),
           NEW b, DOMAIN b.material \subseteq MrsEntities, FreshAt(b, t)
    PROVE  FreshAt(b, u)
<1>1. \A e \in DOMAIN b.material : t[e] = u[e]
  BY StepsAreEntities DEF AgreesAt
<1>2. b.subject = PlanNode \/
         \E s \in Present(u) : Path(u, s) = b.subject /\ u[s].content = b.fields
  BY AgreeingPath DEF FreshAt
<1>3. QED BY <1>1, <1>2 DEF FreshAt

LEMMA AgreesBack ==
    ASSUME NEW t, NEW u, \A e \in Entities : AgreesAt(t, u, e),
           NEW b, DOMAIN b.material \subseteq MrsEntities, FreshAt(b, u)
    PROVE  FreshAt(b, t)
<1>1. \A e \in DOMAIN b.material : t[e] = u[e]
  BY StepsAreEntities DEF AgreesAt
<1>2. Present(t) = Present(u)
  BY StepsAreEntities DEF Present, AgreesAt
<1>3. b.subject = PlanNode \/
         \E s \in Present(t) : Path(t, s) = b.subject /\ t[s].content = b.fields
  BY <1>2, AgreeingPath DEF FreshAt
<1>4. QED BY <1>1, <1>3 DEF FreshAt

\* Blocks of the working revision show the rows, and are tagged accordingly.
LEMMA WorkingFresh ==
    ASSUME Inv, ~bypassed, NEW b, DOMAIN b.material \subseteq MrsEntities
    PROVE  FreshAt(b, rows) <=> FreshAt(b, StateAt(revs, WorkingRevision))
<1>1. \A e \in Entities : AgreesAt(rows, StateAt(revs, WorkingRevision), e)
  BY DEF Inv, RowsAgree
<1>2. QED BY <1>1, AgreeingFresh, AgreesBack

\* The property follows.
LEMMA BlocksAreCurrent ==
    ASSUME Inv, ContextInv PROVE BlocksCurrent
<1>1. SUFFICES ASSUME ~bypassed, NEW b \in Current \ strays PROVE Fresh(b)
  BY DEF BlocksCurrent
<1>2. b \in blocks \ strays /\ b.tag.rev = WorkingRevision
  BY DEF Current, WorkingTag
<1>3. FreshAt(b, StateAt(revs, WorkingRevision)) /\ DOMAIN b.material \subseteq MrsEntities
  BY <1>1, <1>2 DEF ContextInv, IsBlock
<1>4. FreshAt(b, rows)
  BY <1>1, <1>3, WorkingFresh
<1>5. QED BY <1>4, FreshNow

----------------------------------------------------------------------------
(* Compiling                                                               *)

LEMMA CompiledBlock ==
    ASSUME Inv, NEW tag, NEW rev \in 0..Len(revs), NEW cascade,
           tag = [rev |-> rev, cascade |-> cascade],
           NEW kind, NEW node, NEW s \in Subjects, NEW scope \in SUBSET MrsEntities, NEW held,
           NEW b, b = Block(tag, kind, node, s, scope, held)
    PROVE  /\ IsBlock(b)
           /\ b.tag = tag /\ b.kind = kind /\ b.node = node
           /\ FreshAt(b, rows)
           /\ DOMAIN b.material = scope
<1>1. /\ b = [tag |-> tag, kind |-> kind, node |-> node, subject |-> NodeOf(s),
              fields |-> IF s = NoParent THEN Absent ELSE rows[s].content,
              held |-> held, material |-> Material(scope, held)]
      /\ DOMAIN Material(scope, held) = scope
  BY DEF Block, Material
<1>2. /\ b.tag = tag /\ b.kind = kind /\ b.node = node /\ b.subject = NodeOf(s)
      /\ b.fields = (IF s = NoParent THEN Absent ELSE rows[s].content)
      /\ b.held = held /\ b.material = Material(scope, held)
  BY <1>1
<1>3. IsBlock(b)
  BY <1>1, <1>2 DEF IsBlock
<1>4. FreshAt(b, rows)
  <2>1. b.subject = PlanNode \/
           \E x \in Present(rows) : Path(rows, x) = b.subject /\ rows[x].content = b.fields
    <3>1. CASE s = NoParent
      BY <1>2, <3>1 DEF NodeOf
    <3>2. CASE s # NoParent
      BY <1>2, <3>2 DEF NodeOf, Subjects
    <3>3. QED BY <3>1, <3>2
  <2>2. b.material = [e \in DOMAIN b.material |-> IF e \in b.held THEN Absent ELSE rows[e]]
    BY <1>1, <1>2 DEF Material
  <2>3. QED BY <2>1, <2>2 DEF FreshAt
<1>5. QED BY <1>1, <1>2, <1>3, <1>4

\* The blocks that a command stores: of the rows, with a known tag.
Compiled(b) == IsBlock(b) /\ FreshAt(b, rows)

LEMMA StoreKeepsContext ==
    ASSUME Inv, ContextInv, NEW new, Store(new), \A b \in new : Compiled(b)
    PROVE  ContextInv'
<1>1. /\ blocks' = blocks \cup new
      /\ strays' = strays \cup {b \in new \ blocks : b.tag # WorkingTag}
      /\ revs' = revs /\ bypassed' = bypassed
  BY DEF Store, vars
<1>2. \A b \in blocks' : IsBlock(b)'
  BY <1>1 DEF Compiled, ContextInv, IsBlock
<1>3. ASSUME ~bypassed, NEW b \in blocks' \ strays'
      PROVE  FreshAt(b, StateAt(revs, b.tag.rev))
  <2>1. CASE b \in blocks
    BY <1>1, <1>3, <2>1 DEF ContextInv
  <2>2. CASE b \notin blocks
    <3>1. b \in new /\ b.tag = WorkingTag
      BY <1>1, <1>3, <2>2
    <3>2. FreshAt(b, rows) /\ DOMAIN b.material \subseteq MrsEntities /\ b.tag.rev = WorkingRevision
      BY <3>1 DEF Compiled, IsBlock, WorkingTag
    <3>3. QED BY <1>3, <3>2, WorkingFresh
  <2>3. QED BY <2>1, <2>2
<1>4. QED BY <1>1, <1>2, <1>3 DEF ContextInv, FreshAt, StateAt

LEMMA TagFact ==
    ASSUME Inv, NEW mode, TagKnown(mode)
    PROVE  /\ TagOf(mode) = [rev |-> TagOf(mode).rev, cascade |-> TagOf(mode).cascade]
           /\ TagOf(mode).rev \in 0..Len(revs)
           /\ WorkingTag = [rev |-> WorkingTag.rev, cascade |-> WorkingTag.cascade]
           /\ WorkingTag.rev \in 0..Len(revs)
<1>1. WorkingRevision \in 0..Len(revs)
  BY WorkingRevisionExists DEF Inv
<1>2. head \in 0..Len(revs)
  BY DEF Inv, TypeOK, Revisions, NoRevision
<1>3. QED BY <1>1, <1>2 DEF TagOf, WorkingTag

\* The blocks of a plan, and the specific ones made from a common one.
LEMMA PlanBlock ==
    ASSUME Inv, NEW tag, tag = [rev |-> tag.rev, cascade |-> tag.cascade],
           tag.rev \in 0..Len(revs), NEW s \in Subjects, NEW scope \in SUBSET MrsEntities
    PROVE  /\ Compiled(Common(tag, s, scope))
           /\ Compiled(Compile(tag, s, scope))
           /\ Common(tag, s, scope).tag = tag
           /\ DOMAIN Common(tag, s, scope).material = scope
BY CompiledBlock DEF Common, Compile, Compiled

LEMMA SpecificBlock ==
    ASSUME Inv, NEW common, IsBlock(common), NEW scope, scope \subseteq DOMAIN common.material
    PROVE  Compiled(Specific(common, scope))
<1>1. NoParent \in Subjects /\ scope \in SUBSET MrsEntities
  BY DEF Subjects, IsBlock
<1>2. common.tag = [rev |-> common.tag.rev, cascade |-> common.tag.cascade]
      /\ common.tag.rev \in 0..Len(revs)
  BY DEF IsBlock
<1>3. QED BY <1>1, <1>2, CompiledBlock DEF Specific, Compiled

LEMMA ContextCommandKeepsContext ==
    ASSUME Inv, ContextInv, ContextCommand PROVE ContextInv'
<1>1. ASSUME NEW mode \in Modes, NEW s \in Subjects, NEW scope \in Scopes,
             ContextCommon(s, scope, mode) \/ ContextCompile(s, scope, mode)
      PROVE  ContextInv'
  <2>1. TagKnown(mode) /\ scope \in SUBSET MrsEntities
    BY <1>1, ScopesAssumption DEF ContextCommon, ContextCompile
  <2>2. Compiled(Common(TagOf(mode), s, scope)) /\ Compiled(Compile(TagOf(mode), s, scope))
    BY <2>1, TagFact, PlanBlock
  <2>3. CASE ContextCommon(s, scope, mode)
    <3>1. Store({Common(TagOf(mode), s, scope)})
      BY <2>3 DEF ContextCommon
    <3>2. QED BY <2>2, <3>1, StoreKeepsContext
  <2>4. CASE ContextCompile(s, scope, mode)
    <3>1. Store({Compile(TagOf(mode), s, scope)})
      BY <2>4 DEF ContextCompile
    <3>2. QED BY <2>2, <3>1, StoreKeepsContext
  <2>5. QED BY <1>1, <2>3, <2>4
<1>2. ASSUME NEW mode \in Modes, NEW s \in Subjects, NEW scope \in Scopes, NEW part \in Scopes,
             ContextBundle(s, scope, part, mode)
      PROVE  ContextInv'
  <2> DEFINE common == Common(TagOf(mode), s, scope)
  <2>1. /\ TagKnown(mode) /\ part \subseteq scope /\ scope \in SUBSET MrsEntities
        /\ Store({common, Specific(common, part)})
    BY <1>2, ScopesAssumption DEF ContextBundle
  <2>2. Compiled(common) /\ DOMAIN common.material = scope
    BY <2>1, TagFact, PlanBlock
  <2> HIDE DEF common
  <2>3. Compiled(Specific(common, part))
    BY <2>1, <2>2, SpecificBlock DEF Compiled
  <2>4. QED BY <2>1, <2>2, <2>3, StoreKeepsContext
<1>3. ASSUME NEW b \in blocks, NEW scope \in Scopes, ContextSpecific(b, scope)
      PROVE  ContextInv'
  <2>1. scope \subseteq DOMAIN b.material /\ Store({Specific(b, scope)}) /\ IsBlock(b)
    BY <1>3 DEF ContextSpecific, ContextInv
  <2>2. Compiled(Specific(b, scope))
    BY <2>1, SpecificBlock
  <2>3. QED BY <2>1, <2>2, StoreKeepsContext
<1>4. ASSUME NEW b \in blocks, BlockRebuild(b) PROVE ContextInv'
  <2>1. DOMAIN b.material \in SUBSET MrsEntities
    BY DEF ContextInv, IsBlock
  <2>2. /\ WorkingTag = [rev |-> WorkingTag.rev, cascade |-> WorkingTag.cascade]
        /\ WorkingTag.rev \in 0..Len(revs)
    <3>1. TagKnown("direct")
      BY DEF TagKnown
    <3>2. QED BY <3>1, TagFact
  <2>3. PICK s \in Subjects :
          \/ Store({Common(WorkingTag, s, DOMAIN b.material)})
          \/ Store({Compile(WorkingTag, s, DOMAIN b.material)})
          \/ \E c \in blocks :
                /\ DOMAIN b.material \subseteq DOMAIN c.material
                /\ Store({Common(WorkingTag, s, DOMAIN c.material),
                          Specific(Common(WorkingTag, s, DOMAIN c.material), DOMAIN b.material)})
    BY <1>4 DEF BlockRebuild
  <2>4. Compiled(Common(WorkingTag, s, DOMAIN b.material))
        /\ Compiled(Compile(WorkingTag, s, DOMAIN b.material))
    BY <2>1, <2>2, PlanBlock
  <2>5. ASSUME NEW c \in blocks, DOMAIN b.material \subseteq DOMAIN c.material,
               Store({Common(WorkingTag, s, DOMAIN c.material),
                      Specific(Common(WorkingTag, s, DOMAIN c.material), DOMAIN b.material)})
        PROVE  ContextInv'
    <3> DEFINE rebuilt == Common(WorkingTag, s, DOMAIN c.material)
    <3>1. DOMAIN c.material \in SUBSET MrsEntities
      BY DEF ContextInv, IsBlock
    <3>2. Compiled(rebuilt) /\ DOMAIN rebuilt.material = DOMAIN c.material
      BY <2>2, <3>1, PlanBlock
    <3>3. Store({rebuilt, Specific(rebuilt, DOMAIN b.material)})
      BY <2>5
    <3> HIDE DEF rebuilt
    <3>4. Compiled(Specific(rebuilt, DOMAIN b.material))
      BY <2>5, <3>2, SpecificBlock DEF Compiled
    <3>5. QED BY <3>2, <3>3, <3>4, StoreKeepsContext
  <2>6. QED BY <2>3, <2>4, <2>5, StoreKeepsContext
<1>5. QED BY <1>1, <1>2, <1>3, <1>4 DEF ContextCommand

----------------------------------------------------------------------------
(* Carrying over                                                           *)

\* Where a block goes, and with what on it.
Moved(b, from, to, hit) == IF b.tag = from /\ b \notin hit THEN [b EXCEPT !.tag = to] ELSE b

LEMMA RetagFact ==
    ASSUME NEW from, NEW to, NEW hit, Retag(from, to, hit), NEW d \in blocks'
    PROVE  \E b \in blocks : d = Moved(b, from, to, hit) /\ (d \notin strays' => b \notin strays)
BY DEF Retag, Moved

LEMMA MovedFact ==
    ASSUME NEW b, IsBlock(b), NEW from, NEW to, NEW hit, b.tag = from, b \notin hit,
           NEW d, d = Moved(b, from, to, hit)
    PROVE  /\ d = [tag |-> to, kind |-> b.kind, node |-> b.node, subject |-> b.subject,
                   fields |-> b.fields, held |-> b.held, material |-> b.material]
           /\ d.tag = to /\ d.kind = b.kind /\ d.node = b.node /\ d.subject = b.subject
           /\ d.fields = b.fields /\ d.held = b.held /\ d.material = b.material
<1>1. b = [tag |-> b.tag, kind |-> b.kind, node |-> b.node, subject |-> b.subject,
           fields |-> b.fields, held |-> b.held, material |-> b.material]
  BY DEF IsBlock
<1>2. d = [b EXCEPT !.tag = to]
  BY DEF Moved
<1>3. d = [tag |-> to, kind |-> b.kind, node |-> b.node, subject |-> b.subject,
           fields |-> b.fields, held |-> b.held, material |-> b.material]
  BY <1>1, <1>2
<1>4. QED BY <1>3

\* The tag apart, a block shows what it showed.
LEMMA SameShown ==
    ASSUME NEW b, NEW d, d.subject = b.subject, d.fields = b.fields, d.held = b.held,
           d.material = b.material, NEW t
    PROVE  FreshAt(d, t) <=> FreshAt(b, t)
BY DEF FreshAt

\* The commands that know what they have written change no place, remove no
\* step and leave the MRS alone.
LEMMA ScopedEffect ==
    ASSUME Inv, NEW mode \in Modes, ScopedCommand(mode)
    PROVE  /\ Next
           /\ Writes(mode)
           /\ \A d \in Present(rows) : d \in Present(rows') /\ Placed(rows', rows, d)
           /\ \A e \in MrsEntities : rows'[e] = rows[e]
<1> DEFINE Kept == /\ \A d \in Present(rows) : d \in Present(rows') /\ Placed(rows', rows, d)
                   /\ \A e \in MrsEntities : rows'[e] = rows[e]
<1>1. ASSUME NEW s \in Steps, NEW p \in Steps \cup {NoParent}, NEW c \in Contents,
             CreateInContext(s, p, c, mode)
      PROVE  StepCommand(mode) /\ Writes(mode) /\ Kept
  <2>1. StepCreate(s, p, c, mode)
    BY <1>1 DEF CreateInContext
  <2>2. /\ s \notin Present(rows)
        /\ Present(rows') = Present(rows) \cup {s}
        /\ \A d \in Entities \ {s} : rows'[d] = rows[d]
    BY <2>1, StepCreateEffect
  <2>3. \A d \in Present(rows) : rows'[d] = rows[d]
    BY <2>2, StepsAreEntities DEF Present
  <2>4. \A e \in MrsEntities : rows'[e] = rows[e]
    BY <2>2, StepsAreEntities
  <2>5. StepCommand(mode)
    BY <2>1 DEF StepCommand
  <2>6. Writes(mode)
    BY <2>1, StepCreateWrites
  <2>7. QED BY <2>2, <2>3, <2>4, <2>5, <2>6 DEF Placed
<1>2. ASSUME NEW s \in Steps, NEW c \in Contents, StepUpdate(s, c, mode)
      PROVE  StepCommand(mode) /\ Writes(mode) /\ Kept
  <2>1. SamePlaces(rows', rows) /\ \A e \in MrsEntities : rows'[e] = rows[e]
    BY <1>2, StepUpdateEffect
  <2>2. StepCommand(mode) /\ Writes(mode)
    BY <1>2, StepUpdateWrites DEF StepCommand
  <2>3. QED BY <2>1, <2>2 DEF SamePlaces
<1>3. ASSUME NEW s \in Steps, NEW status \in AllStatuses, StepSetStatus(s, status, mode)
      PROVE  StepCommand(mode) /\ Writes(mode) /\ Kept
  <2>1. SamePlaces(rows', rows) /\ \A e \in MrsEntities : rows'[e] = rows[e]
    BY <1>3, StepSetStatusEffect
  <2>2. StepCommand(mode) /\ Writes(mode)
    BY <1>3, StepSetStatusWrites DEF StepCommand
  <2>3. QED BY <2>1, <2>2 DEF SamePlaces
<1>4. ASSUME DependencyCommand(mode) PROVE Writes(mode) /\ Kept
  <2>1. EditsDeps(mode)
    BY <1>4, DependencyCommandEdits
  <2>2. SamePlaces(rows', rows) /\ \A e \in MrsEntities : rows'[e] = rows[e]
    BY <2>1, EditsDepsEffect
  <2>3. Writes(mode)
    BY <2>1, EditsDepsWrites
  <2>4. QED BY <2>2, <2>3 DEF SamePlaces
<1>5. ASSUME TransitionCommand(mode) PROVE Writes(mode) /\ Kept
  <2>1. PICK scope \in TransitionScopes, to \in TransitionTargets :
           StepTransition(scope, to, mode)
    BY <1>5 DEF TransitionCommand
  <2>2. scope \subseteq Present(rows)
    BY DEF TransitionScopes, Subtree, ImpactSet, Children
  <2>3. SamePlaces(rows', rows) /\ \A e \in MrsEntities : rows'[e] = rows[e]
    BY <2>1, <2>2, StepTransitionEffect
  <2>4. Writes(mode)
    BY <2>1, <2>2, StepTransitionWrites
  <2>5. QED BY <2>3, <2>4 DEF SamePlaces
<1> HIDE DEF Kept
<1>6. Next /\ Writes(mode) /\ Kept
  BY <1>1, <1>2, <1>3, <1>4, <1>5 DEF ScopedCommand, Next
<1>7. QED BY <1>6 DEF Kept

\* A step that is where it was has the path that it had: nothing comes above
\* it, for its parents were there.
LEMMA PathStays ==
    ASSUME ParentsThere(rows),
           \A d \in Present(rows) : d \in Present(rows') /\ Placed(rows', rows, d),
           NEW s \in Present(rows)
    PROVE  Path(rows', s) = Path(rows, s)
<1>1. \A d \in Present(rows) : /\ d \in Present(rows')
                               /\ rows'[d].parent = rows[d].parent
                               /\ rows'[d].id = rows[d].id
  BY DEF Placed
<1>2. NoParent \notin Present(rows')
  BY StepsAssumption DEF Present
<1>3. ASSUME NEW a PROVE a \in Ancestors(rows', s) <=> a \in Ancestors(rows, s)
  <2>1. a \in Ancestors(rows, s) <=>
           /\ a \in Present(rows)
           /\ \/ rows[s].parent = a
              \/ \E m \in Present(rows) : rows[m].parent = a /\ rows[s].parent = m
    BY DEF Ancestors, ImpactSet, Children
  <2>2. a \in Ancestors(rows', s) <=>
           /\ a \in Present(rows')
           /\ \/ rows'[s].parent = a
              \/ \E m \in Present(rows') : rows'[m].parent = a /\ rows'[s].parent = m
    BY <1>1 DEF Ancestors, ImpactSet, Children
  <2>3. \A d \in Present(rows) : rows[d].parent \in Present(rows') => rows[d].parent \in Present(rows)
    BY <1>2 DEF ParentsThere
  <2>4. QED BY <1>1, <2>1, <2>2, <2>3
<1>4. Ancestors(rows', s) = Ancestors(rows, s)
  BY <1>3 DEF Ancestors
<1>5. \A a \in {s} \cup Ancestors(rows, s) : rows'[a].id = rows[a].id
  BY <1>1 DEF Ancestors
<1>6. QED BY <1>4, <1>5 DEF Path

\* A block about none of the steps written shows the rows before and after.
LEMMA SpareBlockFresh ==
    ASSUME ParentsThere(rows),
           \A d \in Present(rows) : d \in Present(rows') /\ Placed(rows', rows, d),
           \A e \in MrsEntities : rows'[e] = rows[e],
           NEW written, \A d \in Present(rows) \ written : rows'[d].content = rows[d].content,
           NEW b, IsBlock(b), FreshAt(b, rows),
           \A s \in written \cap Present(rows) : b.subject # Path(rows', s)
    PROVE  FreshAt(b, rows')
<1>1. b.material = [e \in DOMAIN b.material |-> IF e \in b.held THEN Absent ELSE rows'[e]]
  BY DEF FreshAt, IsBlock
<1>2. b.subject = PlanNode \/
         \E s \in Present(rows') : Path(rows', s) = b.subject /\ rows'[s].content = b.fields
  <2>1. SUFFICES ASSUME NEW s \in Present(rows), Path(rows, s) = b.subject,
                        rows[s].content = b.fields
                 PROVE  \E x \in Present(rows') : /\ Path(rows', x) = b.subject
                                                  /\ rows'[x].content = b.fields
    BY DEF FreshAt
  <2>2. Path(rows', s) = b.subject /\ s \in Present(rows')
    BY <2>1, PathStays
  <2>3. rows'[s].content = rows[s].content
    BY <2>1, <2>2
  <2>4. QED BY <2>1, <2>2, <2>3
<1>3. QED BY <1>1, <1>2 DEF FreshAt

\* The revision that a command writes, seen by the blocks.
LEMMA WrittenRevision ==
    ASSUME Inv, NEW mode \in Modes, Writes(mode)
    PROVE  \E changes :
              /\ DOMAIN changes \subseteq Entities
              /\ revs'[Len(revs')].touched = DOMAIN changes
              /\ \A e \in Entities \ DOMAIN changes : AgreesAt(rows', rows, e)
              /\ TagKnown(mode)
              /\ ~bypassed' => ~bypassed /\ TagOf(mode).rev = WorkingRevision
<1>1. PICK changes : /\ IsChange(changes)
                     /\ Record(mode, changes)
                     /\ \A e \in Entities \ DOMAIN changes : AgreesAt(rows', rows, e)
                     /\ mode = "cascade" => IsOpen
                     /\ mode = "direct" /\ IsOpen => bypassed'
                     /\ bypassed => bypassed'
  BY DEF Writes
<1>2. /\ revs \in Seq(RevisionRow)
      /\ WorkingRevision \in 0..Len(revs) /\ head \in 0..Len(revs)
      /\ ChainsSound(revs)
  BY WorkingRevisionExists DEF Inv, StoreInv, TypeOK, Revisions, NoRevision
<1>3. PICK parent \in 0..Len(revs) : revs' = RecordRevision(revs, parent, changes)
  <2>1. CASE mode = "cascade"
    <3>1. WorkingRevision = cascades[OpenCascade].ref
      BY <1>1, <2>1 DEF WorkingRevision
    <3>2. revs' = RecordRevision(revs, WorkingRevision, changes)
      BY <1>1, <2>1, <3>1 DEF Record
    <3>3. QED BY <1>2, <3>2
  <2>2. CASE mode = "direct"
    <3>1. revs' = RecordRevision(revs, head, changes)
      BY <1>1, <2>2 DEF Record
    <3>2. QED BY <1>2, <3>1
  <2>3. QED BY <2>1, <2>2 DEF Modes
<1>4. revs'[Len(revs')] = NewRevision(revs, parent, changes)
  BY <1>1, <1>2, <1>3, RecordRevisionFact
<1>5. revs'[Len(revs')].touched = DOMAIN changes
  BY <1>4 DEF NewRevision
<1>6. ~bypassed' => ~bypassed /\ TagOf(mode).rev = WorkingRevision
  BY <1>1 DEF TagOf, WorkingTag, WorkingRevision, Modes
<1>7. QED BY <1>1, <1>5, <1>6 DEF IsChange, TagKnown

LEMMA ScopedKeepsContext ==
    ASSUME Inv, TreeInv, ContextInv, NEW mode \in Modes, ScopedCommand(mode), CarryForward(mode)
    PROVE  ContextInv'
<1> DEFINE written == revs'[Len(revs')].touched \cap Steps
           paths   == {Path(rows', s) : s \in written}
           hit     == {b \in blocks : b.node \in paths \/ b.subject \in paths}
           from    == TagOf(mode)
           to      == [TagOf(mode) EXCEPT !.rev = Len(revs')]
<1>1. /\ Next /\ Writes(mode)
      /\ \A d \in Present(rows) : d \in Present(rows') /\ Placed(rows', rows, d)
      /\ \A e \in MrsEntities : rows'[e] = rows[e]
  BY ScopedEffect
<1>2. PICK changes :
         /\ DOMAIN changes \subseteq Entities
         /\ revs'[Len(revs')].touched = DOMAIN changes
         /\ \A e \in Entities \ DOMAIN changes : AgreesAt(rows', rows, e)
         /\ TagKnown(mode)
         /\ ~bypassed' => ~bypassed /\ TagOf(mode).rev = WorkingRevision
  BY <1>1, WrittenRevision
<1>3. /\ Len(revs') = Len(revs) + 1 /\ Len(revs) \in Nat
      /\ \A r \in 0..Len(revs) : StateAt(revs', r) = StateAt(revs, r)
      /\ ~bypassed' => WorkingRevision' = Len(revs) + 1
  BY <1>1, WritesFrame DEF Inv, TypeOK
<1>4. Retag(from, to, hit)
  BY DEF CarryForward
<1>5. /\ from = [rev |-> from.rev, cascade |-> from.cascade]
      /\ to = [rev |-> Len(revs'), cascade |-> from.cascade]
      /\ to.rev = Len(revs') /\ to.cascade = from.cascade
  BY <1>2, TagFact
<1>6. Inv'
  BY <1>1, NextInv
<1>7. \A d \in Present(rows) \ written : rows'[d].content = rows[d].content
  BY <1>2, StepsAreEntities DEF AgreesAt, Present
<1>8. ASSUME NEW d \in blocks'
      PROVE  IsBlock(d)' /\ (~bypassed' /\ d \notin strays' => FreshAt(d, StateAt(revs', d.tag.rev)))
  <2> HIDE DEF from, to, hit
  <2>1. PICK b \in blocks : d = Moved(b, from, to, hit) /\ (d \notin strays' => b \notin strays)
    BY <1>4, RetagFact
  <2>2. IsBlock(b)
    BY DEF ContextInv
  <2>3. CASE b.tag = from /\ b \notin hit
    <3>1. /\ d = [tag |-> to, kind |-> b.kind, node |-> b.node, subject |-> b.subject,
                  fields |-> b.fields, held |-> b.held, material |-> b.material]
          /\ d.tag = to /\ d.kind = b.kind /\ d.node = b.node /\ d.subject = b.subject
          /\ d.fields = b.fields /\ d.held = b.held /\ d.material = b.material
      BY <2>1, <2>2, <2>3, MovedFact
    <3>2. IsBlock(d)'
      BY <1>3, <1>5, <2>2, <3>1 DEF IsBlock
    <3>3. ASSUME ~bypassed', d \notin strays' PROVE FreshAt(d, StateAt(revs', d.tag.rev))
      <4>1. ~bypassed /\ from.rev = WorkingRevision /\ b \notin strays
        BY <1>2, <2>1, <3>3 DEF from
      <4>2. FreshAt(b, StateAt(revs, WorkingRevision)) /\ DOMAIN b.material \subseteq MrsEntities
        BY <2>2, <2>3, <4>1 DEF ContextInv, IsBlock
      <4>3. FreshAt(b, rows)
        BY <4>1, <4>2, WorkingFresh
      <4>4. \A s \in written \cap Present(rows) : b.subject # Path(rows', s)
        BY <2>3 DEF hit
      <4>5. ParentsThere(rows)
        BY <4>1 DEF TreeInv
      <4>6. FreshAt(b, rows')
        <5> HIDE DEF written
        <5>1. QED BY <1>1, <1>7, <2>2, <4>3, <4>4, <4>5, SpareBlockFresh
      <4>7. \A e \in Entities : AgreesAt(rows', StateAt(revs', Len(revs')), e)
        <5>1. RowsAgree'
          BY <1>6 DEF Inv
        <5>2. QED BY <1>3, <3>3, <5>1 DEF RowsAgree
      <4>8. FreshAt(b, StateAt(revs', Len(revs')))
        BY <4>2, <4>6, <4>7, AgreeingFresh
      <4>9. QED BY <1>5, <3>1, <4>8, SameShown
    <3>4. QED BY <3>2, <3>3
  <2>4. CASE ~(b.tag = from /\ b \notin hit)
    <3>1. d = b
      BY <2>1, <2>4 DEF Moved
    <3>2. IsBlock(d)'
      BY <1>3, <2>2, <3>1 DEF IsBlock
    <3>3. ASSUME ~bypassed', d \notin strays' PROVE FreshAt(d, StateAt(revs', d.tag.rev))
      <4>1. FreshAt(b, StateAt(revs, b.tag.rev)) /\ b.tag.rev \in 0..Len(revs)
        BY <1>2, <2>1, <2>2, <3>1, <3>3 DEF ContextInv, IsBlock
      <4>2. QED BY <1>3, <3>1, <4>1
    <3>4. QED BY <3>2, <3>3
  <2>5. QED BY <2>3, <2>4
<1>9. QED BY <1>8 DEF ContextInv, FreshAt, StateAt

----------------------------------------------------------------------------
(* The commands that leave the blocks alone, and the commit                *)

\* Revisions are only added to, and a plan once bypassed remains so.
LEMMA GrowingKeepsContext ==
    ASSUME ContextInv, UNCHANGED contextVars, Len(revs) \in Nat, Len(revs') \in Nat,
           Len(revs') >= Len(revs),
           \A r \in 0..Len(revs) : StateAt(revs', r) = StateAt(revs, r),
           bypassed => bypassed'
    PROVE  ContextInv'
<1>1. blocks' = blocks /\ strays' = strays
  BY DEF contextVars
<1>2. ASSUME NEW b \in blocks'
      PROVE  IsBlock(b)' /\ (~bypassed' /\ b \notin strays' => FreshAt(b, StateAt(revs', b.tag.rev)))
  <2>1. IsBlock(b) /\ (~bypassed /\ b \notin strays => FreshAt(b, StateAt(revs, b.tag.rev)))
    BY <1>1 DEF ContextInv
  <2>2. b.tag.rev \in 0..Len(revs)
    BY <2>1 DEF IsBlock
  <2>3. IsBlock(b)'
    BY <2>1, <2>2 DEF IsBlock
  <2>4. QED BY <1>1, <2>1, <2>2, <2>3
<1>3. QED BY <1>2 DEF ContextInv, FreshAt, StateAt

LEMMA UnscopedIsNext ==
    ASSUME UnscopedCommand PROVE Next
BY DEF UnscopedCommand, Next, StepCommand, CascadeCommand

LEMMA NextGrows ==
    ASSUME Inv, Next
    PROVE  /\ Len(revs) \in Nat /\ Len(revs') \in Nat /\ Len(revs') >= Len(revs)
           /\ \A r \in 0..Len(revs) : StateAt(revs', r) = StateAt(revs, r)
           /\ bypassed => bypassed'
<1>1. Len(revs) \in Nat
  BY DEF Inv, TypeOK
<1>2. ASSUME NEW mode \in Modes, Writes(mode)
      PROVE  /\ Len(revs') = Len(revs) + 1
             /\ \A r \in 0..Len(revs) : StateAt(revs', r) = StateAt(revs, r)
             /\ bypassed => bypassed'
  BY <1>2, WritesFrame DEF Writes
<1>3. ASSUME revs' = revs /\ bypassed' = bypassed
      PROVE  /\ Len(revs') = Len(revs)
             /\ \A r \in 0..Len(revs) : StateAt(revs', r) = StateAt(revs, r)
             /\ bypassed => bypassed'
  BY <1>3
<1>4. (\E mode \in Modes : Writes(mode)) \/ (revs' = revs /\ bypassed' = bypassed)
  BY NextIsWriteOrCascade
     DEF CascadeBegin, PlanUnfreeze, OpenNewCascade, CascadeCommit, CascadeAbort, PlanCompletedSet
<1>5. QED BY <1>1, <1>2, <1>3, <1>4

\* What a commit does to a block of the tip: it becomes one of the head.
LEMMA PromotedBlock ==
    ASSUME NEW b, IsBlock(b), NEW from, NEW to, from = [rev |-> from.rev, cascade |-> from.cascade],
           to = [from EXCEPT !.cascade = Absent], NEW d, d = Moved(b, from, to, {})
    PROVE  /\ IsBlock(d)
           /\ d.tag.rev = b.tag.rev
           /\ d.subject = b.subject /\ d.fields = b.fields /\ d.held = b.held
           /\ d.material = b.material /\ d.kind = b.kind /\ d.node = b.node
           /\ b.tag = from => d.tag = to
<1>1. CASE b.tag = from
  <2>1. /\ d = [tag |-> to, kind |-> b.kind, node |-> b.node, subject |-> b.subject,
                fields |-> b.fields, held |-> b.held, material |-> b.material]
        /\ d.tag = to /\ d.kind = b.kind /\ d.node = b.node /\ d.subject = b.subject
        /\ d.fields = b.fields /\ d.held = b.held /\ d.material = b.material
    BY <1>1, MovedFact
  <2>2. to = [rev |-> from.rev, cascade |-> Absent]
    OBVIOUS
  <2>3. to.rev = b.tag.rev /\ to = [rev |-> to.rev, cascade |-> to.cascade]
    BY <1>1, <2>2
  <2>4. IsBlock(d)
    BY <2>1, <2>3 DEF IsBlock
  <2>5. QED BY <2>1, <2>3, <2>4
<1>2. CASE b.tag # from
  BY <1>2 DEF Moved
<1>3. QED BY <1>1, <1>2

LEMMA CommitKeepsContext ==
    ASSUME Inv, ContextInv, NEW c \in CascadeIds, CommitPromotes(c)
    PROVE  ContextInv'
<1> DEFINE tip    == [rev |-> cascades[c].ref, cascade |-> c]
           public == [tip EXCEPT !.cascade = Absent]
<1>1. revs' = revs /\ bypassed' = bypassed
  BY DEF CommitPromotes, CascadeCommit
<1>2. Retag(tip, public, {})
  BY DEF CommitPromotes
<1>3. tip = [rev |-> tip.rev, cascade |-> tip.cascade] /\ public = [tip EXCEPT !.cascade = Absent]
  OBVIOUS
<1> HIDE DEF tip, public
<1>4. ASSUME NEW d \in blocks'
      PROVE  IsBlock(d)' /\ (~bypassed' /\ d \notin strays' => FreshAt(d, StateAt(revs', d.tag.rev)))
  <2>1. PICK b \in blocks : d = Moved(b, tip, public, {}) /\ (d \notin strays' => b \notin strays)
    BY <1>2, RetagFact
  <2>2. IsBlock(b) /\ (~bypassed /\ b \notin strays => FreshAt(b, StateAt(revs, b.tag.rev)))
    BY DEF ContextInv
  <2>3. /\ IsBlock(d)
        /\ d.tag.rev = b.tag.rev
        /\ d.subject = b.subject /\ d.fields = b.fields /\ d.held = b.held
        /\ d.material = b.material
    BY <1>3, <2>1, <2>2, PromotedBlock
  <2>4. IsBlock(d)'
    BY <1>1, <2>3 DEF IsBlock
  <2>5. FreshAt(d, StateAt(revs, d.tag.rev)) <=> FreshAt(b, StateAt(revs, b.tag.rev))
    BY <2>3, SameShown
  <2>6. QED BY <1>1, <2>1, <2>2, <2>4, <2>5
<1>5. QED BY <1>4 DEF ContextInv, FreshAt, StateAt

----------------------------------------------------------------------------
(* The invariant holds                                                     *)

ContextInvs == Inv /\ TreeInv /\ ContextInv

LEMMA ContextCommandStores == ASSUME ContextCommand PROVE UNCHANGED vars
<1>1. ASSUME NEW new, Store(new) PROVE UNCHANGED vars
  BY <1>1 DEF Store
<1>2. \E new : Store(new)
  <2>1. ASSUME NEW mode \in Modes, NEW s \in Subjects, NEW scope \in Scopes,
               ContextCommon(s, scope, mode)
        PROVE  \E new : Store(new)
    BY <2>1 DEF ContextCommon
  <2>2. ASSUME NEW mode \in Modes, NEW s \in Subjects, NEW scope \in Scopes,
               ContextCompile(s, scope, mode)
        PROVE  \E new : Store(new)
    BY <2>2 DEF ContextCompile
  <2>3. ASSUME NEW mode \in Modes, NEW s \in Subjects, NEW scope \in Scopes,
               NEW part \in Scopes, ContextBundle(s, scope, part, mode)
        PROVE  \E new : Store(new)
    BY <2>3 DEF ContextBundle
  <2>4. ASSUME NEW b \in blocks, NEW scope \in Scopes, ContextSpecific(b, scope)
        PROVE  \E new : Store(new)
    BY <2>4 DEF ContextSpecific
  <2>5. ASSUME NEW b \in blocks, BlockRebuild(b) PROVE \E new : Store(new)
    BY <2>5 DEF BlockRebuild
  <2>6. QED BY <2>1, <2>2, <2>3, <2>4, <2>5 DEF ContextCommand
<1>3. QED BY <1>1, <1>2

LEMMA ContextStep ==
    ASSUME NextContext \/ UNCHANGED <<vars, contextVars>> PROVE [Next]_vars
<1>1. ASSUME ContextCommand PROVE UNCHANGED vars
  BY <1>1, ContextCommandStores
<1>2. ASSUME NEW mode \in Modes, ScopedCommand(mode) PROVE Next
  BY <1>2 DEF ScopedCommand, CreateInContext, Next, StepCommand
<1>3. ASSUME NEW c \in CascadeIds, CommitPromotes(c) PROVE Next
  BY <1>3 DEF CommitPromotes, Next, CascadeCommand
<1>4. QED BY <1>1, <1>2, <1>3, UnscopedIsNext DEF NextContext

LEMMA NextContextInv ==
    ASSUME ContextInvs, NextContext \/ UNCHANGED <<vars, contextVars>> PROVE ContextInvs'
<1>1. Inv' /\ TreeInv'
  BY ContextStep, NextInv, NextTreeInv DEF ContextInvs
<1>2. Inv /\ TreeInv /\ ContextInv
  BY DEF ContextInvs
<1>3. ASSUME ContextCommand PROVE ContextInv'
  BY <1>2, <1>3, ContextCommandKeepsContext
<1>4. ASSUME NEW mode \in Modes, ScopedCommand(mode), CarryForward(mode) PROVE ContextInv'
  BY <1>2, <1>4, ScopedKeepsContext
<1>5. ASSUME UnscopedCommand, UNCHANGED contextVars PROVE ContextInv'
  BY <1>2, <1>5, UnscopedIsNext, NextGrows, GrowingKeepsContext
<1>6. ASSUME NEW c \in CascadeIds, CommitPromotes(c) PROVE ContextInv'
  BY <1>2, <1>6, CommitKeepsContext
<1>7. ASSUME UNCHANGED <<vars, contextVars>> PROVE ContextInv'
  <2>1. /\ UNCHANGED contextVars /\ revs' = revs /\ bypassed' = bypassed
        /\ Len(revs) \in Nat
    BY <1>2, <1>7 DEF vars, Inv, TypeOK
  <2>2. QED BY <1>2, <2>1, GrowingKeepsContext
<1>8. ContextInv'
  BY <1>3, <1>4, <1>5, <1>6, <1>7 DEF NextContext
<1>9. QED BY <1>1, <1>8 DEF ContextInvs

LEMMA InitContextInv == ASSUME InitContext PROVE ContextInvs
BY InitInv, InitTreeInv DEF InitContext, ContextInvs, ContextInv

LEMMA ContextInvariant == SpecContext => []ContextInvs
<1>1. InitContext => ContextInvs
  BY InitContextInv
<1>2. ContextInvs /\ [NextContext]_<<vars, contextVars>> => ContextInvs'
  BY NextContextInv
<1>3. QED BY <1>1, <1>2, PTL DEF SpecContext

\* A context block that readers take for current shows the steps and the MRS
\* as they are (context_blocks.py, carry_forward_context_blocks, cascade_abort):
\* in particular, of what a block carried over shows, nothing was written.
THEOREM BlocksStayCurrent == SpecContext => []BlocksCurrent
<1>1. ContextInvs => BlocksCurrent
  BY BlocksAreCurrent DEF ContextInvs
<1>2. QED BY <1>1, ContextInvariant, PTL

----------------------------------------------------------------------------
(* A head opens green                                                      *)

LEMMA CommitsArePromotions ==
    ASSUME Inv, NextContext \/ UNCHANGED <<vars, contextVars>>,
           NEW c \in OpenCascades, cascades'[c].status = "committed"
    PROVE  CommitPromotes(c)
<1>1. c \in CascadeIds /\ cascades[c].status = "open" /\ IsOpen
  BY DEF OpenCascades, IsOpen
<1>2. ASSUME NEW mode \in Modes, Writes(mode) PROVE FALSE
  BY <1>1, <1>2, WritesFrame
<1>3. ~UNCHANGED vars
  BY <1>1 DEF vars
<1>4. ~ContextCommand
  BY <1>3, ContextCommandStores
<1>5. ASSUME NEW mode \in Modes, ScopedCommand(mode) PROVE FALSE
  BY <1>2, <1>5, ScopedEffect
<1>6. ASSUME NEW d \in OpenCascades PROVE d = c
  BY DEF Inv, StoreInv, CascadeAnchored
<1>7. ~UnscopedCommand
  <2>1. SUFFICES ASSUME UnscopedCommand PROVE FALSE
    OBVIOUS
  <2>2. \A d \in CascadeIds : ~CascadeBegin(d) /\ ~PlanUnfreeze(d)
    BY <1>1 DEF CascadeBegin, PlanUnfreeze, OpenNewCascade
  <2>3. \A flag \in BOOLEAN : ~PlanCompletedSet(flag)
    BY <1>1 DEF PlanCompletedSet
  <2>4. ASSUME NEW d \in CascadeIds, CascadeAbort(d) PROVE FALSE
    <3>1. d = c
      BY <1>6, <2>4 DEF CascadeAbort
    <3>2. cascades'[c].status = "aborted"
      BY <2>4, <3>1, CascadeEnds DEF CascadeAbort, Inv
    <3>3. QED BY <3>2
  <2>5. ASSUME NEW mode \in Modes, NEW s \in Steps, NEW p \in Steps, StepMove(s, p, mode)
        PROVE  FALSE
    BY <1>2, <2>5, StepMoveWrites
  <2>6. ASSUME NEW mode \in Modes, NEW s \in Steps, NEW recursive \in BOOLEAN,
               StepDelete(s, recursive, mode)
        PROVE  FALSE
    BY <1>2, <2>6, StepDeleteWrites
  <2>7. ASSUME NEW e \in MrsEntities, NEW new \in Contents \cup {Absent}, MrsWrite(e, new)
        PROVE  FALSE
    BY <1>2, <2>7, MrsWriteWrites DEF Modes
  <2>8. QED BY <2>1, <2>2, <2>3, <2>4, <2>5, <2>6, <2>7 DEF UnscopedCommand
<1>8. PICK d \in CascadeIds : CommitPromotes(d)
  BY <1>3, <1>4, <1>5, <1>7 DEF NextContext, vars
<1>9. d = c
  BY <1>6, <1>8 DEF CommitPromotes, CascadeCommit
<1>10. QED BY <1>8, <1>9

LEMMA CommitCovers ==
    ASSUME Inv, ContextInv, NEW c \in CascadeIds, CommitPromotes(c)
    PROVE  Covered'
<1> DEFINE tip    == [rev |-> cascades[c].ref, cascade |-> c]
           public == [tip EXCEPT !.cascade = Absent]
<1>1. /\ CascadeCommit(c) /\ Covered /\ Retag(tip, public, {})
      /\ c \in OpenCascades /\ rows' = rows /\ head' = cascades[c].ref
  BY DEF CommitPromotes, CascadeCommit
<1>2. IsOpen /\ OpenCascade = c
  BY <1>1, TheOpenCascade DEF Inv, StoreInv
<1>3. WorkingTag = tip
  BY <1>2 DEF WorkingTag, WorkingRevision
<1>4. public = [rev |-> cascades[c].ref, cascade |-> Absent]
  OBVIOUS
<1>5. WorkingTag' = public
  BY <1>1, <1>4, CommitKeepsInv DEF WorkingTag, WorkingRevision
<1>6. tip = [rev |-> tip.rev, cascade |-> tip.cascade] /\ public = [tip EXCEPT !.cascade = Absent]
  OBVIOUS
<1> HIDE DEF tip, public
<1>7. ASSUME NEW s \in Present(rows), Children(rows, s) # {}
      PROVE  \E d \in blocks' : d.tag = public /\ d.kind = "common" /\ d.node = Path(rows, s)
  <2>1. PICK b \in blocks : b.tag = tip /\ b.kind = "common" /\ b.node = Path(rows, s)
    BY <1>1, <1>3, <1>7 DEF Covered, HasCommon, Current
  <2>2. Moved(b, tip, public, {}) \in blocks'
    BY <1>1 DEF Retag, Moved
  <2>3. IsBlock(b)
    BY DEF ContextInv
  <2>4. /\ Moved(b, tip, public, {}).tag = public
        /\ Moved(b, tip, public, {}).kind = b.kind
        /\ Moved(b, tip, public, {}).node = b.node
    BY <1>6, <2>1, <2>3, PromotedBlock
  <2>5. QED BY <2>1, <2>2, <2>4
<1>8. \A s \in Present(rows') : Children(rows', s) # {} =>
         \E d \in blocks' : d.tag = WorkingTag' /\ d.kind = "common" /\ d.node = Path(rows', s)
  BY <1>1, <1>5, <1>7
<1>9. QED BY <1>8 DEF Covered, HasCommon, Current, Present, Children, Path, Ancestors, ImpactSet

\* After a commit every parent still has its common context, under the head
\* (commit_cascade with the check context_coverage.common_current).
THEOREM HeadsOpenGreen == SpecContext => HeadOpensGreen
<1>1. ContextInvs /\ [NextContext]_<<vars, contextVars>> =>
         [\A c \in OpenCascades :
             cascades'[c].status = "committed" => Covered']_<<vars, contextVars>>
  <2>1. SUFFICES ASSUME ContextInvs, NextContext \/ UNCHANGED <<vars, contextVars>>,
                        NEW c \in OpenCascades, cascades'[c].status = "committed"
                 PROVE  Covered'
    OBVIOUS
  <2>2. c \in CascadeIds
    BY DEF OpenCascades
  <2>3. CommitPromotes(c)
    BY <2>1, CommitsArePromotions DEF ContextInvs
  <2>4. QED BY <2>1, <2>2, <2>3, CommitCovers DEF ContextInvs
<1>2. QED BY <1>1, ContextInvariant, PTL DEF SpecContext, HeadOpensGreen

\* The commands on context blocks change nothing of the plan, and the others do
\* to it what they do without blocks: all that is proved of the plan holds with
\* the blocks beside it (context_blocks.py, carry_forward_context_blocks).
THEOREM BlocksKeepPlans == SpecContext => Spec
<1>1. InitContext => Init
  BY DEF InitContext
<1>2. [NextContext]_<<vars, contextVars>> => [Next]_vars
  BY ContextStep
<1>3. QED BY <1>1, <1>2, PTL DEF SpecContext, Spec
=============================================================================
