------------------------ MODULE BugLifecycle_proofs ------------------------
(***************************************************************************)
(* Proofs about BugLifecycle, for every set of records and inputs.         *)
(*                                                                         *)
(* A command changes the table row by row, in a few ways per kind of row   *)
(* (StepTo), and may then recompute the status of one bug.  Every command  *)
(* is brought into this form once; each property is then proved of the     *)
(* form.                                                                   *)
(***************************************************************************)
EXTENDS BugLifecycle, TLAPS

----------------------------------------------------------------------------
(* The form of a step                                                      *)

\* The conjuncts of TypeOK about a table.
TableOK(r) ==
    /\ DOMAIN r = Ids
    /\ \A b \in Bugs    : r[b] \in BugRows \cup Empty
    /\ \A f \in Fixes   : r[f] \in FixRows \cup Empty
    /\ \A i \in Impacts : r[i] \in ImpactRows \cup Empty
    /\ \A p \in Props   : r[p] \in PropRows \cup Empty
    /\ \A t \in Todos   : r[t] \in TodoRows \cup Empty

\* A row is marked or removed: no live row refers to it.
Leaves(r, x) ==
    /\ Found(rows, x)
    /\ Referrers(rows, x) = {}
    /\ r[x] = Gone \/ r[x] = [rows[x] EXCEPT !.deleted = TRUE]
    /\ PlanAllowsDelete(x) \/ Marked(rows, x)

New(r, x, set) == rows[x] = NoRow /\ r[x] \in set /\ ~r[x].deleted

Kept(r, x, set) == Found(rows, x) /\ r[x] \in set /\ r[x].deleted = rows[x].deleted

BugStep(r, b) ==
    \/ r[b] = rows[b]
    \/ New(r, b, BugRows) /\ (r[b].dup # Null => Found(r, r[b].dup))
    \/ /\ Kept(r, b, BugRows)
       /\ PlanAllowsBug(b)
       /\ r[b].dup # rows[b].dup => Found(r, r[b].dup)
       /\ rows[b].status \in TerminalStatuses => r[b].status = "reopened"
    \/ Leaves(r, b)

FixStep(r, f) ==
    \/ r[f] = rows[f]
    \/ New(r, f, FixRows) /\ Found(r, r[f].bug) /\ r[f].passed = "unset"
    \/ /\ Kept(r, f, FixRows)
       /\ r[f].bug = rows[f].bug
       /\ PlanAllowsFix(f)
       /\ \/ r[f].passed = rows[f].passed /\ rows[f].status # "verified"
          \/ r[f].passed = "yes" => r[f].status = "verified"
    \/ Leaves(r, f)

ImpactStep(r, i) ==
    \/ r[i] = rows[i]
    \/ /\ New(r, i, ImpactRows)
       /\ Found(r, r[i].bug)
       /\ r[i].status = "skipped" => r[i].decided
    \/ /\ Kept(r, i, ImpactRows)
       /\ r[i].bug = rows[i].bug
       /\ r[i].status = "skipped" => r[i].decided
    \/ Leaves(r, i)

PropStep(r, p) ==
    \/ r[p] = rows[p]
    \/ New(r, p, PropRows) /\ Found(r, r[p].fix) /\ Found(r, r[p].impact)
    \/ /\ Kept(r, p, PropRows)
       /\ r[p].fix = rows[p].fix
       /\ r[p].impact = rows[p].impact
    \/ Leaves(r, p)

TodoStep(r, t) ==
    \/ r[t] = rows[t]
    \/ New(r, t, TodoRows)
    \/ Leaves(r, t)

StepTo(r) ==
    /\ DOMAIN r = Ids
    /\ \A b \in Bugs    : BugStep(r, b)
    /\ \A f \in Fixes   : FixStep(r, f)
    /\ \A i \in Impacts : ImpactStep(r, i)
    /\ \A p \in Props   : PropStep(r, p)
    /\ \A t \in Todos   : TodoStep(r, t)

\* A verification, or a new status of a propagation, that is about bug b.
Outcome(r, b) ==
    \/ \E f \in Fixes : /\ Found(rows, f) /\ Found(r, f)
                        /\ rows[f].bug = b
                        /\ r[f].passed # rows[f].passed
    \/ \E p \in Props : /\ Found(rows, p) /\ Found(r, p)
                        /\ Found(r, rows[p].fix)
                        /\ r[rows[p].fix].bug = b
                        /\ r[p].status # rows[p].status

Quiet(r) == rows' = r /\ \A b \in Bugs : ~Outcome(r, b)

Brought(r) ==
    /\ \A b \in Bugs : r[b] = rows[b]
    /\ \E c \in Bugs : /\ rows' = Recomputed(r, c)
                       /\ \A b \in Bugs : Outcome(r, b) => b = c

Step == \E r : StepTo(r) /\ (Quiet(r) \/ Brought(r))

----------------------------------------------------------------------------
(* Tables                                                                  *)

LEMMA EmptyFact ==
    /\ NoRow \notin BugRows \cup FixRows \cup ImpactRows \cup PropRows \cup TodoRows
    /\ Gone \notin BugRows \cup FixRows \cup ImpactRows \cup PropRows \cup TodoRows
BY EmptyIsNoRow DEF Empty

LEMMA KindFact ==
    /\ Bugs \subseteq Ids /\ Fixes \subseteq Ids /\ Impacts \subseteq Ids
    /\ Props \subseteq Ids /\ Todos \subseteq Ids
    /\ \A x \in Ids : x \in Bugs \/ x \in Fixes \/ x \in Impacts \/ x \in Props \/ x \in Todos
    /\ \A b \in Bugs : b \notin Fixes /\ b \notin Impacts /\ b \notin Props /\ b \notin Todos
    /\ \A f \in Fixes : f \notin Impacts /\ f \notin Props /\ f \notin Todos
    /\ \A i \in Impacts : i \notin Props /\ i \notin Todos
    /\ \A p \in Props : p \notin Todos
    /\ Null \notin Ids /\ NoRow \notin Ids /\ Gone \notin Ids
BY KindsDiffer DEF Ids

\* What a row that is found looks like.
LEMMA FoundFact ==
    ASSUME NEW r, TableOK(r), NEW x, Found(r, x)
    PROVE  /\ x \in Bugs => /\ r[x] \in BugRows /\ r[x].status \in BugStatuses
                            /\ r[x].dup \in Bugs \cup {Null} /\ r[x].deleted \in BOOLEAN
           /\ x \in Fixes => /\ r[x] \in FixRows /\ r[x].bug \in Bugs
                             /\ r[x].deleted \in BOOLEAN
           /\ x \in Impacts => /\ r[x] \in ImpactRows /\ r[x].bug \in Bugs
                               /\ r[x].deleted \in BOOLEAN
           /\ x \in Props => /\ r[x] \in PropRows /\ r[x].fix \in Fixes
                             /\ r[x].impact \in Impacts /\ r[x].todo \in Todos \cup {Null}
                             /\ r[x].deleted \in BOOLEAN
           /\ x \in Todos => r[x] \in TodoRows /\ r[x].deleted \in BOOLEAN
BY DEF TableOK, Found, Empty, BugRows, FixRows, ImpactRows, PropRows, TodoRows

LEMMA RefsFact ==
    ASSUME NEW r, NEW x, Found(r, x)
    PROVE  /\ x \in Bugs => References(r, x) = {r[x].dup} \ {Null}
           /\ x \in Fixes => References(r, x) = {r[x].bug}
           /\ x \in Impacts => References(r, x) = {r[x].bug}
           /\ x \in Props => References(r, x) = {r[x].fix, r[x].impact, r[x].todo} \ {Null}
           /\ x \in Todos => References(r, x) = {}
BY KindFact DEF References

\* A row says alone whether it is found, whether it is live and what it refers to.
LEMMA RowFact ==
    ASSUME NEW q, NEW r, NEW x \in Ids, q[x] = r[x]
    PROVE  /\ Found(q, x) = Found(r, x)
           /\ Live(q, x) = Live(r, x)
           /\ References(q, x) = References(r, x)
<1>1. Found(q, x) = Found(r, x) /\ Live(q, x) = Live(r, x)
  BY DEF Found, Live
<1>2. CASE Found(r, x)
  <2>1. Found(q, x)
    BY <1>1, <1>2
  <2>2. x \in Bugs => References(q, x) = References(r, x)
    BY <1>2, <2>1, RefsFact
  <2>3. x \in Fixes \/ x \in Impacts => References(q, x) = References(r, x)
    BY <1>2, <2>1, RefsFact
  <2>4. x \in Props \/ x \in Todos => References(q, x) = References(r, x)
    BY <1>2, <2>1, RefsFact
  <2>5. QED BY <1>1, <2>2, <2>3, <2>4, KindFact
<1>3. CASE ~Found(r, x)
  BY <1>1, <1>3 DEF References
<1>4. QED BY <1>1, <1>2, <1>3

\* The table after a step is typed.
LEMMA StepTyped ==
    ASSUME TableOK(rows), NEW r, StepTo(r)
    PROVE  TableOK(r)
<1>1. ASSUME NEW b \in Bugs PROVE r[b] \in BugRows \cup Empty
  <2>1. BugStep(r, b)  BY DEF StepTo
  <2>2. CASE Leaves(r, b)
    <3>1. rows[b] \in BugRows
      BY <2>2, FoundFact DEF Leaves
    <3>2. [rows[b] EXCEPT !.deleted = TRUE] \in BugRows
      BY <3>1 DEF BugRows
    <3>3. QED BY <2>2, <3>2 DEF Leaves, Empty
  <2>3. QED BY <2>1, <2>2 DEF BugStep, New, Kept, TableOK
<1>2. ASSUME NEW f \in Fixes PROVE r[f] \in FixRows \cup Empty
  <2>1. FixStep(r, f)  BY DEF StepTo
  <2>2. CASE Leaves(r, f)
    <3>1. rows[f] \in FixRows
      BY <2>2, FoundFact DEF Leaves
    <3>2. [rows[f] EXCEPT !.deleted = TRUE] \in FixRows
      BY <3>1 DEF FixRows
    <3>3. QED BY <2>2, <3>2 DEF Leaves, Empty
  <2>3. QED BY <2>1, <2>2 DEF FixStep, New, Kept, TableOK
<1>3. ASSUME NEW i \in Impacts PROVE r[i] \in ImpactRows \cup Empty
  <2>1. ImpactStep(r, i)  BY DEF StepTo
  <2>2. CASE Leaves(r, i)
    <3>1. rows[i] \in ImpactRows
      BY <2>2, FoundFact DEF Leaves
    <3>2. [rows[i] EXCEPT !.deleted = TRUE] \in ImpactRows
      BY <3>1 DEF ImpactRows
    <3>3. QED BY <2>2, <3>2 DEF Leaves, Empty
  <2>3. QED BY <2>1, <2>2 DEF ImpactStep, New, Kept, TableOK
<1>4. ASSUME NEW p \in Props PROVE r[p] \in PropRows \cup Empty
  <2>1. PropStep(r, p)  BY DEF StepTo
  <2>2. CASE Leaves(r, p)
    <3>1. rows[p] \in PropRows
      BY <2>2, FoundFact DEF Leaves
    <3>2. [rows[p] EXCEPT !.deleted = TRUE] \in PropRows
      BY <3>1 DEF PropRows
    <3>3. QED BY <2>2, <3>2 DEF Leaves, Empty
  <2>3. QED BY <2>1, <2>2 DEF PropStep, New, Kept, TableOK
<1>5. ASSUME NEW t \in Todos PROVE r[t] \in TodoRows \cup Empty
  <2>1. TodoStep(r, t)  BY DEF StepTo
  <2>2. CASE Leaves(r, t)
    <3>1. rows[t] \in TodoRows
      BY <2>2, FoundFact DEF Leaves
    <3>2. [rows[t] EXCEPT !.deleted = TRUE] \in TodoRows
      BY <3>1 DEF TodoRows
    <3>3. QED BY <2>2, <3>2 DEF Leaves, Empty
  <2>3. QED BY <2>1, <2>2 DEF TodoStep, New, TableOK
<1>6. QED BY <1>1, <1>2, <1>3, <1>4, <1>5 DEF TableOK, StepTo

\* recompute_bug_status changes the status of one bug that is not terminal, to
\* the derived one, and nothing else.
LEMMA RecomputedForm ==
    ASSUME NEW r, TableOK(r), NEW c \in Bugs
    PROVE  LET q == Recomputed(r, c)
           IN  \/ q = r /\ (Found(r, c) => \/ r[c].status \in TerminalStatuses
                                           \/ Derived(r, c) = NoStatus)
               \/ /\ Found(r, c) /\ r[c].status \notin TerminalStatuses
                  /\ Derived(r, c) # NoStatus
                  /\ DOMAIN q = Ids
                  /\ \A x \in Ids : x # c => q[x] = r[x]
                  /\ q[c] = [r[c] EXCEPT !.status = Derived(r, c)]
BY KindFact DEF Recomputed, TableOK

LEMMA DerivedTyped ==
    ASSUME NEW fixes, NEW impacts, NEW props,
           DeriveBugStatus(fixes, impacts, props) # NoStatus
    PROVE  DeriveBugStatus(fixes, impacts, props) \in BugStatuses \ TerminalStatuses
BY DEF DeriveBugStatus, BugStatuses, TerminalStatuses, NoStatus

LEMMA RecomputedTyped ==
    ASSUME NEW r, TableOK(r), NEW c \in Bugs
    PROVE  TableOK(Recomputed(r, c))
<1> DEFINE q == Recomputed(r, c)
<1>1. CASE q = r
  BY <1>1
<1>2. CASE /\ Found(r, c) /\ Derived(r, c) # NoStatus
           /\ DOMAIN q = Ids
           /\ \A x \in Ids : x # c => q[x] = r[x]
           /\ q[c] = [r[c] EXCEPT !.status = Derived(r, c)]
  <2>1. r[c] \in BugRows
    BY <1>2, FoundFact
  <2>2. Derived(r, c) \in BugStatuses
    BY <1>2, DerivedTyped DEF Derived
  <2>3. q[c] \in BugRows
    <3> HIDE DEF q
    <3>1. QED BY <1>2, <2>1, <2>2 DEF BugRows
  <2>4. \A b \in Bugs : q[b] \in BugRows \cup Empty
    <3> HIDE DEF q
    <3>1. QED BY <1>2, <2>3, KindFact DEF TableOK
  <2>5. QED
    <3> HIDE DEF q
    <3>1. TableOK(q)
      BY <1>2, <2>4, KindFact DEF TableOK
    <3>2. QED BY <3>1 DEF q
<1>3. QED BY <1>1, <1>2, RecomputedForm

\* It leaves alone what is found, what is live, and what refers to what.
LEMMA RecomputedFrame ==
    ASSUME NEW r, TableOK(r), NEW c \in Bugs
    PROVE  LET q == Recomputed(r, c)
           IN  /\ \A x \in Ids \ Bugs : q[x] = r[x]
               /\ \A x \in Ids : /\ Found(q, x) = Found(r, x)
                                 /\ Live(q, x) = Live(r, x)
                                 /\ References(q, x) = References(r, x)
               /\ \A b \in Bugs : Found(r, b) => q[b].dup = r[b].dup
               /\ \A b \in Bugs : Derived(q, b) = Derived(r, b)
<1> DEFINE q == Recomputed(r, c)
<1>1. CASE q = r
  BY <1>1
<1>2. CASE /\ Found(r, c) /\ Derived(r, c) # NoStatus
           /\ DOMAIN q = Ids
           /\ \A x \in Ids : x # c => q[x] = r[x]
           /\ q[c] = [r[c] EXCEPT !.status = Derived(r, c)]
  <2> HIDE DEF q
  <2>1. r[c] \in BugRows
    BY <1>2, FoundFact
  <2>2. /\ q[c].dup = r[c].dup /\ q[c].deleted = r[c].deleted
        /\ Found(q, c)
    <3>1. Derived(r, c) \in BugStatuses
      BY <1>2, DerivedTyped DEF Derived
    <3>2. q[c] \in BugRows
      BY <1>2, <2>1, <3>1 DEF BugRows
    <3>3. QED BY <1>2, <2>1, <3>2, EmptyFact DEF BugRows, Found, Empty
  <2>3. \A x \in Ids \ Bugs : q[x] = r[x]
    BY <1>2
  <2>4. ASSUME NEW x \in Ids
        PROVE  /\ Found(q, x) = Found(r, x)
               /\ Live(q, x) = Live(r, x)
               /\ References(q, x) = References(r, x)
    <3>1. CASE x = c
      <4>1. /\ Found(q, x) /\ Found(r, x) /\ Live(q, x) = Live(r, x)
        BY <3>1, <1>2, <2>2 DEF Live
      <4>2. QED BY <3>1, <4>1, <2>2, RefsFact
    <3>2. CASE x # c
      BY <3>2, <1>2, RowFact
    <3>3. QED BY <3>1, <3>2
  <2>5. ASSUME NEW b \in Bugs PROVE Derived(q, b) = Derived(r, b)
    <3>1. FixesOf(q, b) = FixesOf(r, b)
      BY <2>3, KindFact DEF FixesOf, Live, Found
    <3>2. ImpactsOf(q, b) = ImpactsOf(r, b)
      BY <2>3, KindFact DEF ImpactsOf, Live, Found
    <3>3. PropsOf(q, b) = PropsOf(r, b)
      BY <2>3, <3>1, KindFact DEF PropsOf, Live, Found
    <3>4. \A set : set \subseteq Ids \ Bugs => RowsOf(q, set) = RowsOf(r, set)
      BY <2>3 DEF RowsOf
    <3>5. /\ FixesOf(r, b) \subseteq Ids \ Bugs
          /\ ImpactsOf(r, b) \subseteq Ids \ Bugs
          /\ PropsOf(r, b) \subseteq Ids \ Bugs
      BY KindFact DEF FixesOf, ImpactsOf, PropsOf
    <3>6. QED BY <3>1, <3>2, <3>3, <3>4, <3>5 DEF Derived
  <2>6. \A b \in Bugs : Found(r, b) => q[b].dup = r[b].dup
    BY <1>2, <2>2, KindFact
  <2>7. QED BY <2>3, <2>4, <2>5, <2>6 DEF q
<1>3. QED BY <1>1, <1>2, RecomputedForm

----------------------------------------------------------------------------
(* The inductive invariant, as a predicate on tables                       *)

RefsIn(r) ==
    \A x \in Ids : Live(r, x) => \A y \in References(r, x) \ Todos : Found(r, y)

PassedIn(r) ==
    \A f \in Fixes : Found(r, f) /\ r[f].passed = "yes" => r[f].status = "verified"

\* Every writer of an impact asks for the reason and the owner's decision.
SkippedIn(r) ==
    \A i \in Impacts : Found(r, i) /\ r[i].status = "skipped" => r[i].decided

InvOn(r) == TableOK(r) /\ RefsIn(r) /\ PassedIn(r) /\ SkippedIn(r)

\* What leaves is marked or gone.
LEMMA LeavesFact ==
    ASSUME TableOK(rows), NEW r, NEW x \in Ids, Leaves(r, x)
    PROVE  /\ ~Live(r, x)
           /\ Found(r, x) => r[x] = [rows[x] EXCEPT !.deleted = TRUE]
<1>1. r[x] = Gone => ~Found(r, x)
  BY DEF Found, Empty
<1>2. [rows[x] EXCEPT !.deleted = TRUE].deleted = TRUE
  <2>1. Found(rows, x)
    BY DEF Leaves
  <2>2. \/ rows[x] \in BugRows \/ rows[x] \in FixRows \/ rows[x] \in ImpactRows
        \/ rows[x] \in PropRows \/ rows[x] \in TodoRows
    BY <2>1, FoundFact, KindFact
  <2>3. QED BY <2>2 DEF BugRows, FixRows, ImpactRows, PropRows, TodoRows
<1>3. QED BY <1>1, <1>2 DEF Leaves, Live

\* How one row goes through a step: whether it is there, and what it refers to.
LEMMA RowStepFact ==
    ASSUME TableOK(rows), NEW r, StepTo(r), NEW x \in Ids
    PROVE  /\ Found(rows, x) => Found(r, x) \/ Leaves(r, x)
           /\ Live(rows, x) => Live(r, x) \/ Leaves(r, x)
           /\ Live(r, x) => \A y \in References(r, x) :
                 (Live(rows, x) /\ y \in References(rows, x)) \/ Found(r, y) \/ y \in Todos
<1>1. CASE r[x] = rows[x]
  BY <1>1, RowFact
<1>2. CASE Leaves(r, x)
  BY <1>2, LeavesFact
<1>3. CASE x \in Bugs /\ r[x] # rows[x] /\ ~Leaves(r, x)
  <2>1. /\ r[x] \in BugRows
        /\ \/ New(r, x, BugRows) /\ (r[x].dup # Null => Found(r, r[x].dup))
           \/ /\ Kept(r, x, BugRows)
              /\ r[x].dup # rows[x].dup => Found(r, r[x].dup)
    BY <1>3 DEF StepTo, BugStep, New, Kept
  <2>2. Found(r, x)
    BY <2>1, EmptyFact DEF Found, Empty
  <2>3. References(r, x) = {r[x].dup} \ {Null}
    BY <1>3, <2>2, RefsFact
  <2>4. Found(rows, x) => References(rows, x) = {rows[x].dup} \ {Null}
    BY <1>3, RefsFact
  <2>5. Found(rows, x) => Kept(r, x, BugRows)
    BY <2>1 DEF New, Found, Empty
  <2>6. QED BY <2>1, <2>2, <2>3, <2>4, <2>5 DEF Live, Kept, New
<1>4. CASE x \in Fixes /\ r[x] # rows[x] /\ ~Leaves(r, x)
  <2>1. /\ r[x] \in FixRows
        /\ \/ New(r, x, FixRows) /\ Found(r, r[x].bug)
           \/ Kept(r, x, FixRows) /\ r[x].bug = rows[x].bug
    BY <1>4 DEF StepTo, FixStep, New, Kept
  <2>2. Found(r, x)
    BY <2>1, EmptyFact DEF Found, Empty
  <2>3. References(r, x) = {r[x].bug}
    BY <1>4, <2>2, RefsFact
  <2>4. Found(rows, x) => References(rows, x) = {rows[x].bug}
    BY <1>4, RefsFact
  <2>5. Found(rows, x) => Kept(r, x, FixRows)
    BY <2>1 DEF New, Found, Empty
  <2>6. QED BY <2>1, <2>2, <2>3, <2>4, <2>5 DEF Live, Kept, New
<1>5. CASE x \in Impacts /\ r[x] # rows[x] /\ ~Leaves(r, x)
  <2>1. /\ r[x] \in ImpactRows
        /\ \/ New(r, x, ImpactRows) /\ Found(r, r[x].bug)
           \/ Kept(r, x, ImpactRows) /\ r[x].bug = rows[x].bug
    BY <1>5 DEF StepTo, ImpactStep, New, Kept
  <2>2. Found(r, x)
    BY <2>1, EmptyFact DEF Found, Empty
  <2>3. References(r, x) = {r[x].bug}
    BY <1>5, <2>2, RefsFact
  <2>4. Found(rows, x) => References(rows, x) = {rows[x].bug}
    BY <1>5, RefsFact
  <2>5. Found(rows, x) => Kept(r, x, ImpactRows)
    BY <2>1 DEF New, Found, Empty
  <2>6. QED BY <2>1, <2>2, <2>3, <2>4, <2>5 DEF Live, Kept, New
<1>6. CASE x \in Props /\ r[x] # rows[x] /\ ~Leaves(r, x)
  <2>1. /\ r[x] \in PropRows
        /\ \/ New(r, x, PropRows) /\ Found(r, r[x].fix) /\ Found(r, r[x].impact)
           \/ /\ Kept(r, x, PropRows)
              /\ r[x].fix = rows[x].fix /\ r[x].impact = rows[x].impact
    BY <1>6 DEF StepTo, PropStep, New, Kept
  <2>2. Found(r, x)
    BY <2>1, EmptyFact DEF Found, Empty
  <2>3. References(r, x) \subseteq {r[x].fix, r[x].impact} \cup Todos
    BY <1>6, <2>1, <2>2, RefsFact DEF PropRows
  <2>4. Found(rows, x) => {rows[x].fix, rows[x].impact} \subseteq References(rows, x)
    BY <1>6, RefsFact, FoundFact, KindFact
  <2>5. Found(rows, x) => Kept(r, x, PropRows)
    BY <2>1 DEF New, Found, Empty
  <2>6. QED BY <2>1, <2>2, <2>3, <2>4, <2>5 DEF Live, Kept, New
<1>7. CASE x \in Todos /\ r[x] # rows[x] /\ ~Leaves(r, x)
  <2>1. New(r, x, TodoRows)
    BY <1>7 DEF StepTo, TodoStep
  <2>2. Found(r, x)
    BY <2>1, EmptyFact DEF Found, Empty, New
  <2>3. References(r, x) = {} /\ ~Found(rows, x)
    BY <1>7, <2>1, <2>2, RefsFact DEF New, Found, Empty
  <2>4. QED BY <2>2, <2>3 DEF Live
<1>8. QED BY <1>1, <1>2, <1>3, <1>4, <1>5, <1>6, <1>7, KindFact

LEMMA StepKeepsInv ==
    ASSUME InvOn(rows), NEW r, StepTo(r)
    PROVE  InvOn(r)
<1>1. TableOK(rows) /\ TableOK(r)
  BY StepTyped DEF InvOn
<1>2. RefsIn(r)
  <2> SUFFICES ASSUME NEW x \in Ids, Live(r, x),
                      NEW y \in References(r, x) \ Todos, ~Found(r, y)
               PROVE  FALSE
    BY DEF RefsIn
  <2>1. Live(rows, x) /\ y \in References(rows, x)
    BY <1>1, RowStepFact
  <2>2. Found(rows, y)
    BY <2>1 DEF InvOn, RefsIn
  <2>3. y \in Ids
    BY <1>1, <2>1, FoundFact, RefsFact, KindFact DEF Live
  <2>4. Leaves(r, y)
    BY <1>1, <2>2, <2>3, RowStepFact
  <2>5. QED BY <2>1, <2>4 DEF Leaves, Referrers
<1>3. PassedIn(r)
  <2> SUFFICES ASSUME NEW f \in Fixes, Found(r, f), r[f].passed = "yes"
               PROVE  r[f].status = "verified"
    BY DEF PassedIn
  <2>1. CASE r[f] = rows[f]
    BY <2>1 DEF InvOn, PassedIn, Found
  <2>2. CASE Leaves(r, f)
    <3>1. r[f] = [rows[f] EXCEPT !.deleted = TRUE]
      BY <1>1, <2>2, LeavesFact, KindFact
    <3>2. rows[f] \in FixRows /\ Found(rows, f)
      BY <1>1, <2>2, FoundFact DEF Leaves
    <3>3. rows[f].passed = "yes" /\ r[f].status = rows[f].status
      BY <3>1, <3>2 DEF FixRows
    <3>4. QED BY <3>2, <3>3 DEF InvOn, PassedIn
  <2>3. CASE r[f] # rows[f] /\ ~Leaves(r, f)
    <3>1. \/ r[f].passed = "unset"
          \/ /\ Found(rows, f)
             /\ \/ r[f].passed = rows[f].passed /\ rows[f].status # "verified"
                \/ r[f].status = "verified"
      BY <2>3 DEF StepTo, FixStep, Kept
    <3>2. QED BY <3>1 DEF InvOn, PassedIn
  <2>4. QED BY <2>1, <2>2, <2>3
<1>4. SkippedIn(r)
  <2> SUFFICES ASSUME NEW i \in Impacts, Found(r, i), r[i].status = "skipped"
               PROVE  r[i].decided
    BY DEF SkippedIn
  <2>1. CASE r[i] = rows[i]
    BY <2>1 DEF InvOn, SkippedIn, Found
  <2>2. CASE Leaves(r, i)
    <3>1. r[i] = [rows[i] EXCEPT !.deleted = TRUE]
      BY <1>1, <2>2, LeavesFact, KindFact
    <3>2. rows[i] \in ImpactRows /\ Found(rows, i)
      BY <1>1, <2>2, FoundFact DEF Leaves
    <3>3. rows[i].status = "skipped" /\ r[i].decided = rows[i].decided
      BY <3>1, <3>2 DEF ImpactRows
    <3>4. QED BY <3>2, <3>3 DEF InvOn, SkippedIn
  <2>3. CASE r[i] # rows[i] /\ ~Leaves(r, i)
    BY <2>3 DEF StepTo, ImpactStep
  <2>4. QED BY <2>1, <2>2, <2>3
<1>5. QED BY <1>1, <1>2, <1>3, <1>4 DEF InvOn

LEMMA RecomputedKeepsInv ==
    ASSUME NEW r, InvOn(r), NEW c \in Bugs
    PROVE  InvOn(Recomputed(r, c))
<1> DEFINE q == Recomputed(r, c)
<1>1. TableOK(r) /\ TableOK(q)
  BY RecomputedTyped DEF InvOn
<1>2. /\ \A x \in Ids \ Bugs : q[x] = r[x]
      /\ \A x \in Ids : /\ Found(q, x) = Found(r, x)
                        /\ Live(q, x) = Live(r, x)
                        /\ References(q, x) = References(r, x)
  BY <1>1, RecomputedFrame
<1> HIDE DEF q
<1>3. RefsIn(q)
  <2> SUFFICES ASSUME NEW x \in Ids, Live(q, x), NEW y \in References(q, x) \ Todos
               PROVE  Found(q, y)
    BY DEF RefsIn
  <2>1. Live(r, x) /\ y \in References(r, x) \ Todos
    BY <1>2
  <2>2. y \in Ids
    BY <1>1, <2>1, FoundFact, RefsFact, KindFact DEF Live
  <2>3. QED BY <1>2, <2>1, <2>2 DEF InvOn, RefsIn
<1>4. PassedIn(q) /\ SkippedIn(q)
  BY <1>2, KindFact DEF InvOn, PassedIn, SkippedIn
<1>5. QED BY <1>1, <1>3, <1>4 DEF InvOn, q

----------------------------------------------------------------------------
(* Every command has the form of a step                                    *)

KindStep(r, x) ==
    /\ x \in Bugs => BugStep(r, x)
    /\ x \in Fixes => FixStep(r, x)
    /\ x \in Impacts => ImpactStep(r, x)
    /\ x \in Props => PropStep(r, x)
    /\ x \in Todos => TodoStep(r, x)

\* Verifications stay as they are, and so does what propagations say.
SameOutcomes(r) ==
    /\ \A f \in Fixes : Found(rows, f) /\ Found(r, f) => r[f].passed = rows[f].passed
    /\ \A p \in Props : Found(rows, p) /\ Found(r, p) => r[p].status = rows[p].status

LEMMA ManyRows ==
    ASSUME NEW r, DOMAIN r = Ids,
           \A x \in Ids : r[x] = rows[x] \/ KindStep(r, x)
    PROVE  StepTo(r)
BY KindFact DEF StepTo, KindStep, BugStep, FixStep, ImpactStep, PropStep, TodoStep

LEMMA OneRow ==
    ASSUME TableOK(rows), NEW x \in Ids, NEW v, NEW r,
           r = [rows EXCEPT ![x] = v], KindStep(r, x)
    PROVE  StepTo(r)
<1>1. DOMAIN r = Ids /\ \A y \in Ids : y # x => r[y] = rows[y]
  BY DEF TableOK
<1>2. QED BY <1>1, ManyRows

LEMMA QuietStep ==
    ASSUME NEW r, StepTo(r), rows' = r, SameOutcomes(r)
    PROVE  Step
BY DEF Step, Quiet, Outcome, SameOutcomes

LEMMA BroughtStep ==
    ASSUME NEW r, StepTo(r), NEW c \in Bugs, rows' = Recomputed(r, c),
           \A b \in Bugs : r[b] = rows[b],
           \A b \in Bugs : Outcome(r, b) => b = c
    PROVE  Step
BY DEF Step, Brought

LEMMA StatusesFact ==
    /\ \A s : FixTargets(s) \subseteq FixStatuses
    /\ \A s : PropagationTargets(s) \subseteq PropagationStatuses
    /\ FixTargets("verified") = {}
    /\ \A command \in {"bug_triage", "bug_confirm", "bug_reject", "bug_reopen"} :
          /\ CommandTarget(command) \in BugStatuses
          /\ \A s \in LegalSources(command) \cap TerminalStatuses :
                CommandTarget(command) = "reopened"
BY DEF FixTargets, FixStatuses, PropagationTargets, PropagationStatuses,
       CommandTarget, LegalSources, BugStatuses, TerminalStatuses

LEMMA BugCreateStep ==
    ASSUME InvOn(rows), NEW b \in Bugs, NEW status \in BugInputs,
           NEW dup \in Originals \cup {Null}, bug_create(b, status, dup)
    PROVE  Step
<1> DEFINE row == [status |-> status, dup |-> dup, deleted |-> FALSE]
           r   == [rows EXCEPT ![b] = row]
<1>1. DOMAIN r = Ids /\ r[b] = row /\ \A y \in Ids : y # b => r[y] = rows[y]
  BY KindFact DEF InvOn, TableOK
<1>2. row \in BugRows /\ ~row.deleted
  BY InputsAreStatuses, ScopeIsKnown DEF BugRows
<1>3. rows[b] = NoRow /\ rows' = r /\ (dup # Null => Found(rows, dup))
  BY DEF bug_create, Write, Insert
<1>4. dup # Null => Found(r, dup)
  BY <1>1, <1>3, KindFact, ScopeIsKnown DEF Found, Empty
<1> HIDE DEF r
<1>5. BugStep(r, b)
  BY <1>1, <1>2, <1>3, <1>4 DEF BugStep, New
<1>6. StepTo(r)
  BY <1>5, KindFact, OneRow DEF KindStep, r, InvOn
<1>7. SameOutcomes(r)
  BY <1>1, KindFact DEF SameOutcomes
<1>8. QED BY <1>3, <1>6, <1>7, QuietStep

\* What the commands have in common that write one bug and bring nothing.
LEMMA BugWriteStep ==
    ASSUME InvOn(rows), NEW b \in Bugs, NEW row \in BugRows,
           Found(rows, b), PlanAllowsBug(b),
           row.deleted = rows[b].deleted,
           row.dup # rows[b].dup => row.dup \in Bugs /\ Found(rows, row.dup),
           rows[b].status \in TerminalStatuses => row.status = "reopened",
           rows' = [rows EXCEPT ![b] = row]
    PROVE  Step
<1> DEFINE r == [rows EXCEPT ![b] = row]
<1>1. DOMAIN r = Ids /\ r[b] = row /\ \A y \in Ids : y # b => r[y] = rows[y]
  BY KindFact DEF InvOn, TableOK
<1> HIDE DEF r
<1>2. Found(r, b)
  BY <1>1, EmptyFact DEF Found, Empty
<1>3. row.dup # rows[b].dup => Found(r, row.dup)
  BY <1>1, <1>2, RowFact, KindFact
<1>4. BugStep(r, b)
  BY <1>1, <1>3 DEF BugStep, Kept
<1>5. StepTo(r)
  BY <1>4, KindFact, OneRow DEF KindStep, r, InvOn
<1>6. SameOutcomes(r)
  BY <1>1, KindFact DEF SameOutcomes
<1>7. QED BY <1>5, <1>6, QuietStep DEF r

LEMMA MoveBugStep ==
    ASSUME InvOn(rows), NEW b \in Bugs,
           NEW command \in {"bug_triage", "bug_confirm", "bug_reject", "bug_reopen"},
           MoveBug(b, command)
    PROVE  Step
<1> DEFINE row == [rows[b] EXCEPT !.status = CommandTarget(command)]
<1>1. rows[b] \in BugRows
  BY FoundFact DEF MoveBug, InvOn
<1>2. /\ row \in BugRows /\ row.deleted = rows[b].deleted /\ row.dup = rows[b].dup
      /\ row.status = CommandTarget(command)
  BY <1>1, StatusesFact DEF BugRows
<1>3. rows[b].status \in TerminalStatuses => row.status = "reopened"
  BY <1>2, StatusesFact DEF MoveBug
<1>4. rows' = [rows EXCEPT ![b] = row]
  BY DEF MoveBug, Write
<1> HIDE DEF row
<1>5. QED BY <1>2, <1>3, <1>4, BugWriteStep DEF MoveBug

LEMMA MarkDuplicateStep ==
    ASSUME InvOn(rows), NEW b \in Bugs, NEW other \in Originals,
           bug_mark_duplicate(b, other)
    PROVE  Step
<1> DEFINE row == [rows[b] EXCEPT !.status = "duplicate", !.dup = other]
<1>1. rows[b] \in BugRows /\ other \in Bugs
  BY FoundFact, ScopeIsKnown DEF bug_mark_duplicate, InvOn
<1>2. row \in BugRows /\ row.deleted = rows[b].deleted /\ row.dup = other
  BY <1>1 DEF BugRows, BugStatuses
<1>3. rows[b].status \notin TerminalStatuses
  BY DEF bug_mark_duplicate, LegalSources
<1>4. rows' = [rows EXCEPT ![b] = row]
  BY DEF bug_mark_duplicate, Write
<1> HIDE DEF row
<1>5. QED BY <1>1, <1>2, <1>3, <1>4, BugWriteStep DEF bug_mark_duplicate

LEMMA BugCloseStep ==
    ASSUME InvOn(rows), NEW b \in Bugs, bug_close(b)
    PROVE  Step
<1> DEFINE row == [rows[b] EXCEPT !.status = "closed"]
<1>1. rows[b] \in BugRows
  BY FoundFact DEF bug_close, InvOn
<1>2. row \in BugRows /\ row.deleted = rows[b].deleted /\ row.dup = rows[b].dup
  BY <1>1 DEF BugRows, BugStatuses
<1>3. rows[b].status \notin TerminalStatuses
  BY DEF bug_close, LegalSources
<1>4. rows' = [rows EXCEPT ![b] = row]
  BY DEF bug_close, Write
<1> HIDE DEF row
<1>5. QED BY <1>2, <1>3, <1>4, BugWriteStep DEF bug_close

LEMMA FixCreateStep ==
    ASSUME InvOn(rows), NEW f \in Fixes, NEW b \in Bugs, NEW status \in FixInputs,
           bug_fix_create(f, b, status)
    PROVE  Step
<1> DEFINE row == [bug |-> b, status |-> status, passed |-> "unset", deleted |-> FALSE]
           r   == [rows EXCEPT ![f] = row]
<1>1. DOMAIN r = Ids /\ r[f] = row /\ \A y \in Ids : y # f => r[y] = rows[y]
  BY KindFact DEF InvOn, TableOK
<1>2. row \in FixRows /\ ~row.deleted
  BY InputsAreStatuses DEF FixRows
<1>3. rows[f] = NoRow /\ rows' = Recomputed(r, b) /\ Found(rows, b)
  BY DEF bug_fix_create, Write, Insert
<1> HIDE DEF r
<1>4. Found(r, b)
  BY <1>1, <1>3, RowFact, KindFact
<1>5. FixStep(r, f)
  BY <1>1, <1>2, <1>3, <1>4 DEF FixStep, New
<1>6. StepTo(r)
  BY <1>5, KindFact, OneRow DEF KindStep, r, InvOn
<1>7. \A c \in Bugs : ~Outcome(r, c)
  BY <1>1, <1>3, KindFact DEF Outcome, Found, Empty
<1>8. \A c \in Bugs : r[c] = rows[c]
  BY <1>1, KindFact
<1>9. QED BY <1>3, <1>6, <1>7, <1>8, BroughtStep

LEMMA FixUpdateStep ==
    ASSUME InvOn(rows), NEW f \in Fixes, NEW status, bug_fix_update(f, status)
    PROVE  Step
<1> DEFINE row == [rows[f] EXCEPT !.status = status]
           r   == [rows EXCEPT ![f] = row]
<1>1. DOMAIN r = Ids /\ r[f] = row /\ \A y \in Ids : y # f => r[y] = rows[y]
  BY KindFact DEF InvOn, TableOK
<1>2. /\ Found(rows, f) /\ PlanAllowsFix(f) /\ rows' = r
      /\ status \in FixStatuses /\ rows[f].status # "verified"
  BY StatusesFact DEF bug_fix_update, Write
<1>3. rows[f] \in FixRows
  BY <1>2, FoundFact DEF InvOn
<1>4. /\ row \in FixRows /\ row.deleted = rows[f].deleted /\ row.bug = rows[f].bug
      /\ row.passed = rows[f].passed
  BY <1>2, <1>3 DEF FixRows
<1> HIDE DEF r, row
<1>5. FixStep(r, f)
  BY <1>1, <1>2, <1>4 DEF FixStep, Kept
<1>6. StepTo(r)
  BY <1>5, KindFact, OneRow DEF KindStep, r, InvOn
<1>7. SameOutcomes(r)
  BY <1>1, <1>4, KindFact DEF SameOutcomes
<1>8. QED BY <1>2, <1>6, <1>7, QuietStep

LEMMA FixVerifyStep ==
    ASSUME InvOn(rows), NEW f \in Fixes, NEW passed \in BOOLEAN, bug_fix_verify(f, passed)
    PROVE  Step
<1> DEFINE row == [rows[f] EXCEPT !.status = IF passed THEN "verified" ELSE "failed",
                                  !.passed = IF passed THEN "yes" ELSE "no"]
           r   == [rows EXCEPT ![f] = row]
<1>1. DOMAIN r = Ids /\ r[f] = row /\ \A y \in Ids : y # f => r[y] = rows[y]
  BY KindFact DEF InvOn, TableOK
<1>2. /\ Found(rows, f) /\ PlanAllowsFix(f) /\ rows' = Recomputed(r, rows[f].bug)
  BY DEF bug_fix_verify, Write
<1>3. rows[f] \in FixRows /\ rows[f].bug \in Bugs
  BY <1>2, FoundFact DEF InvOn
<1>4. /\ row \in FixRows /\ row.deleted = rows[f].deleted /\ row.bug = rows[f].bug
      /\ row.passed = "yes" => row.status = "verified"
  BY <1>3 DEF FixRows, FixStatuses
<1> HIDE DEF r, row
<1>5. FixStep(r, f)
  BY <1>1, <1>2, <1>4 DEF FixStep, Kept
<1>6. StepTo(r)
  BY <1>5, KindFact, OneRow DEF KindStep, r, InvOn
<1>7. \A b \in Bugs : Outcome(r, b) => b = rows[f].bug
  BY <1>1, KindFact DEF Outcome
<1>8. \A c \in Bugs : r[c] = rows[c]
  BY <1>1, KindFact
<1>9. QED BY <1>2, <1>3, <1>6, <1>7, <1>8, BroughtStep

LEMMA ImpactAddStep ==
    ASSUME InvOn(rows), NEW i \in Impacts, NEW b \in Bugs, NEW status \in ImpactInputs,
           NEW decided \in BOOLEAN, bug_impact_add(i, b, status, decided)
    PROVE  Step
<1> DEFINE row == [bug |-> b, status |-> status, decided |-> decided, deleted |-> FALSE]
           r   == [rows EXCEPT ![i] = row]
<1>1. DOMAIN r = Ids /\ r[i] = row /\ \A y \in Ids : y # i => r[y] = rows[y]
  BY KindFact DEF InvOn, TableOK
<1>2. row \in ImpactRows /\ ~row.deleted /\ row.bug = b
  BY InputsAreStatuses DEF ImpactRows
<1>3. /\ rows[i] = NoRow /\ rows' = r /\ Found(rows, b)
      /\ row.status = "skipped" => row.decided
  BY DEF bug_impact_add, Write, Insert
<1> HIDE DEF r, row
<1>4. Found(r, b)
  BY <1>1, <1>3, RowFact, KindFact
<1>5. ImpactStep(r, i)
  BY <1>1, <1>2, <1>3, <1>4 DEF ImpactStep, New
<1>6. StepTo(r)
  BY <1>5, KindFact, OneRow DEF KindStep, r, InvOn
<1>7. SameOutcomes(r)
  BY <1>1, KindFact DEF SameOutcomes
<1>8. QED BY <1>3, <1>6, <1>7, QuietStep

LEMMA ImpactDiscoverStep ==
    ASSUME InvOn(rows), NEW b \in Bugs, bug_impact_discover(b)
    PROVE  Step
<1> DEFINE row == [bug |-> b, status |-> "suspected", decided |-> FALSE, deleted |-> FALSE]
           r   == [x \in Ids |-> IF x \in Dependents THEN row ELSE rows[x]]
<1>1. DOMAIN r = Ids /\ \A y \in Ids : r[y] = IF y \in Dependents THEN row ELSE rows[y]
  OBVIOUS
<1>2. row \in ImpactRows /\ ~row.deleted /\ row.bug = b /\ row.status # "skipped"
  BY DEF ImpactRows, ImpactStatuses
<1>3. rows' = r /\ Found(rows, b) /\ \A i \in Dependents : rows[i] = NoRow
  BY DEF bug_impact_discover, Write
<1> HIDE DEF r, row
<1>4. Found(r, b)
  BY <1>1, <1>3, ScopeIsKnown, KindFact DEF Found
<1>5. \A i \in Dependents : ImpactStep(r, i)
  BY <1>1, <1>2, <1>3, <1>4, ScopeIsKnown, KindFact DEF ImpactStep, New
<1>6. \A x \in Ids : r[x] = rows[x] \/ KindStep(r, x)
  BY <1>1, <1>5, ScopeIsKnown, KindFact DEF KindStep
<1>7. StepTo(r)
  BY <1>1, <1>6, ManyRows
<1>8. SameOutcomes(r)
  BY <1>1, ScopeIsKnown, KindFact DEF SameOutcomes
<1>9. QED BY <1>3, <1>7, <1>8, QuietStep

LEMMA ImpactUpdateStep ==
    ASSUME InvOn(rows), NEW i \in Impacts, NEW status \in ImpactInputs,
           NEW decided \in BOOLEAN, bug_impact_update(i, status, decided)
    PROVE  Step
<1> DEFINE row == [rows[i] EXCEPT !.status = status, !.decided = decided]
           r   == [rows EXCEPT ![i] = row]
<1>1. DOMAIN r = Ids /\ r[i] = row /\ \A y \in Ids : y # i => r[y] = rows[y]
  BY KindFact DEF InvOn, TableOK
<1>2. Found(rows, i) /\ rows' = r /\ (status = "skipped" => decided)
  BY DEF bug_impact_update, Write
<1>3. rows[i] \in ImpactRows
  BY <1>2, FoundFact DEF InvOn
<1>4. /\ row \in ImpactRows /\ row.deleted = rows[i].deleted /\ row.bug = rows[i].bug
      /\ row.status = "skipped" => row.decided
  BY <1>2, <1>3, InputsAreStatuses DEF ImpactRows
<1> HIDE DEF r, row
<1>5. ImpactStep(r, i)
  BY <1>1, <1>2, <1>4 DEF ImpactStep, Kept
<1>6. StepTo(r)
  BY <1>5, KindFact, OneRow DEF KindStep, r, InvOn
<1>7. SameOutcomes(r)
  BY <1>1, KindFact DEF SameOutcomes
<1>8. QED BY <1>2, <1>6, <1>7, QuietStep

LEMMA PropagationCreateStep ==
    ASSUME InvOn(rows), NEW p \in Props, NEW f \in Fixes, NEW i \in Impacts,
           bug_propagation_create(p, f, i)
    PROVE  Step
<1> DEFINE row == [fix |-> f, impact |-> i, status |-> "pending", todo |-> Null,
                   deleted |-> FALSE]
           r   == [rows EXCEPT ![p] = row]
<1>1. DOMAIN r = Ids /\ r[p] = row /\ \A y \in Ids : y # p => r[y] = rows[y]
  BY KindFact DEF InvOn, TableOK
<1>2. row \in PropRows /\ ~row.deleted /\ row.fix = f /\ row.impact = i
  BY DEF PropRows, PropagationStatuses
<1>3. /\ rows[p] = NoRow /\ rows' = Recomputed(r, rows[f].bug)
      /\ Found(rows, f) /\ Found(rows, i)
  BY DEF bug_propagation_create, Write, Insert
<1> HIDE DEF r, row
<1>4. Found(r, f) /\ Found(r, i) /\ rows[f].bug \in Bugs
  BY <1>1, <1>3, RowFact, KindFact, FoundFact DEF InvOn
<1>5. PropStep(r, p)
  BY <1>1, <1>2, <1>3, <1>4 DEF PropStep, New
<1>6. StepTo(r)
  BY <1>5, KindFact, OneRow DEF KindStep, r, InvOn
<1>7. \A b \in Bugs : ~Outcome(r, b)
  BY <1>1, <1>3, KindFact DEF Outcome, Found, Empty
<1>8. \A c \in Bugs : r[c] = rows[c]
  BY <1>1, KindFact
<1>9. QED BY <1>3, <1>4, <1>6, <1>7, <1>8, BroughtStep

LEMMA PropagationUpdateStep ==
    ASSUME InvOn(rows), NEW p \in Props, NEW status, NEW todo \in Todos \cup {Null},
           bug_propagation_update(p, status, todo)
    PROVE  Step
<1> DEFINE row == [rows[p] EXCEPT !.status = IF status = Null THEN @ ELSE status,
                                  !.todo   = IF todo = Null THEN @ ELSE todo]
           r   == [rows EXCEPT ![p] = row]
<1>1. DOMAIN r = Ids /\ r[p] = row /\ \A y \in Ids : y # p => r[y] = rows[y]
  BY KindFact DEF InvOn, TableOK
<1>2. /\ Found(rows, p) /\ rows' = RecomputedFor(r, p)
      /\ status # Null => status \in PropagationStatuses
  BY StatusesFact DEF bug_propagation_update, Write
<1>3. rows[p] \in PropRows /\ rows[p].fix \in Fixes
  BY <1>2, FoundFact DEF InvOn
<1>4. /\ row \in PropRows /\ row.deleted = rows[p].deleted
      /\ row.fix = rows[p].fix /\ row.impact = rows[p].impact
  BY <1>2, <1>3 DEF PropRows
<1> HIDE DEF r, row
<1>5. PropStep(r, p)
  BY <1>1, <1>2, <1>4 DEF PropStep, Kept
<1>6. StepTo(r)
  BY <1>5, KindFact, OneRow DEF KindStep, r, InvOn
<1>7. \A g \in Fixes : r[g] = rows[g]
  BY <1>1, KindFact
<1>8. CASE Found(r, r[p].fix)
  <2>1. rows' = Recomputed(r, r[r[p].fix].bug) /\ r[r[p].fix].bug \in Bugs
    BY <1>1, <1>2, <1>3, <1>4, <1>7, <1>8, FoundFact DEF RecomputedFor, InvOn, Found
  <2>2. \A b \in Bugs : Outcome(r, b) => b = r[r[p].fix].bug
    BY <1>1, <1>4, <1>7, KindFact DEF Outcome
  <2>3. \A c \in Bugs : r[c] = rows[c]
    BY <1>1, KindFact
  <2>4. QED BY <1>6, <2>1, <2>2, <2>3, BroughtStep
<1>9. CASE ~Found(r, r[p].fix)
  <2>1. rows' = r
    BY <1>2, <1>9 DEF RecomputedFor
  <2>2. \A b \in Bugs : ~Outcome(r, b)
    BY <1>1, <1>4, <1>7, <1>9, KindFact DEF Outcome
  <2>3. QED BY <1>6, <2>1, <2>2 DEF Step, Quiet
<1>10. QED BY <1>8, <1>9

LEMMA GenerateTodosStep ==
    ASSUME InvOn(rows), NEW f \in Fixes, bug_propagation_generate_todos(f)
    PROVE  Step
<1> DEFINE pending == {p \in Props : /\ Live(rows, p)
                                     /\ rows[p].fix = f
                                     /\ rows[p].status = "pending"}
<1>1. PICK given \in [pending -> {t \in Todos : rows[t] = NoRow}] :
         rows' = [x \in Ids |->
                   IF x \in pending THEN [rows[x] EXCEPT !.todo = given[x]]
                   ELSE IF \E p \in pending : given[p] = x THEN [deleted |-> FALSE]
                   ELSE rows[x]]
  BY DEF bug_propagation_generate_todos, Write
<1> DEFINE made == {given[p] : p \in pending}
           r    == rows'
<1>2. pending \subseteq Props /\ made \subseteq {t \in Todos : rows[t] = NoRow}
  BY <1>1
<1>3. \A p \in pending : given[p] \in Todos
  BY <1>1
<1>4. /\ DOMAIN r = Ids
      /\ \A p \in pending : r[p] = [rows[p] EXCEPT !.todo = given[p]]
      /\ \A t \in made : r[t] = [deleted |-> FALSE]
      /\ \A x \in Ids : x \notin pending /\ x \notin made => r[x] = rows[x]
  BY <1>1, <1>2, KindFact
<1>5. \A p \in pending : Found(rows, p) /\ rows[p] \in PropRows
  BY <1>2, FoundFact DEF InvOn, Live
<1> HIDE DEF r, made, pending
<1>6. ASSUME NEW p \in pending
      PROVE  /\ PropStep(r, p)
             /\ r[p].status = rows[p].status
  <2> DEFINE row == [rows[p] EXCEPT !.todo = given[p]]
  <2>1. /\ row \in PropRows /\ row.deleted = rows[p].deleted
        /\ row.fix = rows[p].fix /\ row.impact = rows[p].impact
        /\ row.status = rows[p].status
    BY <1>3, <1>5 DEF PropRows
  <2> HIDE DEF row
  <2>2. r[p] = row
    BY <1>4 DEF row
  <2>3. QED BY <1>5, <2>1, <2>2 DEF PropStep, Kept
<1>7. ASSUME NEW t \in made
      PROVE  TodoStep(r, t)
  <2>1. r[t] = [deleted |-> FALSE] /\ rows[t] = NoRow
    BY <1>2, <1>4
  <2>2. [deleted |-> FALSE] \in TodoRows
    BY DEF TodoRows
  <2>3. ~r[t].deleted
    BY <2>1
  <2>4. New(r, t, TodoRows)
    BY <2>1, <2>2, <2>3 DEF New
  <2>5. QED BY <2>4 DEF TodoStep
<1>8. \A x \in Ids : r[x] = rows[x] \/ KindStep(r, x)
  BY <1>2, <1>4, <1>6, <1>7, KindFact DEF KindStep
<1>9. StepTo(r)
  BY <1>4, <1>8, ManyRows
<1>10. SameOutcomes(r)
  BY <1>2, <1>4, <1>6, KindFact DEF SameOutcomes
<1>11. QED BY <1>9, <1>10, QuietStep DEF r

\* Rows that leave carry no outcome.
LEMMA LeavesQuietly ==
    ASSUME InvOn(rows), DOMAIN rows' = Ids,
           \A x \in Ids : rows'[x] = rows[x] \/ Leaves(rows', x)
    PROVE  Step
<1>1. StepTo(rows')
  <2>1. ASSUME NEW x \in Ids, Leaves(rows', x) PROVE KindStep(rows', x)
    BY <2>1 DEF KindStep, BugStep, FixStep, ImpactStep, PropStep, TodoStep
  <2>2. QED BY <2>1, ManyRows
<1>2. ASSUME NEW f \in Fixes, Found(rows, f), Found(rows', f)
      PROVE  rows'[f].passed = rows[f].passed
  <2>1. rows[f] \in FixRows
    BY <1>2, FoundFact DEF InvOn
  <2>2. CASE Leaves(rows', f)
    <3>1. rows'[f] = [rows[f] EXCEPT !.deleted = TRUE]
      BY <1>2, <2>2, LeavesFact, KindFact DEF InvOn
    <3>2. QED BY <2>1, <3>1 DEF FixRows
  <2>3. QED BY <2>2, KindFact
<1>3. ASSUME NEW p \in Props, Found(rows, p), Found(rows', p)
      PROVE  rows'[p].status = rows[p].status
  <2>1. rows[p] \in PropRows
    BY <1>3, FoundFact DEF InvOn
  <2>2. CASE Leaves(rows', p)
    <3>1. rows'[p] = [rows[p] EXCEPT !.deleted = TRUE]
      BY <1>3, <2>2, LeavesFact, KindFact DEF InvOn
    <3>2. QED BY <2>1, <3>1 DEF PropRows
  <2>3. QED BY <2>2, KindFact
<1>4. SameOutcomes(rows')
  BY <1>2, <1>3 DEF SameOutcomes
<1>5. QED BY <1>1, <1>4, QuietStep

LEMMA DeleteStep ==
    ASSUME InvOn(rows), NEW x \in Ids, NEW hard \in BOOLEAN, Delete(x, hard)
    PROVE  Step
<1>1. Found(rows, x)
  BY DEF Delete, Deletable, Live
<1>2. DOMAIN rows' = Ids /\ \A y \in Ids : y # x => rows'[y] = rows[y]
  BY DEF Delete, Write, InvOn, TableOK
<1>3. rows'[x] = Gone \/ rows'[x] = [rows[x] EXCEPT !.deleted = TRUE]
  BY DEF Delete, Write, InvOn, TableOK
<1>4. Leaves(rows', x)
  BY <1>1, <1>3 DEF Leaves, Delete
<1>5. QED BY <1>2, <1>4, LeavesQuietly

LEMMA PurgeStep ==
    ASSUME InvOn(rows), NEW start, runtime_purge_batch(start)
    PROVE  Step
<1> DEFINE set == MarkedClosure(start)
<1>1. \A x \in set : x \in Ids /\ Marked(rows, x)
  BY DEF MarkedClosure
<1>2. /\ \A x \in set : Referrers(rows, x) = {}
      /\ rows' = [x \in Ids |-> IF x \in set THEN Gone ELSE rows[x]]
  BY DEF runtime_purge_batch
<1> HIDE DEF set
<1>3. DOMAIN rows' = Ids /\ \A x \in Ids : rows'[x] = IF x \in set THEN Gone ELSE rows[x]
  BY <1>2
<1>4. \A x \in set : Leaves(rows', x)
  BY <1>1, <1>2, <1>3 DEF Leaves, Marked
<1>5. QED BY <1>3, <1>4, LeavesQuietly

\* The commands that change no row.
LEMMA SameRowsStep ==
    ASSUME InvOn(rows), UNCHANGED rows
    PROVE  Step
BY LeavesQuietly DEF InvOn, TableOK

LEMMA NextIsStep ==
    ASSUME InvOn(rows), Next
    PROVE  Step
<1>1. ASSUME BugCommands PROVE Step
  <2>1. CASE \E b \in Bugs, status \in BugInputs, dup \in Originals \cup {Null} :
                bug_create(b, status, dup)
    BY <2>1, BugCreateStep
  <2>2. CASE \E b \in Bugs, hard \in BOOLEAN : bug_delete(b, hard)
    BY <2>2, DeleteStep, KindFact DEF bug_delete
  <2>3. QED BY <1>1, <2>1, <2>2 DEF BugCommands
<1>2. ASSUME HandlingCommands PROVE Step
  <2>1. PICK b \in Bugs : \/ \E command \in {"bug_triage", "bug_confirm", "bug_reject", "bug_reopen"} :
                               MoveBug(b, command)
                          \/ \E other \in Originals : bug_mark_duplicate(b, other)
                          \/ bug_close(b)
                          \/ bug_impact_discover(b)
    BY <1>2, ScopeIsKnown DEF HandlingCommands, bug_triage, bug_confirm, bug_reject, bug_reopen
  <2>2. QED BY <2>1, MoveBugStep, MarkDuplicateStep, BugCloseStep, ImpactDiscoverStep
<1>3. ASSUME FixCommands PROVE Step
  <2>1. PICK f \in Fixes :
           \/ \E b \in Bugs, status \in FixInputs : bug_fix_create(f, b, status)
           \/ \E status \in FixInputs : bug_fix_update(f, status)
           \/ \E passed \in BOOLEAN : bug_fix_verify(f, passed)
           \/ bug_propagation_generate_todos(f)
           \/ \E hard \in BOOLEAN : Delete(f, hard)
    BY <1>3, ScopeIsKnown DEF FixCommands, bug_fix_delete
  <2>2. QED
    BY <2>1, FixCreateStep, FixUpdateStep, FixVerifyStep, GenerateTodosStep, DeleteStep, KindFact
<1>4. ASSUME ImpactCommands PROVE Step
  <2>1. PICK i \in Impacts :
           \/ \E b \in Bugs, status \in ImpactInputs, decided \in BOOLEAN :
                 bug_impact_add(i, b, status, decided)
           \/ \E status \in ImpactInputs, decided \in BOOLEAN :
                 bug_impact_update(i, status, decided)
           \/ \E hard \in BOOLEAN : Delete(i, hard)
    BY <1>4, ScopeIsKnown DEF ImpactCommands, bug_impact_delete
  <2>2. QED BY <2>1, ImpactAddStep, ImpactUpdateStep, DeleteStep, KindFact
<1>5. ASSUME PropagationCommands PROVE Step
  <2>1. PICK p \in Props :
           \/ \E f \in Fixes, i \in Impacts : bug_propagation_create(p, f, i)
           \/ \E status : \E todo \in Todos \cup {Null} : bug_propagation_update(p, status, todo)
           \/ \E hard \in BOOLEAN : Delete(p, hard)
    BY <1>5 DEF PropagationCommands, bug_fix_propagation_delete
  <2>2. QED BY <2>1, PropagationCreateStep, PropagationUpdateStep, DeleteStep, KindFact
<1>6. ASSUME OtherCommands PROVE Step
  <2>1. CASE \E t \in Todos, hard \in BOOLEAN : Delete(t, hard)
    BY <2>1, DeleteStep, KindFact
  <2>2. CASE \E start : runtime_purge_batch(start)
    BY <2>2, PurgeStep
  <2>3. CASE rebuild_relation_index \/ \E value \in BOOLEAN : plan_completed_set(value)
    BY <2>3, SameRowsStep DEF rebuild_relation_index, plan_completed_set
  <2>4. QED BY <1>6, <2>1, <2>2, <2>3 DEF OtherCommands, todo_delete
<1>7. QED BY <1>1, <1>2, <1>3, <1>4, <1>5, <1>6 DEF Next

----------------------------------------------------------------------------
(* Invariance                                                              *)

Inv == TypeOK /\ InvOn(rows)

LEMMA InitInv == Init => Inv
<1> SUFFICES ASSUME Init PROVE Inv
  OBVIOUS
<1>1. DOMAIN rows = Ids /\ \A x \in Ids : rows[x] = NoRow
  BY DEF Init
<1>2. TableOK(rows)
  BY <1>1, KindFact DEF TableOK, Empty
<1>3. \A x \in Ids : ~Found(rows, x)
  BY <1>1 DEF Found, Empty
<1>4. RefsIn(rows) /\ PassedIn(rows) /\ SkippedIn(rows)
  BY <1>3, KindFact DEF RefsIn, PassedIn, SkippedIn, Live
<1>5. QED BY <1>2, <1>4 DEF Inv, InvOn, TypeOK, TableOK, Init

LEMMA OthersTyped ==
    ASSUME index \subseteq Ids \X Ids, completed \in BOOLEAN, Next
    PROVE  index' \subseteq Ids \X Ids /\ completed' \in BOOLEAN
<1>1. ASSUME OtherCommands PROVE index' \subseteq Ids \X Ids /\ completed' \in BOOLEAN
  BY <1>1 DEF OtherCommands, todo_delete, Delete, Write, runtime_purge_batch,
              rebuild_relation_index, plan_completed_set
<1>2. ASSUME BugCommands \/ HandlingCommands PROVE UNCHANGED <<index, completed>>
  BY <1>2 DEF BugCommands, HandlingCommands, bug_create, bug_delete, Delete, bug_triage,
              bug_confirm, bug_reject, bug_reopen, MoveBug, bug_mark_duplicate, bug_close,
              bug_impact_discover, Write
<1>3. ASSUME FixCommands PROVE UNCHANGED <<index, completed>>
  BY <1>3 DEF FixCommands, bug_fix_create, bug_fix_update, bug_fix_verify, bug_fix_delete,
              bug_propagation_generate_todos, Delete, Write
<1>4. ASSUME ImpactCommands \/ PropagationCommands PROVE UNCHANGED <<index, completed>>
  BY <1>4 DEF ImpactCommands, PropagationCommands, bug_impact_add, bug_impact_update,
              bug_impact_delete, bug_propagation_create, bug_propagation_update,
              bug_fix_propagation_delete, Delete, Write
<1>5. QED BY <1>1, <1>2, <1>3, <1>4 DEF Next

LEMMA NextInv == Inv /\ [Next]_vars => Inv'
<1>1. ASSUME Inv, Next PROVE Inv'
  <2>1. PICK r : StepTo(r) /\ (Quiet(r) \/ Brought(r))
    BY <1>1, NextIsStep DEF Inv, Step
  <2>2. InvOn(r)
    BY <1>1, <2>1, StepKeepsInv DEF Inv
  <2>3. InvOn(rows')
    BY <2>1, <2>2, RecomputedKeepsInv DEF Quiet, Brought
  <2>4. index' \subseteq Ids \X Ids /\ completed' \in BOOLEAN
    BY <1>1, OthersTyped DEF Inv, TypeOK
  <2>5. TypeOK'
    BY <2>3, <2>4 DEF InvOn, TableOK, TypeOK
  <2>6. QED BY <2>3, <2>5 DEF Inv
<1>2. ASSUME Inv, UNCHANGED vars PROVE Inv'
  BY <1>2 DEF Inv, InvOn, TypeOK, TableOK, vars
<1>3. QED BY <1>1, <1>2

LEMMA Invariance == Spec => []Inv
BY InitInv, NextInv, PTL DEF Spec

\* Every table, index and flag has its type.
THEOREM Typed == Spec => []TypeOK
<1>1. Inv => TypeOK
  BY DEF Inv
<1>2. QED BY <1>1, Invariance, PTL

\* What a live record refers to is in the database.
THEOREM LiveReferencesResolve == Spec => []LiveRefsResolve
<1>1. Inv => LiveRefsResolve
  BY DEF Inv, InvOn, RefsIn, LiveRefsResolve
<1>2. QED BY <1>1, Invariance, PTL

\* A fix whose verification passed is verified.
THEOREM PassedFixesAreVerified == Spec => []PassedIsVerified
<1>1. Inv => PassedIsVerified
  BY DEF Inv, InvOn, PassedIn, PassedIsVerified
<1>2. QED BY <1>1, Invariance, PTL

\* A bug may be closed exactly when its derived status is verified.
THEOREM ClosingGuardsAgree == Spec => []GuardsAgree
<1>1. ASSUME SkippedIn(rows), NEW b \in Bugs
      PROVE  Closable(rows, b) <=> Derived(rows, b) = "verified"
  <2> DEFINE fixes   == RowsOf(rows, FixesOf(rows, b))
             impacts == RowsOf(rows, ImpactsOf(rows, b))
             props   == RowsOf(rows, PropsOf(rows, b))
  <2>1. \A i \in impacts : i.status = "skipped" => i.decided
    BY <1>1 DEF RowsOf, ImpactsOf, Live, SkippedIn
  <2> HIDE DEF fixes, impacts, props
  <2>2. DeriveBugStatus(fixes, impacts, props) = "verified"
        <=> /\ VerifiedAndPassed(fixes)
            /\ \A p \in props : p.status \in FinishedPropagations
            /\ \A i \in impacts : i.status \in ClearedImpacts
    BY DEF DeriveBugStatus, VerifiedAndPassed, NoStatus
  <2>3. CanClose(fixes, impacts, props)
        <=> /\ VerifiedAndPassed(fixes)
            /\ \A p \in props : p.status \in FinishedPropagations
            /\ \A i \in impacts : i.status \in ClearedImpacts
    BY <2>1 DEF CanClose, ClearedImpacts
  <2>4. QED BY <2>2, <2>3 DEF Closable, Derived, fixes, impacts, props
<1>2. Inv => GuardsAgree
  BY <1>1 DEF Inv, InvOn, GuardsAgree
<1>3. QED BY <1>2, Invariance, PTL

----------------------------------------------------------------------------
(* Action properties                                                       *)

\* What the two ends of a step have in common, the recomputation included.
LEMMA StepEnds ==
    ASSUME InvOn(rows), NEW r, StepTo(r), Quiet(r) \/ Brought(r)
    PROVE  /\ TableOK(r)
           /\ \A x \in Ids \ Bugs : rows'[x] = r[x]
           /\ \A x \in Ids : /\ Found(rows', x) = Found(r, x)
                             /\ Live(rows', x) = Live(r, x)
                             /\ References(rows', x) = References(r, x)
           /\ \A b \in Bugs : Derived(rows', b) = Derived(r, b)
           /\ \A b \in Bugs : Found(r, b) =>
                 \/ rows'[b].status = r[b].status
                 \/ /\ r[b].status \notin TerminalStatuses
                    /\ rows'[b].status = Derived(r, b)
<1>1. TableOK(r)
  BY StepTyped DEF InvOn
<1>2. CASE Quiet(r)
  BY <1>1, <1>2 DEF Quiet
<1>3. CASE Brought(r)
  <2>1. PICK c \in Bugs : rows' = Recomputed(r, c)
    BY <1>3 DEF Brought
  <2>2. ASSUME NEW b \in Bugs, Found(r, b)
        PROVE  \/ rows'[b].status = r[b].status
               \/ /\ r[b].status \notin TerminalStatuses
                  /\ rows'[b].status = Derived(r, b)
    <3>1. CASE rows' = r
      BY <3>1
    <3>2. CASE /\ r[c].status \notin TerminalStatuses
               /\ \A x \in Ids : x # c => rows'[x] = r[x]
               /\ rows'[c] = [r[c] EXCEPT !.status = Derived(r, c)]
      <4>1. CASE b = c
        <5>1. r[c] \in BugRows
          BY <1>1, <2>2, <4>1, FoundFact
        <5>2. rows'[c].status = Derived(r, c)
          BY <3>2, <5>1 DEF BugRows
        <5>3. QED BY <3>2, <4>1, <5>2
      <4>2. QED BY <3>2, <4>1, KindFact
    <3>3. QED BY <1>1, <2>1, <3>1, <3>2, RecomputedForm
  <2>3. QED BY <1>1, <2>1, <2>2, RecomputedFrame
<1>4. QED BY <1>2, <1>3

\* The status of a bug before its recomputation.
LEMMA BugStatusStep ==
    ASSUME InvOn(rows), NEW r, StepTo(r), NEW b \in Bugs, Found(rows, b), Found(r, b)
    PROVE  \/ r[b].status = rows[b].status
           \/ /\ PlanAllowsBug(b)
              /\ rows[b].status \in TerminalStatuses => r[b].status = "reopened"
<1>1. CASE Leaves(r, b)
  <2>1. rows[b] \in BugRows
    BY FoundFact DEF InvOn
  <2>2. r[b] = [rows[b] EXCEPT !.deleted = TRUE]
    BY <1>1, LeavesFact, KindFact DEF InvOn
  <2>3. QED BY <2>1, <2>2 DEF BugRows
<1>2. CASE ~Leaves(r, b)
  BY <1>2 DEF StepTo, BugStep, New, Kept, Found, Empty
<1>3. QED BY <1>1, <1>2

\* No deletion takes away a record that a live one refers to.
THEOREM LiveLinksAreKept == Spec => LiveLinksKept
<1>1. ASSUME Inv, Next, NEW x \in Ids, NEW y \in Ids,
             Live(rows, x), Live(rows, y), y \in References(rows, x)
      PROVE  Live(rows', y)
  <2>1. PICK r : StepTo(r) /\ (Quiet(r) \/ Brought(r))
    BY <1>1, NextIsStep DEF Inv, Step
  <2>2. Live(r, y) \/ Leaves(r, y)
    BY <1>1, <2>1, RowStepFact DEF Inv, InvOn
  <2>3. ~Leaves(r, y)
    BY <1>1 DEF Leaves, Referrers
  <2>4. QED BY <1>1, <2>1, <2>2, <2>3, StepEnds DEF Inv
<1>2. Inv /\ [Next]_vars =>
        [\A x, y \in Ids :
            (Live(rows, x) /\ Live(rows, y) /\ y \in References(rows, x)
                /\ Live(rows', x) /\ y \in References(rows', x))
            => Live(rows', y)]_vars
  BY <1>1
<1>3. QED BY <1>2, Invariance, PTL DEF Spec, LiveLinksKept

\* A terminal status is left by reopening only.
THEOREM TerminalStatusesAreSticky == Spec => TerminalSticky
<1>1. ASSUME Inv, Next, NEW b \in Bugs,
             Found(rows, b), rows[b].status \in TerminalStatuses, Found(rows', b)
      PROVE  rows'[b].status \in {rows[b].status, "reopened"}
  <2>1. PICK r : StepTo(r) /\ (Quiet(r) \/ Brought(r))
    BY <1>1, NextIsStep DEF Inv, Step
  <2>2. Found(r, b)
    BY <1>1, <2>1, StepEnds, KindFact DEF Inv
  <2>3. r[b].status \in {rows[b].status, "reopened"}
    BY <1>1, <2>1, <2>2, BugStatusStep DEF Inv
  <2>4. CASE Quiet(r)
    BY <2>3, <2>4 DEF Quiet
  <2>5. CASE Brought(r)
    BY <1>1, <2>1, <2>2, <2>5, StepEnds DEF Inv, Brought
  <2>6. QED BY <2>1, <2>4, <2>5
<1>2. Inv /\ [Next]_vars =>
        [\A b \in Bugs :
            (Found(rows, b) /\ rows[b].status \in TerminalStatuses /\ Found(rows', b))
            => rows'[b].status \in {rows[b].status, "reopened"}]_vars
  BY <1>1
<1>3. QED BY <1>2, Invariance, PTL DEF Spec, TerminalSticky

\* The outcome of a verification, or a new status of a propagation, as
\* OutcomesReachBugs sees it.
Witnessed(b) ==
    \/ \E f \in Fixes : /\ Found(rows, f) /\ Found(rows', f)
                        /\ rows[f].bug = b
                        /\ rows'[f].passed # rows[f].passed
    \/ \E p \in Props : /\ Found(rows, p) /\ Found(rows', p)
                        /\ Found(rows', rows[p].fix)
                        /\ rows'[rows[p].fix].bug = b
                        /\ rows'[p].status # rows[p].status

\* Outcomes reach the bug in the same transaction.
THEOREM OutcomesAreBrought == Spec => OutcomesReachBugs
<1>1. ASSUME Inv, Next, NEW b \in Bugs, Found(rows', b),
             rows'[b].status \notin TerminalStatuses,
             Derived(rows', b) # NoStatus, Witnessed(b)
      PROVE  rows'[b].status = Derived(rows', b)
  <2>1. PICK r : StepTo(r) /\ (Quiet(r) \/ Brought(r))
    BY <1>1, NextIsStep DEF Inv, Step
  <2>2. /\ TableOK(r)
        /\ \A x \in Ids \ Bugs : rows'[x] = r[x]
        /\ \A x \in Ids : Found(rows', x) = Found(r, x)
        /\ Derived(rows', b) = Derived(r, b)
    BY <1>1, <2>1, StepEnds DEF Inv
  <2>3. \A p \in Props : Found(rows, p) => rows[p].fix \in Fixes
    BY <1>1, FoundFact DEF Inv, InvOn
  <2>4. Outcome(r, b)
    <3>1. \A x \in Fixes \cup Props : rows'[x] = r[x] /\ Found(rows', x) = Found(r, x)
      BY <2>2, KindFact
    <3>2. CASE \E f \in Fixes : /\ Found(rows, f) /\ Found(rows', f)
                                /\ rows[f].bug = b
                                /\ rows'[f].passed # rows[f].passed
      BY <3>1, <3>2 DEF Outcome
    <3>3. CASE \E p \in Props : /\ Found(rows, p) /\ Found(rows', p)
                                /\ Found(rows', rows[p].fix)
                                /\ rows'[rows[p].fix].bug = b
                                /\ rows'[p].status # rows[p].status
      <4>1. PICK p \in Props : /\ Found(rows, p) /\ Found(rows', p)
                               /\ Found(rows', rows[p].fix)
                               /\ rows'[rows[p].fix].bug = b
                               /\ rows'[p].status # rows[p].status
        BY <3>3
      <4>2. rows[p].fix \in Fixes
        BY <2>3, <4>1
      <4>3. /\ Found(r, p) /\ Found(r, rows[p].fix)
            /\ r[rows[p].fix].bug = b
            /\ r[p].status # rows[p].status
        BY <3>1, <4>1, <4>2
      <4>4. QED BY <4>1, <4>3 DEF Outcome
    <3>4. QED BY <1>1, <3>2, <3>3 DEF Witnessed
  <2>5. rows' = Recomputed(r, b)
    BY <2>1, <2>4 DEF Quiet, Brought
  <2>6. CASE /\ rows' = r
             /\ Found(r, b) => r[b].status \in TerminalStatuses \/ Derived(r, b) = NoStatus
    BY <1>1, <2>2, <2>6
  <2>7. CASE Found(r, b) /\ rows'[b] = [r[b] EXCEPT !.status = Derived(r, b)]
    <3>1. r[b] \in BugRows
      BY <2>2, <2>7, FoundFact
    <3>2. QED BY <2>2, <2>7, <3>1 DEF BugRows
  <2>8. QED BY <2>2, <2>5, <2>6, <2>7, RecomputedForm
<1>2. Inv /\ [Next]_vars =>
        [\A b \in Bugs :
            /\ Found(rows', b)
            /\ rows'[b].status \notin TerminalStatuses
            /\ Derived(rows', b) # NoStatus
            /\ \/ \E f \in Fixes : /\ Found(rows, f) /\ Found(rows', f)
                                   /\ rows[f].bug = b
                                   /\ rows'[f].passed # rows[f].passed
               \/ \E p \in Props : /\ Found(rows, p) /\ Found(rows', p)
                                   /\ Found(rows', rows[p].fix)
                                   /\ rows'[rows[p].fix].bug = b
                                   /\ rows'[p].status # rows[p].status
            => rows'[b].status = Derived(rows', b)]_vars
  BY <1>1 DEF Witnessed
<1>3. QED BY <1>2, Invariance, PTL DEF Spec, OutcomesReachBugs

\* While a plan is completed its bugs and their fixes hold still.
THEOREM CompletedPlansHold == Spec => CompletedPlanHolds
<1>1. ASSUME Inv, Next, completed, NEW f \in Fixes, Live(rows, f), rows[f].bug \in PlanBugs
      PROVE  rows'[f] = rows[f]
  <2>1. PICK r : StepTo(r) /\ (Quiet(r) \/ Brought(r))
    BY <1>1, NextIsStep DEF Inv, Step
  <2>2. Found(rows, rows[f].bug)
    <3>1. Found(rows, f) /\ rows[f].bug \in Bugs
      BY <1>1, FoundFact DEF Inv, InvOn, Live
    <3>2. rows[f].bug \in References(rows, f) \ Todos
      BY <3>1, RefsFact, KindFact
    <3>3. QED BY <1>1, <3>2, KindFact DEF Inv, InvOn, RefsIn
  <2>3. ~PlanAllowsFix(f)
    BY <1>1, <2>2 DEF PlanAllowsFix, PlanAllowsBug
  <2>4. ~PlanAllowsDelete(f)
    BY <2>3, KindFact DEF PlanAllowsDelete
  <2>5. r[f] = rows[f]
    BY <1>1, <2>1, <2>3, <2>4
       DEF StepTo, FixStep, New, Leaves, Live, Marked, Found, Empty
  <2>6. QED BY <1>1, <2>1, <2>5, StepEnds, KindFact DEF Inv
<1>2. ASSUME Inv, Next, completed, NEW b \in PlanBugs, Found(rows, b), Found(rows', b)
      PROVE  rows'[b].status \in {rows[b].status, Derived(rows', b)}
  <2>1. PICK r : StepTo(r) /\ (Quiet(r) \/ Brought(r))
    BY <1>2, NextIsStep DEF Inv, Step
  <2>2. b \in Bugs /\ Found(r, b)
    BY <1>2, <2>1, StepEnds, ScopeIsKnown, KindFact DEF Inv
  <2>3. r[b].status = rows[b].status
    BY <1>2, <2>1, <2>2, BugStatusStep DEF PlanAllowsBug, Inv
  <2>4. QED BY <1>2, <2>1, <2>2, <2>3, StepEnds DEF Inv
<1>3. Inv /\ [Next]_vars =>
        [completed /\ completed' =>
            /\ \A f \in Fixes :
                  Live(rows, f) /\ rows[f].bug \in PlanBugs => rows'[f] = rows[f]
            /\ \A b \in PlanBugs :
                  Found(rows, b) /\ Found(rows', b) =>
                     rows'[b].status \in {rows[b].status, Derived(rows', b)}]_vars
  BY <1>1, <1>2
<1>4. QED BY <1>3, Invariance, PTL DEF Spec, CompletedPlanHolds
=============================================================================
