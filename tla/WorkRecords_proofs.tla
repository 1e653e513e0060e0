------------------------- MODULE WorkRecords_proofs -------------------------
(***************************************************************************)
(* Proofs about WorkRecords, for every set of records and any number of    *)
(* links.                                                                  *)
(***************************************************************************)
EXTENDS WorkRecords, TLAPS

\* The record that replaces another is about the same step.
ReplacedAlike ==
    /\ \A a \in Attempts :
        Exists(attempts, a) /\ attempts[a].superseded # Null =>
            StepOf[attempts[a].superseded] = StepOf[a]
    /\ \A r \in Reviews :
        Exists(reviews, r) /\ reviews[r].superseded # Null =>
            StepOf[ReviewOf[reviews[r].superseded]] = StepOf[ReviewOf[r]]

Inv == TypeOK /\ ReplacedAlike

----------------------------------------------------------------------------
(* What the commands of one kind leave alone                               *)

LEMMA EmptyFact ==
    /\ NoRow \notin TodoRows \cup AttemptRows \cup ReviewRows \cup EscalationRows
    /\ Gone \notin TodoRows \cup AttemptRows \cup ReviewRows \cup EscalationRows
BY EmptyIsNoRow

LEMMA TodoFact ==
    ASSUME TypeOK, NEW t \in Todos, FoundTodo(t)
    PROVE  /\ todos[t] \in TodoRows /\ ~todos[t].deleted
           /\ todos[t].status \in TodoStatuses /\ todos[t].anchor \in Anchors
BY DEF TypeOK, FoundTodo, Exists, TodoRows

\* An anchor at the plan or a step of it is not taken while the plan is completed.
Free(anchor) == anchor.type = "plan" => ~completed

LEMMA FreeFact ==
    ASSUME NEW anchor \in EscalationAnchors, Open(anchor) \/ ValidAnchor(anchor)
    PROVE  Free(anchor)
BY DEF EscalationAnchors, Anchors, Open, ValidAnchor, Free

\* How one todo item goes through a command.
TodoStep(t) ==
    \/ todos'[t] = todos[t]
    \/ todos[t] = NoRow /\ todos'[t] \in TodoRows /\ Free(todos'[t].anchor)
    \/ /\ FoundTodo(t) /\ TodoOpen(t)
       /\ \/ todos'[t] = Gone
          \/ /\ todos'[t] \in TodoRows
             /\ Free(todos'[t].anchor)
             /\ todos[t].status \notin Active => todos'[t].status \notin Active

\* A todo command: one item, and the links that go with it.
TodoCommandForm(t) ==
    /\ \A u \in Todos : u # t => todos'[u] = todos[u]
    /\ TodoStep(t)
    /\ todos' \in [Todos -> TodoRows \cup {NoRow, Gone}]
    /\ \/ links' = links /\ todos'[t] # Gone
       \/ todos'[t] = Gone /\ links' = {l \in links : t \notin {l.from, l.to}}
    /\ UNCHANGED <<attempts, reviews, escalations, completed>>

LEMMA WriteTodoForm ==
    ASSUME TypeOK, NEW t \in Todos, NEW row \in TodoRows, WriteTodo(t, row),
           Free(row.anchor),
           \/ todos[t] = NoRow
           \/ /\ FoundTodo(t) /\ TodoOpen(t)
              /\ todos[t].status \notin Active => row.status \notin Active
    PROVE  TodoCommandForm(t)
<1>1. todos' = [todos EXCEPT ![t] = row]
  BY DEF WriteTodo
<1>2. todos' \in [Todos -> TodoRows \cup {NoRow, Gone}]
  BY <1>1 DEF TypeOK
<1>3. todos'[t] = row /\ \A u \in Todos : u # t => todos'[u] = todos[u]
  BY <1>1 DEF TypeOK
<1>4. row # Gone
  BY EmptyFact
<1>5. QED BY <1>2, <1>3, <1>4 DEF TodoCommandForm, TodoStep, WriteTodo

LEMMA TodoCreateForm ==
    ASSUME TypeOK, NEW t \in Todos, NEW anchor \in Anchors, NEW status \in TodoStatuses,
           todo_create(t, anchor, status)
    PROVE  TodoCommandForm(t)
<1> DEFINE row == [status |-> status, anchor |-> anchor, deleted |-> FALSE]
<1>1. row \in TodoRows /\ row.anchor = anchor
  BY DEF TodoRows
<1>2. WriteTodo(t, row) /\ todos[t] = NoRow /\ ValidAnchor(anchor)
  BY DEF todo_create
<1>3. Free(anchor)
  BY <1>2, FreeFact DEF EscalationAnchors
<1> HIDE DEF row
<1>4. QED BY <1>1, <1>2, <1>3, WriteTodoForm

LEMMA TodoStatusForm ==
    ASSUME TypeOK, NEW t \in Todos, NEW status \in TodoStatuses,
           FoundTodo(t), TodoOpen(t), WriteTodo(t, [todos[t] EXCEPT !.status = status]),
           todos[t].status \notin Active => status \notin Active
    PROVE  TodoCommandForm(t)
<1> DEFINE row == [todos[t] EXCEPT !.status = status]
<1>1. todos[t] \in TodoRows
  BY TodoFact
<1>2. row \in TodoRows /\ row.anchor = todos[t].anchor /\ row.status = status
  BY <1>1 DEF TodoRows
<1>3. Free(row.anchor)
  BY <1>2, TodoFact, FreeFact DEF TodoOpen, EscalationAnchors
<1> HIDE DEF row
<1>4. WriteTodo(t, row)
  BY DEF row
<1>5. QED BY <1>2, <1>3, <1>4, WriteTodoForm

LEMMA TodoReanchorForm ==
    ASSUME TypeOK, NEW t \in Todos, NEW anchor \in Anchors, todo_reanchor(t, anchor)
    PROVE  TodoCommandForm(t)
<1> DEFINE row == [todos[t] EXCEPT !.anchor = anchor]
<1>1. todos[t] \in TodoRows
  BY TodoFact DEF todo_reanchor
<1>2. row \in TodoRows /\ row.anchor = anchor /\ row.status = todos[t].status
  BY <1>1 DEF TodoRows
<1>3. WriteTodo(t, row) /\ FoundTodo(t) /\ TodoOpen(t) /\ ValidAnchor(anchor)
  BY DEF todo_reanchor
<1>4. Free(anchor)
  BY <1>3, FreeFact DEF EscalationAnchors
<1> HIDE DEF row
<1>5. QED BY <1>2, <1>3, <1>4, WriteTodoForm

LEMMA TodoDeleteForm ==
    ASSUME TypeOK, NEW t \in Todos, NEW hard \in BOOLEAN, todo_delete(t, hard)
    PROVE  TodoCommandForm(t)
<1>1. CASE hard
  <2>1. todos' = [todos EXCEPT ![t] = Gone]
    BY <1>1 DEF todo_delete
  <2>2. todos' \in [Todos -> TodoRows \cup {NoRow, Gone}]
    BY <2>1 DEF TypeOK
  <2>3. todos'[t] = Gone /\ \A u \in Todos : u # t => todos'[u] = todos[u]
    BY <2>1 DEF TypeOK
  <2>4. QED BY <1>1, <2>2, <2>3 DEF todo_delete, TodoCommandForm, TodoStep
<1>2. CASE ~hard
  <2> DEFINE row == [todos[t] EXCEPT !.deleted = TRUE]
  <2>1. todos[t] \in TodoRows
    BY TodoFact DEF todo_delete
  <2>2. row \in TodoRows /\ row.anchor = todos[t].anchor /\ row.status = todos[t].status
    BY <2>1 DEF TodoRows
  <2>3. WriteTodo(t, row) /\ FoundTodo(t) /\ TodoOpen(t)
    BY <1>2 DEF todo_delete, WriteTodo
  <2>4. Free(row.anchor)
    BY <2>2, <2>3, TodoFact, FreeFact DEF TodoOpen, EscalationAnchors
  <2> HIDE DEF row
  <2>5. QED BY <2>2, <2>3, <2>4, WriteTodoForm
<1>3. QED BY <1>1, <1>2

LEMMA TodoCommandsForm ==
    ASSUME TypeOK, TodoCommands
    PROVE  \E t \in Todos : TodoCommandForm(t)
<1>1. PICK t \in Todos :
         \/ \E anchor \in Anchors, status \in TodoStatuses : todo_create(t, anchor, status)
         \/ \E anchor \in Anchors : todo_reanchor(t, anchor)
         \/ \E status \in UpdateInputs : todo_update(t, status)
         \/ todo_resolve(t) \/ todo_close(t)
         \/ \E hard \in BOOLEAN : todo_delete(t, hard)
  BY DEF TodoCommands
<1>2. CASE \E status \in UpdateInputs : todo_update(t, status)
  BY <1>2, TodoStatusForm, HandledAssumption DEF todo_update, LegalTargets
<1>3. CASE todo_resolve(t) \/ todo_close(t)
  BY <1>3, TodoStatusForm DEF todo_resolve, todo_close, TodoStatuses, Active
<1>4. QED
  BY <1>1, <1>2, <1>3, TodoCreateForm, TodoReanchorForm, TodoDeleteForm

\* A link command: the links between items that exist, of plans that are open.
LinkCommandForm ==
    /\ links' \subseteq [from : Todos, to : Todos, type : LinkTypes]
    /\ \A l \in links' \ links : Exists(todos, l.from) /\ Exists(todos, l.to)
    /\ \A l \in (links' \ links) \cup (links \ links') :
        TodoOpen(l.from) /\ TodoOpen(l.to)
    /\ UNCHANGED <<todos, attempts, reviews, escalations, completed>>

LEMMA LinkCommandsForm ==
    ASSUME TypeOK, LinkCommands
    PROVE  LinkCommandForm
<1>1. PICK l \in [from : Todos, to : Todos, type : LinkTypes] :
         todo_link_add(l) \/ todo_link_remove(l)
  BY DEF LinkCommands
<1>2. CASE todo_link_add(l)
  BY <1>2 DEF todo_link_add, LinkCommandForm, TypeOK
<1>3. CASE todo_link_remove(l)
  BY <1>3 DEF todo_link_remove, LinkCommandForm, TypeOK
<1>4. QED BY <1>1, <1>2, <1>3

\* How a record that may be superseded goes through a command.
AttemptStep(a) ==
    /\ attempts'[a] \in AttemptRows
    /\ attempts[a] = NoRow => attempts'[a].superseded = Null
    /\ attempts[a] # NoRow =>
        \/ attempts'[a].superseded = attempts[a].superseded
        \/ /\ attempts[a].superseded = Null
           /\ StepOf[attempts'[a].superseded] = StepOf[a]

ReviewStep(r) ==
    /\ reviews'[r] \in ReviewRows
    /\ reviews[r] = NoRow => reviews'[r].superseded = Null
    /\ reviews[r] # NoRow =>
        \/ reviews'[r].superseded = reviews[r].superseded
        \/ /\ reviews[r].superseded = Null
           /\ StepOf[ReviewOf[reviews'[r].superseded]] = StepOf[ReviewOf[r]]

AttemptCommandForm(a) ==
    /\ ~completed
    /\ AttemptStep(a)
    /\ \A b \in Attempts : b # a => attempts'[b] = attempts[b]
    /\ attempts' \in [Attempts -> AttemptRows \cup {NoRow}]
    /\ UNCHANGED <<todos, links, reviews, escalations, completed>>

ReviewCommandForm(r) ==
    /\ ReviewStep(r)
    /\ \A s \in Reviews : s # r => reviews'[s] = reviews[s]
    /\ reviews' \in [Reviews -> ReviewRows \cup {NoRow}]
    /\ UNCHANGED <<todos, links, attempts, escalations, completed>>

LEMMA WriteAttemptForm ==
    ASSUME TypeOK, NEW a \in Attempts, NEW row \in AttemptRows, WriteAttempt(a, row),
           ~completed,
           attempts[a] = NoRow => row.superseded = Null,
           attempts[a] # NoRow =>
               \/ row.superseded = attempts[a].superseded
               \/ attempts[a].superseded = Null /\ StepOf[row.superseded] = StepOf[a]
    PROVE  AttemptCommandForm(a)
BY DEF WriteAttempt, AttemptCommandForm, AttemptStep, TypeOK

LEMMA WriteReviewForm ==
    ASSUME TypeOK, NEW r \in Reviews, NEW row \in ReviewRows, WriteReview(r, row),
           reviews[r] = NoRow => row.superseded = Null,
           reviews[r] # NoRow =>
               \/ row.superseded = reviews[r].superseded
               \/ /\ reviews[r].superseded = Null
                  /\ StepOf[ReviewOf[row.superseded]] = StepOf[ReviewOf[r]]
    PROVE  ReviewCommandForm(r)
BY DEF WriteReview, ReviewCommandForm, ReviewStep, TypeOK

LEMMA AttemptCommandsForm ==
    ASSUME TypeOK, AttemptCommands
    PROVE  \E a \in Attempts : AttemptCommandForm(a)
<1>1. PICK a \in Attempts :
         \/ \E by \in People, status \in AttemptInputs :
             execution_attempt_create(a, by, status)
         \/ \E status \in AttemptInputs : execution_attempt_report(a, status)
         \/ \E by \in Attempts : execution_attempt_supersede(a, by)
  BY DEF AttemptCommands
<1>2. CASE \E by \in People, status \in AttemptInputs :
             execution_attempt_create(a, by, status)
  <2>1. PICK by \in People, status \in AttemptInputs :
           execution_attempt_create(a, by, status)
    BY <1>2
  <2> DEFINE row == [by |-> by, status |-> status, superseded |-> Null]
  <2>2. row \in AttemptRows /\ row.superseded = Null
    BY DEF AttemptRows
  <2>3. attempts[a] = NoRow /\ ~completed /\ WriteAttempt(a, row)
    BY <2>1 DEF execution_attempt_create
  <2> HIDE DEF row
  <2>4. QED BY <2>2, <2>3, WriteAttemptForm
<1>3. CASE \E status \in AttemptInputs : execution_attempt_report(a, status)
  <2>1. PICK status \in AttemptInputs : execution_attempt_report(a, status)
    BY <1>3
  <2> DEFINE row == [attempts[a] EXCEPT !.status = status]
  <2>2. attempts[a] \in AttemptRows
    BY <2>1 DEF execution_attempt_report, TypeOK, Exists
  <2>3. row \in AttemptRows /\ row.superseded = attempts[a].superseded
    BY <2>2 DEF AttemptRows
  <2>4. attempts[a] # NoRow /\ ~completed /\ WriteAttempt(a, row)
    BY <2>1 DEF execution_attempt_report, Exists
  <2> HIDE DEF row
  <2>5. QED BY <2>3, <2>4, WriteAttemptForm
<1>4. CASE \E by \in Attempts : execution_attempt_supersede(a, by)
  <2>1. PICK by \in Attempts : execution_attempt_supersede(a, by)
    BY <1>4
  <2> DEFINE row == [attempts[a] EXCEPT !.superseded = by]
  <2>2. attempts[a] \in AttemptRows
    BY <2>1 DEF execution_attempt_supersede, TypeOK, Exists
  <2>3. row \in AttemptRows /\ row.superseded = by
    BY <2>2 DEF AttemptRows
  <2>4. /\ attempts[a] # NoRow /\ ~completed /\ WriteAttempt(a, row)
        /\ attempts[a].superseded \in {Null, by} /\ StepOf[by] = StepOf[a]
    BY <2>1 DEF execution_attempt_supersede, Exists, Supersedable
  <2> HIDE DEF row
  <2>5. QED BY <2>3, <2>4, WriteAttemptForm
<1>5. QED BY <1>1, <1>2, <1>3, <1>4

LEMMA ReviewCommandsForm ==
    ASSUME TypeOK, ReviewCommands
    PROVE  \E r \in Reviews : ReviewCommandForm(r)
<1>1. PICK r \in Reviews :
         \/ \E reviewer \in People : review_result_create(r, reviewer)
         \/ \E by \in Reviews : review_result_supersede(r, by)
  BY DEF ReviewCommands
<1>2. CASE \E reviewer \in People : review_result_create(r, reviewer)
  <2>1. PICK reviewer \in People : review_result_create(r, reviewer)
    BY <1>2
  <2> DEFINE row == [by |-> reviewer, superseded |-> Null]
  <2>2. row \in ReviewRows /\ row.superseded = Null
    BY DEF ReviewRows
  <2>3. reviews[r] = NoRow /\ WriteReview(r, row)
    BY <2>1 DEF review_result_create
  <2> HIDE DEF row
  <2>4. QED BY <2>2, <2>3, WriteReviewForm
<1>3. CASE \E by \in Reviews : review_result_supersede(r, by)
  <2>1. PICK by \in Reviews : review_result_supersede(r, by)
    BY <1>3
  <2> DEFINE row == [reviews[r] EXCEPT !.superseded = by]
  <2>2. reviews[r] \in ReviewRows
    BY <2>1 DEF review_result_supersede, TypeOK, Exists
  <2>3. row \in ReviewRows /\ row.superseded = by
    BY <2>2 DEF ReviewRows
  <2>4. /\ reviews[r] # NoRow /\ WriteReview(r, row)
        /\ reviews[r].superseded \in {Null, by}
        /\ StepOf[ReviewOf[by]] = StepOf[ReviewOf[r]]
    BY <2>1 DEF review_result_supersede, Exists, Supersedable
  <2> HIDE DEF row
  <2>5. QED BY <2>3, <2>4, WriteReviewForm
<1>4. QED BY <1>1, <1>2, <1>3

\* An escalation command: one record, of a plan that is open, and not anchored
\* at a completed one.
EscalationCommandForm(e) ==
    /\ escalations'[e] \in EscalationRows
    /\ Free(escalations'[e].anchor)
    /\ Exists(escalations, e) => Open(escalations[e].anchor)
    /\ \A d \in Escalations : d # e => escalations'[d] = escalations[d]
    /\ escalations' \in [Escalations -> EscalationRows \cup {NoRow}]
    /\ UNCHANGED <<todos, links, attempts, reviews, completed>>

LEMMA WriteEscalationForm ==
    ASSUME TypeOK, NEW e \in Escalations, NEW row \in EscalationRows,
           WriteEscalation(e, row), Free(row.anchor),
           Exists(escalations, e) => Open(escalations[e].anchor)
    PROVE  EscalationCommandForm(e)
BY DEF WriteEscalation, EscalationCommandForm, TypeOK

LEMMA EscalationCommandsForm ==
    ASSUME TypeOK, EscalationCommands
    PROVE  \E e \in Escalations : EscalationCommandForm(e)
<1>1. PICK e \in Escalations :
         \/ \E anchor \in EscalationAnchors :
             escalation_create(e, anchor) \/ escalation_reanchor(e, anchor)
         \/ escalation_resolve(e)
  BY DEF EscalationCommands
<1>2. Exists(escalations, e) =>
          /\ escalations[e] \in EscalationRows
          /\ escalations[e].anchor \in EscalationAnchors
  BY DEF TypeOK, Exists, EscalationRows
<1>3. ASSUME NEW anchor \in EscalationAnchors, escalation_create(e, anchor)
      PROVE  EscalationCommandForm(e)
  <2> DEFINE row == [status |-> "open", anchor |-> anchor]
  <2>1. row \in EscalationRows /\ row.anchor = anchor
    BY DEF EscalationRows
  <2>2. ~Exists(escalations, e) /\ Free(anchor) /\ WriteEscalation(e, row)
    BY <1>3, FreeFact DEF escalation_create, Exists
  <2> HIDE DEF row
  <2>3. QED BY <2>1, <2>2, WriteEscalationForm
<1>4. ASSUME NEW anchor \in EscalationAnchors, escalation_reanchor(e, anchor)
      PROVE  EscalationCommandForm(e)
  <2> DEFINE stored == OwnerForm(anchor)
             row == [escalations[e] EXCEPT !.anchor = stored]
  <2>1. Exists(escalations, e)
    BY <1>4 DEF escalation_reanchor
  <2>2. stored \in EscalationAnchors /\ stored.type = anchor.type
    BY DEF OwnerForm, EscalationAnchors, Anchors
  <2>3. row \in EscalationRows /\ row.anchor = stored
    BY <1>2, <2>1, <2>2 DEF EscalationRows
  <2>4. Open(escalations[e].anchor) /\ WriteEscalation(e, row)
    BY <1>4 DEF escalation_reanchor
  <2>5. Free(stored)
    BY <1>4, <2>2, FreeFact DEF escalation_reanchor, Free
  <2> HIDE DEF row, stored
  <2>6. QED BY <2>3, <2>4, <2>5, WriteEscalationForm
<1>5. CASE escalation_resolve(e)
  <2> DEFINE row == [escalations[e] EXCEPT !.status = "resolved"]
  <2>1. Exists(escalations, e)
    BY <1>5 DEF escalation_resolve
  <2>2. row \in EscalationRows /\ row.anchor = escalations[e].anchor
    BY <1>2, <2>1 DEF EscalationRows
  <2>3. Open(escalations[e].anchor) /\ WriteEscalation(e, row)
    BY <1>5 DEF escalation_resolve
  <2>4. Free(row.anchor)
    BY <1>2, <2>1, <2>2, <2>3, FreeFact
  <2> HIDE DEF row
  <2>5. QED BY <2>2, <2>3, <2>4, WriteEscalationForm
<1>6. QED BY <1>1, <1>3, <1>4, <1>5

\* Every step is of one of these forms.
StepForm ==
    \/ \E t \in Todos : TodoCommandForm(t)
    \/ LinkCommandForm
    \/ \E a \in Attempts : AttemptCommandForm(a)
    \/ \E r \in Reviews : ReviewCommandForm(r)
    \/ \E e \in Escalations : EscalationCommandForm(e)
    \/ completed' \in BOOLEAN /\ UNCHANGED <<todos, links, attempts, reviews, escalations>>

LEMMA NextForm ==
    ASSUME TypeOK, [Next]_vars
    PROVE  StepForm
<1>1. CASE \E value \in BOOLEAN : plan_completed_set(value)
  BY <1>1 DEF plan_completed_set, StepForm
<1>2. CASE UNCHANGED vars
  BY <1>2 DEF vars, StepForm, TypeOK
<1>3. QED
  BY <1>1, <1>2, TodoCommandsForm, LinkCommandsForm, AttemptCommandsForm,
     ReviewCommandsForm, EscalationCommandsForm DEF Next, StepForm

----------------------------------------------------------------------------
(* The inductive invariant                                                 *)

LEMMA InitInv == Init => Inv
BY DEF Init, Inv, TypeOK, ReplacedAlike, Exists

LEMMA NextTyped ==
    ASSUME TypeOK, StepForm
    PROVE  TypeOK'
<1>1. ASSUME NEW t \in Todos, TodoCommandForm(t)
      PROVE  TypeOK'
  <2>1. ASSUME NEW l \in links' PROVE Exists(todos', l.from) /\ Exists(todos', l.to)
    <3>1. /\ l \in links /\ l.from \in Todos /\ l.to \in Todos
          /\ Exists(todos, l.from) /\ Exists(todos, l.to)
      BY <1>1 DEF TodoCommandForm, TypeOK
    <3>2. \A u \in Todos : u # t => todos'[u] = todos[u]
      BY <1>1 DEF TodoCommandForm
    <3>3. CASE links' = links /\ todos'[t] # Gone
      <4>1. Exists(todos, t) => Exists(todos', t)
        BY <1>1, <3>3, EmptyFact DEF TodoCommandForm, TodoStep, Exists
      <4>2. QED BY <3>1, <3>2, <4>1 DEF Exists
    <3>4. CASE links' = {k \in links : t \notin {k.from, k.to}}
      BY <3>1, <3>2, <3>4 DEF Exists
    <3>5. QED BY <1>1, <3>3, <3>4 DEF TodoCommandForm
  <2>2. links' \subseteq links
    BY <1>1 DEF TodoCommandForm
  <2>3. QED BY <1>1, <2>1, <2>2 DEF TodoCommandForm, TypeOK, Exists
<1>2. CASE LinkCommandForm
  BY <1>2 DEF LinkCommandForm, TypeOK, Exists
<1>3. ASSUME NEW a \in Attempts, AttemptCommandForm(a)
      PROVE  TypeOK'
  BY <1>3 DEF AttemptCommandForm, TypeOK, Exists
<1>4. ASSUME NEW r \in Reviews, ReviewCommandForm(r)
      PROVE  TypeOK'
  BY <1>4 DEF ReviewCommandForm, TypeOK, Exists
<1>5. ASSUME NEW e \in Escalations, EscalationCommandForm(e)
      PROVE  TypeOK'
  BY <1>5 DEF EscalationCommandForm, TypeOK, Exists
<1>6. CASE completed' \in BOOLEAN /\ UNCHANGED <<todos, links, attempts, reviews, escalations>>
  BY <1>6 DEF TypeOK, Exists
<1>7. QED BY <1>1, <1>2, <1>3, <1>4, <1>5, <1>6 DEF StepForm

LEMMA NextAlike ==
    ASSUME TypeOK, ReplacedAlike, StepForm
    PROVE  ReplacedAlike'
<1>1. ASSUME NEW a \in Attempts, AttemptCommandForm(a)
      PROVE  ReplacedAlike'
  <2>1. ASSUME NEW b \in Attempts, Exists(attempts', b), attempts'[b].superseded # Null
        PROVE  StepOf[attempts'[b].superseded] = StepOf[b]
    <3>1. CASE b # a
      BY <1>1, <2>1, <3>1 DEF AttemptCommandForm, ReplacedAlike, Exists
    <3>2. CASE b = a
      <4>1. AttemptStep(a) /\ Gone \notin AttemptRows /\ attempts[a] \in AttemptRows \cup {NoRow}
        BY <1>1, EmptyFact DEF AttemptCommandForm, TypeOK
      <4>2. CASE attempts[a] = NoRow
        BY <2>1, <3>2, <4>1, <4>2 DEF AttemptStep
      <4>3. CASE attempts[a] # NoRow
        BY <2>1, <3>2, <4>1, <4>3 DEF AttemptStep, ReplacedAlike, Exists
      <4>4. QED BY <4>2, <4>3
    <3>3. QED BY <3>1, <3>2
  <2>2. QED BY <1>1, <2>1 DEF AttemptCommandForm, ReplacedAlike, Exists
<1>2. ASSUME NEW r \in Reviews, ReviewCommandForm(r)
      PROVE  ReplacedAlike'
  <2>1. ASSUME NEW s \in Reviews, Exists(reviews', s), reviews'[s].superseded # Null
        PROVE  StepOf[ReviewOf[reviews'[s].superseded]] = StepOf[ReviewOf[s]]
    <3>1. CASE s # r
      BY <1>2, <2>1, <3>1 DEF ReviewCommandForm, ReplacedAlike, Exists
    <3>2. CASE s = r
      <4>1. ReviewStep(r) /\ Gone \notin ReviewRows /\ reviews[r] \in ReviewRows \cup {NoRow}
        BY <1>2, EmptyFact DEF ReviewCommandForm, TypeOK
      <4>2. CASE reviews[r] = NoRow
        BY <2>1, <3>2, <4>1, <4>2 DEF ReviewStep
      <4>3. CASE reviews[r] # NoRow
        BY <2>1, <3>2, <4>1, <4>3 DEF ReviewStep, ReplacedAlike, Exists
      <4>4. QED BY <4>2, <4>3
    <3>3. QED BY <3>1, <3>2
  <2>2. QED BY <1>2, <2>1 DEF ReviewCommandForm, ReplacedAlike, Exists
<1>3. UNCHANGED <<attempts, reviews>> => ReplacedAlike'
  BY DEF ReplacedAlike, Exists
<1>4. QED
  BY <1>1, <1>2, <1>3 DEF StepForm, TodoCommandForm, LinkCommandForm, EscalationCommandForm

LEMMA NextInv == Inv /\ [Next]_vars => Inv'
BY NextForm, NextTyped, NextAlike DEF Inv

LEMMA InvHolds == Spec => []Inv
BY InitInv, NextInv, PTL DEF Spec

----------------------------------------------------------------------------
(* Blocking links                                                          *)

LinkRows == [from : Todos, to : Todos, type : LinkTypes]

\* BlockingAcyclic, of any set of links.
Ordered(set) ==
    \A items \in (SUBSET Todos) \ {{}} :
        \E t \in items : \A u \in items : ~Blocker(set, t, u)

LEMMA FewerLinksOrdered ==
    ASSUME NEW set, NEW fewer \in SUBSET set, Ordered(set)
    PROVE  Ordered(fewer)
BY DEF Ordered, Blocker

\* The edges of the walk are the blockers of the property.
LEMMA BlockerIsEdge ==
    ASSUME NEW set \in SUBSET LinkRows, NEW t \in Todos, NEW u \in Todos,
           Blocker(set, t, u)
    PROVE  <<u, t>> \in BlockingEdges(set)
<1>1. CASE [from |-> u, to |-> t, type |-> "blocks"] \in set
  <2> DEFINE l == [from |-> u, to |-> t, type |-> "blocks"]
  <2>1. Blocks(l) = <<u, t>>
    BY DEF Blocks
  <2>2. QED BY <1>1, <2>1 DEF BlockingEdges
<1>2. CASE [from |-> t, to |-> u, type |-> "blocked_by"] \in set
  <2> DEFINE l == [from |-> t, to |-> u, type |-> "blocked_by"]
  <2>1. Blocks(l) = <<u, t>>
    BY DEF Blocks
  <2>2. QED BY <1>2, <2>1 DEF BlockingEdges
<1>3. QED BY <1>1, <1>2 DEF Blocker

\* The walk from t visits t, and all that an edge leads to from where it is.
LEMMA VisitedIsClosed ==
    ASSUME NEW edges, NEW t \in Todos
    PROVE  /\ t \in Visited(edges, t)
           /\ \A a, b \in Todos :
                 a \in Visited(edges, t) /\ <<a, b>> \in edges => b \in Visited(edges, t)
<1>1. t \in Visited(edges, t)
  BY DEF Visited
<1>2. ASSUME NEW a \in Todos, NEW b \in Todos,
             a \in Visited(edges, t), <<a, b>> \in edges
      PROVE  b \in Visited(edges, t)
  <2>1. ASSUME NEW set \in SUBSET Todos, t \in set,
               \A e \in edges : e[1] \in set => e[2] \in set
        PROVE  b \in set
    <3>1. a \in set
      BY <1>2, <2>1 DEF Visited
    <3>2. <<a, b>>[1] \in set => <<a, b>>[2] \in set
      BY <1>2, <2>1
    <3>3. QED BY <3>1, <3>2
  <2>2. QED BY <2>1 DEF Visited
<1>3. QED BY <1>1, <1>2

\* One more link: were there items each with a blocker among them, then so
\* were those of them that the walk from the end of the new edge does not
\* visit, or, if it visits all, all of them: the start of the new edge is not
\* visited, so the new edge blocks none of either.
LEMMA NewLinkOrdered ==
    ASSUME links \subseteq LinkRows, NEW l \in LinkRows, Ordered(links),
           l.type \in {"blocks", "blocked_by"} => ~HasCycle(BlockingEdges(links \cup {l}))
    PROVE  Ordered(links \cup {l})
<1> DEFINE new == links \cup {l}
<1>1. CASE l.type \notin {"blocks", "blocked_by"}
  <2>1. \A t, u \in Todos : Blocker(new, t, u) => Blocker(links, t, u)
    BY <1>1 DEF Blocker
  <2>2. QED BY <2>1 DEF Ordered
<1>2. CASE l.type \in {"blocks", "blocked_by"}
  <2>1. PICK a \in Todos, b \in Todos : Blocks(l) = <<a, b>>
    BY DEF LinkRows, Blocks
  <2> DEFINE behind == Visited(BlockingEdges(new), b)
  <2>2. <<a, b>> \in BlockingEdges(new)
    BY <1>2, <2>1 DEF BlockingEdges
  <2>3. a \notin behind
    <3>1. <<a, b>>[1] \notin Visited(BlockingEdges(new), <<a, b>>[2])
      BY <1>2, <2>2 DEF HasCycle
    <3>2. QED BY <3>1
  <2>4. ASSUME NEW t \in Todos, NEW u \in Todos, Blocker(new, t, u), u # a \/ t # b
        PROVE  Blocker(links, t, u)
    BY <1>2, <2>1, <2>4 DEF Blocker, Blocks, LinkRows
  <2>5. new \in SUBSET LinkRows
    OBVIOUS
  <2>6. /\ b \in behind
        /\ \A t, u \in Todos : u \in behind /\ Blocker(new, t, u) => t \in behind
    BY <2>5, VisitedIsClosed, BlockerIsEdge
  <2> HIDE DEF behind, new
  <2>7. ASSUME NEW items \in SUBSET Todos, items # {},
               \A t \in items : \E u \in items : Blocker(new, t, u)
        PROVE  FALSE
    <3> DEFINE rest == IF items \subseteq behind THEN items ELSE items \ behind
    <3>1. rest \in SUBSET Todos /\ rest # {}
      <4>1. CASE items \subseteq behind
        BY <2>7, <4>1
      <4>2. CASE ~(items \subseteq behind)
        BY <4>2
      <4>3. QED BY <4>1, <4>2
    <3>2. ASSUME NEW t \in rest PROVE \E u \in rest : Blocker(links, t, u)
      <4>1. PICK u \in items : Blocker(new, t, u)
        BY <2>7, <3>2
      <4>2. u \in rest /\ (u # a \/ t # b)
        BY <2>3, <2>6, <2>7, <3>2, <4>1
      <4>3. QED BY <2>4, <2>7, <3>2, <4>1, <4>2
    <3> HIDE DEF rest
    <3>3. QED BY <3>1, <3>2 DEF Ordered
  <2>8. QED BY <2>7 DEF Ordered, new
<1>3. QED BY <1>1, <1>2

LEMMA LinkCommandsOrdered ==
    ASSUME TypeOK, LinkCommands, Ordered(links)
    PROVE  Ordered(links')
<1>1. PICK l \in LinkRows : todo_link_add(l) \/ todo_link_remove(l)
  BY DEF LinkCommands, LinkRows
<1>2. CASE todo_link_add(l)
  <2>1. links \subseteq LinkRows
    BY DEF TypeOK, LinkRows
  <2>2. QED BY <1>2, <2>1, NewLinkOrdered DEF todo_link_add
<1>3. CASE todo_link_remove(l)
  BY <1>3, FewerLinksOrdered DEF todo_link_remove
<1>4. QED BY <1>1, <1>2, <1>3

LEMMA NextOrdered ==
    ASSUME Inv, BlockingAcyclic, [Next]_vars
    PROVE  BlockingAcyclic'
<1>1. TypeOK /\ Ordered(links)
  BY DEF Inv, BlockingAcyclic, Ordered
<1>2. CASE TodoCommands
  <2>1. links' \subseteq links
    BY <1>1, <1>2, TodoCommandsForm DEF TodoCommandForm
  <2>2. QED BY <1>1, <2>1, FewerLinksOrdered DEF BlockingAcyclic, Ordered
<1>3. CASE LinkCommands
  BY <1>1, <1>3, LinkCommandsOrdered DEF BlockingAcyclic, Ordered
<1>4. CASE links' = links
  BY <1>1, <1>4 DEF BlockingAcyclic, Ordered
<1>5. QED
  BY <1>1, <1>2, <1>3, <1>4, AttemptCommandsForm, ReviewCommandsForm,
     EscalationCommandsForm
     DEF Next, vars, AttemptCommandForm, ReviewCommandForm, EscalationCommandForm,
         plan_completed_set

----------------------------------------------------------------------------
(* The theorems                                                            *)

\* The type invariant: the records are of their kinds, and a link has both of
\* its todo items.
THEOREM Typed == Spec => []TypeOK
<1>1. Inv => TypeOK
  BY DEF Inv
<1>2. QED BY <1>1, InvHolds, PTL

\* Work on linked todo items can always be ordered, however many there are:
\* todo_link_add refuses the link that would close a circle, and no command
\* adds another.
THEOREM WorkCanBeOrdered == Spec => []BlockingAcyclic
<1>1. Init => BlockingAcyclic
  BY DEF Init, BlockingAcyclic, Blocker
<1>2. Inv /\ BlockingAcyclic /\ [Next]_vars => BlockingAcyclic'
  BY NextOrdered
<1>3. QED BY <1>1, <1>2, InvHolds, PTL DEF Spec

LEMMA FinishedStep ==
    ASSUME Inv, [Next]_vars, NEW t \in Todos,
           FoundTodo(t), todos[t].status \notin Active, Exists(todos', t)
    PROVE  todos'[t].status \notin Active
<1>1. StepForm
  BY NextForm DEF Inv
<1>2. todos[t] # NoRow /\ todos'[t] # Gone
  BY DEF FoundTodo, Exists
<1>3. CASE \E u \in Todos : TodoCommandForm(u)
  <2>1. PICK u \in Todos : TodoCommandForm(u)
    BY <1>3
  <2>2. QED BY <1>2, <2>1 DEF TodoCommandForm, TodoStep
<1>4. CASE todos' = todos
  BY <1>4
<1>5. QED
  BY <1>1, <1>3, <1>4 DEF StepForm, LinkCommandForm, AttemptCommandForm,
     ReviewCommandForm, EscalationCommandForm

\* A todo item that is resolved, closed or cancelled never comes back to the
\* work queue, by whichever command it is written.
THEOREM FinishedTodosStay == Spec => FinishedStays
<1>1. Inv /\ [Next]_vars =>
        [\A t \in Todos :
            FoundTodo(t) /\ todos[t].status \notin Active /\ Exists(todos', t) =>
                todos'[t].status \notin Active]_vars
  BY FinishedStep
<1>2. QED BY <1>1, InvHolds, PTL DEF Spec, FinishedStays

LEMMA AttemptPointerStep ==
    ASSUME Inv, [Next]_vars, NEW a \in Attempts,
           Exists(attempts, a), attempts[a].superseded # Null
    PROVE  /\ attempts'[a].superseded = attempts[a].superseded
           /\ StepOf[attempts[a].superseded] = StepOf[a]
<1>1. StepForm /\ ReplacedAlike
  BY NextForm DEF Inv
<1>2. attempts[a] # NoRow
  BY DEF Exists
<1>3. ASSUME NEW b \in Attempts, AttemptCommandForm(b)
      PROVE  attempts'[a].superseded = attempts[a].superseded
  BY <1>2, <1>3 DEF AttemptCommandForm, AttemptStep
<1>4. attempts'[a].superseded = attempts[a].superseded
  BY <1>1, <1>3 DEF StepForm, TodoCommandForm, LinkCommandForm, ReviewCommandForm,
     EscalationCommandForm
<1>5. QED BY <1>1, <1>4 DEF ReplacedAlike

LEMMA ReviewPointerStep ==
    ASSUME Inv, [Next]_vars, NEW r \in Reviews,
           Exists(reviews, r), reviews[r].superseded # Null
    PROVE  /\ reviews'[r].superseded = reviews[r].superseded
           /\ StepOf[ReviewOf[reviews[r].superseded]] = StepOf[ReviewOf[r]]
<1>1. StepForm /\ ReplacedAlike
  BY NextForm DEF Inv
<1>2. reviews[r] # NoRow
  BY DEF Exists
<1>3. ASSUME NEW s \in Reviews, ReviewCommandForm(s)
      PROVE  reviews'[r].superseded = reviews[r].superseded
  BY <1>2, <1>3 DEF ReviewCommandForm, ReviewStep
<1>4. reviews'[r].superseded = reviews[r].superseded
  BY <1>1, <1>3 DEF StepForm, TodoCommandForm, LinkCommandForm, AttemptCommandForm,
     EscalationCommandForm
<1>5. QED BY <1>1, <1>4 DEF ReplacedAlike

\* The pointer from a superseded attempt or review to what replaced it is
\* written once, and stays within the records of one step.
THEOREM PointersAreKept == Spec => SupersededOnce
<1>1. Inv /\ [Next]_vars =>
        [/\ \A a \in Attempts :
             Exists(attempts, a) /\ attempts[a].superseded # Null =>
                 /\ attempts'[a].superseded = attempts[a].superseded
                 /\ StepOf[attempts[a].superseded] = StepOf[a]
         /\ \A r \in Reviews :
             Exists(reviews, r) /\ reviews[r].superseded # Null =>
                 /\ reviews'[r].superseded = reviews[r].superseded
                 /\ StepOf[ReviewOf[reviews[r].superseded]] = StepOf[ReviewOf[r]]]_vars
  BY AttemptPointerStep, ReviewPointerStep
<1>2. QED BY <1>1, InvHolds, PTL DEF Spec, SupersededOnce

\* What PlanWorkHolds says of one step.
WorkHeld ==
    /\ \A t \in PlanTodos : todos'[t] = todos[t]
    /\ \A t \in PlanTodos' \ PlanTodos : todos'[t].anchor.type # "plan"
    /\ \A l \in links' \ links : {l.from, l.to} \cap PlanTodos = {}
    /\ \A l \in links \ links' :
        {l.from, l.to} \cap PlanTodos # {} =>
            \E t \in {l.from, l.to} : todos'[t] = Gone
    /\ attempts' = attempts
    /\ \A e \in PlanEscalations : escalations'[e] = escalations[e]
    /\ \A e \in PlanEscalations' \ PlanEscalations :
        escalations'[e].anchor.type # "plan"

LEMMA WorkHeldStep ==
    ASSUME Inv, [Next]_vars, completed, completed'
    PROVE  WorkHeld
<1>1. StepForm
  BY NextForm DEF Inv
<1>2. ASSUME NEW t \in Todos, TodoOpen(t)
      PROVE  t \notin PlanTodos
  BY <1>2 DEF TodoOpen, PlanTodos, Open
<1>3. todos' = todos => PlanTodos' = PlanTodos /\ \A t \in PlanTodos : todos'[t] = todos[t]
  BY DEF PlanTodos, FoundTodo, Exists
<1>4. escalations' = escalations =>
        /\ PlanEscalations' = PlanEscalations
        /\ \A e \in PlanEscalations : escalations'[e] = escalations[e]
  BY DEF PlanEscalations, Exists
<1>5. ASSUME NEW t \in Todos, TodoCommandForm(t)
      PROVE  WorkHeld
  <2>1. \A u \in Todos : u # t => todos'[u] = todos[u]
    BY <1>5 DEF TodoCommandForm
  <2>2. \/ todos'[t] = todos[t]
        \/ t \notin PlanTodos /\ (FoundTodo(t)' => todos'[t].anchor.type # "plan")
    BY <1>2, <1>5 DEF TodoCommandForm, TodoStep, PlanTodos, FoundTodo, Exists, Free
  <2>3. /\ \A u \in PlanTodos : todos'[u] = todos[u]
        /\ \A u \in PlanTodos' \ PlanTodos : todos'[u].anchor.type # "plan"
    BY <2>1, <2>2 DEF PlanTodos, FoundTodo, Exists
  <2>4. links' \subseteq links /\ \A l \in links \ links' : todos'[t] = Gone /\ t \in {l.from, l.to}
    BY <1>5 DEF TodoCommandForm
  <2>5. QED BY <1>4, <1>5, <2>3, <2>4 DEF TodoCommandForm, WorkHeld
<1>6. CASE LinkCommandForm
  <2>1. ASSUME NEW l \in (links' \ links) \cup (links \ links')
        PROVE  {l.from, l.to} \cap PlanTodos = {}
    <3>1. TodoOpen(l.from) /\ TodoOpen(l.to)
      BY <1>6 DEF LinkCommandForm
    <3>2. QED BY <1>2, <3>1 DEF PlanTodos
  <2>2. QED BY <1>3, <1>4, <1>6, <2>1 DEF LinkCommandForm, WorkHeld
<1>7. ASSUME NEW a \in Attempts, AttemptCommandForm(a)
      PROVE  WorkHeld
  BY <1>7 DEF AttemptCommandForm
<1>8. ASSUME NEW e \in Escalations, EscalationCommandForm(e)
      PROVE  WorkHeld
  <2>1. \A d \in Escalations : d # e => escalations'[d] = escalations[d]
    BY <1>8 DEF EscalationCommandForm
  <2>2. e \notin PlanEscalations /\ escalations'[e].anchor.type # "plan"
    BY <1>8 DEF EscalationCommandForm, PlanEscalations, Open, Free
  <2>3. /\ \A d \in PlanEscalations : escalations'[d] = escalations[d]
        /\ \A d \in PlanEscalations' \ PlanEscalations :
            escalations'[d].anchor.type # "plan"
    BY <2>1, <2>2 DEF PlanEscalations, Exists
  <2>4. QED BY <1>3, <1>8, <2>3 DEF EscalationCommandForm, WorkHeld
<1>9. CASE UNCHANGED <<todos, links, attempts, escalations>>
  BY <1>3, <1>4, <1>9 DEF WorkHeld
<1>10. QED
  BY <1>1, <1>5, <1>6, <1>7, <1>8, <1>9 DEF StepForm, ReviewCommandForm

\* While a plan is completed, no command on todo items, links, attempts or
\* escalations changes what is on it or takes it away; a link is lost only with
\* the item at its other end; and what comes to be on it is anchored neither at
\* the plan nor at a step.
THEOREM CompletedWorkHolds == Spec => PlanWorkHolds
<1>1. Inv /\ [Next]_vars => [completed /\ completed' => WorkHeld]_vars
  BY WorkHeldStep
<1>2. QED BY <1>1, InvHolds, PTL DEF Spec, PlanWorkHolds, WorkHeld
=============================================================================
