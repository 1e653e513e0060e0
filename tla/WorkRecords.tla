---------------------------- MODULE WorkRecords -----------------------------
(***************************************************************************)
(* The records of the work on a plan: todo items and the links between     *)
(* them, execution attempts, reviews of attempts and escalations           *)
(* (storage/todo_*_store.py, execution_attempt_store.py,                   *)
(* review_result_store.py, escalation_store.py, entity_*_store.py and the  *)
(* commands on them).  A command is one transaction, and they are taken    *)
(* one at a time.  There is one plan, and whether it or its steps are      *)
(* frozen, which refuses some moves, is left open.                         *)
(***************************************************************************)
EXTENDS Naturals, FiniteSets

CONSTANTS Todos, Attempts, Reviews, Escalations,   \* uuids
          StepOf,         \* attempt -> the step it is about
          ReviewOf,       \* review -> the attempt that is reviewed
          People,         \* created_by and reviewer
          Handled,        \* bound: the todos that change once created
          UpdateInputs,   \* bound: the statuses of todo_update
          LinkTypes,      \* bound: the link types that are used
          AttemptInputs,  \* bound: the statuses of attempts
          MaxLinks,       \* bound: live links at one time
          NoRow,          \* never inserted
          Gone,           \* removed
          Null

VARIABLES todos, links, attempts, reviews, escalations,
          completed       \* the completion flag of the plan

vars == <<todos, links, attempts, reviews, escalations, completed>>

ThePlan == "plan"

TodoStatuses == {"open", "in_progress", "blocked", "resolved", "closed", "cancelled"}

\* TODO_ACTIVE_STATUSES: what the work queue shows.
Active == {"open", "in_progress", "blocked"}

\* Primary anchors: the type, the column anchor_plan_uuid, and the todo item of
\* an anchor to one.  Type "plan" stands for plan and step, "other" for the
\* types that a completed plan is not asked for; those of the escalations name
\* an item too.
Anchors ==
    {[type |-> "plan", plan |-> ThePlan, todo |-> Null]}
    \cup [type : {"other"}, plan : {Null, ThePlan}, todo : {Null}]
EscalationAnchors == Anchors \cup [type : {"todo"}, plan : {Null, ThePlan}, todo : Todos]

TodoRows == [status : TodoStatuses, anchor : Anchors, deleted : BOOLEAN]
AttemptRows == [by : People, status : AttemptInputs, superseded : Attempts \cup {Null}]
ReviewRows == [by : People, superseded : Reviews \cup {Null}]
EscalationRows == [status : {"open", "resolved"}, anchor : EscalationAnchors]

ASSUME EmptyIsNoRow ==
    \A e \in {NoRow, Gone} :
        e \notin TodoRows \cup AttemptRows \cup ReviewRows \cup EscalationRows

ASSUME HandledAssumption == Handled \subseteq Todos /\ UpdateInputs \subseteq TodoStatuses

Exists(table, x) == table[x] \notin {NoRow, Gone}

\* get_todo: a soft-deleted item is not found.
FoundTodo(t) == Exists(todos, t) /\ ~todos[t].deleted

\* refuse_if_completed on the plan in a record's anchor_plan_uuid.
Open(anchor) == anchor.plan = ThePlan => ~completed

TodoOpen(t) == FoundTodo(t) => Open(todos[t].anchor)

WriteTodo(t, row) ==
    /\ todos' = [todos EXCEPT ![t] = row]
    /\ UNCHANGED <<links, attempts, reviews, escalations, completed>>

\* validate_anchor, for a new anchor: only the types plan and step are asked for
\* the plan's completion.  anchor_to_columns stores every column of any type.
ValidAnchor(anchor) ==
    /\ anchor.type = "plan" => ~completed
    /\ anchor.type = "todo" => Exists(todos, anchor.todo)

\* Bound of an instance: it works on todo items or on attempts, whose rows do
\* not refer to each other.
NoAttempts == \A a \in Attempts : attempts[a] = NoRow
NoTodos == \A t \in Todos : todos[t] = NoRow
-----------------------------------------------------------------------------
(* Todo items                                                              *)

\* An item may be created with any status.
todo_create(t, anchor, status) ==
    /\ todos[t] = NoRow /\ NoAttempts
    /\ anchor.plan = ThePlan \/ status # "open" => t \in Handled
    /\ ValidAnchor(anchor)
    /\ WriteTodo(t, [status |-> status, anchor |-> anchor, deleted |-> FALSE])

\* Mutant: the finished statuses are given targets.
AnyTargets(status) == {"in_progress", "blocked", "cancelled"} \ {status}

\* TODO_LEGAL_TRANSITIONS
LegalTargets(status) ==
    IF status \in Active THEN {"in_progress", "blocked", "cancelled"} \ {status}
                         ELSE {}

todo_update(t, status) ==
    /\ FoundTodo(t) /\ TodoOpen(t)
    /\ status \in LegalTargets(todos[t].status)
    /\ WriteTodo(t, [todos[t] EXCEPT !.status = status])

\* todo_resolve and todo_close take an item from any status.
todo_resolve(t) ==
    FoundTodo(t) /\ TodoOpen(t) /\ WriteTodo(t, [todos[t] EXCEPT !.status = "resolved"])

todo_close(t) ==
    FoundTodo(t) /\ TodoOpen(t) /\ WriteTodo(t, [todos[t] EXCEPT !.status = "closed"])

\* Mutant: only the plan that is moved to is asked.
ReanchorFromAnywhere(t, anchor) ==
    /\ FoundTodo(t)
    /\ ValidAnchor(anchor)
    /\ WriteTodo(t, [todos[t] EXCEPT !.anchor = anchor])

\* The plan that is left is asked, and the one that is moved to; the analysis
\* server may fail to confirm a project or file: then the anchor is none.
todo_reanchor(t, anchor) ==
    /\ FoundTodo(t) /\ TodoOpen(t)
    /\ ValidAnchor(anchor)
    /\ WriteTodo(t, [todos[t] EXCEPT !.anchor = anchor])

\* A live escalation anchored to the item keeps it; its links do not, and go
\* with the row (ON DELETE CASCADE).
todo_delete(t, hard) ==
    /\ FoundTodo(t) /\ TodoOpen(t)
    /\ \A e \in Escalations : Exists(escalations, e) => escalations[e].anchor.todo # t
    /\ IF hard
       THEN /\ todos' = [todos EXCEPT ![t] = Gone]
            /\ links' = {l \in links : t \notin {l.from, l.to}}
       ELSE /\ todos' = [todos EXCEPT ![t].deleted = TRUE]
            /\ UNCHANGED links
    /\ UNCHANGED <<attempts, reviews, escalations, completed>>
-----------------------------------------------------------------------------
(* Links between todo items.  links holds the live ones.                   *)

\* Mutant: blocked_by is read in the direction of its columns.
BlocksAsStored(l) == <<l.from, l.to>>

\* The edge from what blocks to what is blocked.
Blocks(l) == IF l.type = "blocks" THEN <<l.from, l.to>> ELSE <<l.to, l.from>>

BlockingEdges(set) == {Blocks(l) : l \in {k \in set : k.type \in {"blocks", "blocked_by"}}}

\* What a walk along the edges from t visits, t with it: the members of every
\* set that holds t and is closed under the edges.
Visited(edges, t) ==
    LET closed(set) == \A e \in edges : e[1] \in set => e[2] \in set
    IN {u \in Todos : \A set \in SUBSET Todos : t \in set /\ closed(set) => u \in set}

\* ensure_edges_acyclic: the walk comes back to an edge's start from its end.
HasCycle(edges) == \E e \in edges : e[1] \in Visited(edges, e[2])

\* check_row_exists does not look at the soft mark: a link may name an item
\* that the other commands no longer find.
todo_link_add(l) ==
    /\ TodoOpen(l.from) /\ TodoOpen(l.to)
    /\ l.from # l.to
    /\ Exists(todos, l.from) /\ Exists(todos, l.to)
    /\ l \notin links
    /\ l.type \in {"blocks", "blocked_by"} => ~HasCycle(BlockingEdges(links \cup {l}))
    /\ Cardinality(links) < MaxLinks
    /\ links' = links \cup {l}
    /\ UNCHANGED <<todos, attempts, reviews, escalations, completed>>

todo_link_remove(l) ==
    /\ l \in links
    /\ TodoOpen(l.from) /\ TodoOpen(l.to)
    /\ links' = links \ {l}
    /\ UNCHANGED <<todos, attempts, reviews, escalations, completed>>
-----------------------------------------------------------------------------
(* Attempts and their reviews                                              *)

WriteAttempt(a, row) ==
    /\ attempts' = [attempts EXCEPT ![a] = row]
    /\ UNCHANGED <<todos, links, reviews, escalations, completed>>

WriteReview(r, row) ==
    /\ reviews' = [reviews EXCEPT ![r] = row]
    /\ UNCHANGED <<todos, links, attempts, escalations, completed>>

\* Any status is taken at the creation, and any at a report.
execution_attempt_create(a, by, status) ==
    /\ attempts[a] = NoRow /\ NoTodos
    /\ ~completed
    /\ WriteAttempt(a, [by |-> by, status |-> status, superseded |-> Null])

execution_attempt_report(a, status) ==
    /\ Exists(attempts, a)
    /\ ~completed
    /\ WriteAttempt(a, [attempts[a] EXCEPT !.status = status])

\* Mutant: a superseded record may be superseded again.
SupersedableAgain(row, by) == TRUE

\* A pointer is written once; the same request again changes nothing.
Supersedable(row, by) == row.superseded \in {Null, by}

\* The replacement is about the same step.  Nothing keeps two attempts from
\* superseding each other.
execution_attempt_supersede(a, by) ==
    /\ a # by
    /\ Exists(attempts, a) /\ Exists(attempts, by)
    /\ ~completed
    /\ StepOf[a] = StepOf[by]
    /\ Supersedable(attempts[a], by)
    /\ WriteAttempt(a, [attempts[a] EXCEPT !.superseded = by])

\* Who made the attempt does not review it.  The completion of the plan is
\* asked for the plan that the caller names.
review_result_create(r, reviewer) ==
    /\ reviews[r] = NoRow
    /\ Exists(attempts, ReviewOf[r])
    /\ reviewer # attempts[ReviewOf[r]].by
    /\ WriteReview(r, [by |-> reviewer, superseded |-> Null])

review_result_supersede(r, by) ==
    /\ r # by
    /\ Exists(reviews, r) /\ Exists(reviews, by)
    /\ StepOf[ReviewOf[r]] = StepOf[ReviewOf[by]]
    /\ Supersedable(reviews[r], by)
    /\ WriteReview(r, [reviews[r] EXCEPT !.superseded = by])
-----------------------------------------------------------------------------
(* Escalations, and the completion of the plan                             *)

WriteEscalation(e, row) ==
    /\ escalations' = [escalations EXCEPT ![e] = row]
    /\ UNCHANGED <<todos, links, attempts, reviews, completed>>

escalation_create(e, anchor) ==
    /\ escalations[e] = NoRow
    /\ ValidAnchor(anchor)
    /\ WriteEscalation(e, [status |-> "open", anchor |-> anchor])

\* A resolved escalation may be resolved again.
escalation_resolve(e) ==
    /\ Exists(escalations, e)
    /\ Open(escalations[e].anchor)
    /\ WriteEscalation(e, [escalations[e] EXCEPT !.status = "resolved"])

\* A move to an item is stored by its owner form, which has no place for a plan;
\* so is one to a project, file or revision, which is then "other" without a plan.
OwnerForm(anchor) ==
    IF anchor.type = "todo" THEN [anchor EXCEPT !.plan = Null] ELSE anchor

escalation_reanchor(e, anchor) ==
    /\ Exists(escalations, e)
    /\ Open(escalations[e].anchor)
    /\ ValidAnchor(anchor)
    /\ WriteEscalation(e, [escalations[e] EXCEPT !.anchor = OwnerForm(anchor)])

plan_completed_set(value) ==
    /\ completed' = value
    /\ UNCHANGED <<todos, links, attempts, reviews, escalations>>
-----------------------------------------------------------------------------
TodoCommands ==
    \E t \in Todos :
        \/ \E anchor \in Anchors, status \in TodoStatuses : todo_create(t, anchor, status)
        \/ /\ t \in Handled
           /\ \/ \E status \in UpdateInputs : todo_update(t, status)
              \/ todo_resolve(t)
              \/ todo_close(t)
              \/ \E anchor \in Anchors : todo_reanchor(t, anchor)
              \/ \E hard \in BOOLEAN : todo_delete(t, hard)

LinkCommands ==
    \E l \in [from : Todos, to : Todos, type : LinkTypes] :
        todo_link_add(l) \/ todo_link_remove(l)

AttemptCommands ==
    \E a \in Attempts :
        \/ \E by \in People, status \in AttemptInputs :
            execution_attempt_create(a, by, status)
        \/ \E status \in AttemptInputs : execution_attempt_report(a, status)
        \/ \E by \in Attempts : execution_attempt_supersede(a, by)

ReviewCommands ==
    \E r \in Reviews :
        \/ \E reviewer \in People : review_result_create(r, reviewer)
        \/ \E by \in Reviews : review_result_supersede(r, by)

EscalationCommands ==
    \E e \in Escalations :
        \/ \E anchor \in EscalationAnchors :
            escalation_create(e, anchor) \/ escalation_reanchor(e, anchor)
        \/ escalation_resolve(e)

Init ==
    /\ todos = [t \in Todos |-> NoRow]
    /\ links = {}
    /\ attempts = [a \in Attempts |-> NoRow]
    /\ reviews = [r \in Reviews |-> NoRow]
    /\ escalations = [e \in Escalations |-> NoRow]
    /\ completed = FALSE

Next ==
    \/ TodoCommands \/ LinkCommands \/ AttemptCommands \/ ReviewCommands
    \/ EscalationCommands \/ \E value \in BOOLEAN : plan_completed_set(value)

Spec == Init /\ [][Next]_vars
-----------------------------------------------------------------------------
(* Properties                                                              *)

\* The type invariant.
TypeOK ==
    /\ todos \in [Todos -> TodoRows \cup {NoRow, Gone}]
    /\ links \subseteq [from : Todos, to : Todos, type : LinkTypes]
    /\ \A l \in links : Exists(todos, l.from) /\ Exists(todos, l.to)
    /\ attempts \in [Attempts -> AttemptRows \cup {NoRow}]
    /\ reviews \in [Reviews -> ReviewRows \cup {NoRow}]
    /\ escalations \in [Escalations -> EscalationRows \cup {NoRow}]
    /\ completed \in BOOLEAN

\* By a link of either direction u blocks t.
Blocker(set, t, u) ==
    \/ [from |-> u, to |-> t, type |-> "blocks"] \in set
    \/ [from |-> t, to |-> u, type |-> "blocked_by"] \in set

\* Work on linked todo items can always be ordered: whatever blocks and
\* blocked_by links were added and removed, among any items there is one that
\* no other of them blocks.
BlockingAcyclic ==
    \A items \in (SUBSET Todos) \ {{}} :
        \E t \in items : \A u \in items : ~Blocker(links, t, u)

\* A finished item stays finished, though resolve, close and update each
\* write the status without the others: it never comes back to the queue.
FinishedStays ==
    [][\A t \in Todos :
        FoundTodo(t) /\ todos[t].status \notin Active /\ Exists(todos', t) =>
            todos'[t].status \notin Active]_vars

\* History is not rewritten: the record that a stale attempt or review was
\* replaced by stays the same, and is about the same step.
SupersededOnce ==
    [][/\ \A a \in Attempts :
            Exists(attempts, a) /\ attempts[a].superseded # Null =>
                /\ attempts'[a].superseded = attempts[a].superseded
                /\ StepOf[attempts[a].superseded] = StepOf[a]
       /\ \A r \in Reviews :
            Exists(reviews, r) /\ reviews[r].superseded # Null =>
                /\ reviews'[r].superseded = reviews[r].superseded
                /\ StepOf[ReviewOf[reviews[r].superseded]] = StepOf[ReviewOf[r]]]_vars

\* What is on the plan by its column: live todo items, and escalations.
PlanTodos == {t \in Todos : FoundTodo(t) /\ todos[t].anchor.plan = ThePlan}
PlanEscalations ==
    {e \in Escalations : Exists(escalations, e) /\ escalations[e].anchor.plan = ThePlan}

\* While the plan is completed nothing on it changes or is moved away, by
\* whichever of its records a command is addressed, and what comes to be on it
\* is not anchored as its own.  Its items lose a link only with the item at
\* the other end: todo_delete asks for the plan of the deleted item alone.
PlanWorkHolds ==
    [][completed /\ completed' =>
        /\ \A t \in PlanTodos : todos'[t] = todos[t]
        /\ \A t \in PlanTodos' \ PlanTodos : todos'[t].anchor.type # "plan"
        /\ \A l \in links' \ links : {l.from, l.to} \cap PlanTodos = {}
        /\ \A l \in links \ links' :
            {l.from, l.to} \cap PlanTodos # {} =>
                \E t \in {l.from, l.to} : todos'[t] = Gone
        /\ attempts' = attempts
        /\ \A e \in PlanEscalations : escalations'[e] = escalations[e]
        /\ \A e \in PlanEscalations' \ PlanEscalations :
            escalations'[e].anchor.type # "plan"]_vars
=============================================================================
