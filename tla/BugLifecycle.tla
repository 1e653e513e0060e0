---------------------------- MODULE BugLifecycle ----------------------------
(***************************************************************************)
(* Bug reports, their fixes, the impacts of a bug, the propagations of a   *)
(* fix to an impact and the todo items generated for them: the records of  *)
(* storage/bug_*_store.py, what every command of plan_manager/commands     *)
(* does to them, and how records leave: the soft mark, the hard delete and *)
(* the purge of marked records (storage/runtime_hard_delete.py).           *)
(*                                                                         *)
(* Every command is one transaction of the server, which runs the commands *)
(* one at a time.  Fields that no guard reads are left out.                *)
(***************************************************************************)
EXTENDS BugStatuses, FiniteSets, Naturals

CONSTANTS Bugs, Fixes, Impacts, Props, Todos,  \* uuids that rows may be given
          PlanBugs,       \* the bugs whose source is the plan
          PlanImpacts,    \* the impacts whose target is the plan
          Dependents,     \* the impacts that one discovery would add
          BugInputs,      \* initial statuses that bug_create is called with
          Originals,      \* the bugs named as duplicate_of
          Handled,        \* the bugs that are worked on
          FixInputs,      \* the statuses that the fix commands,
          ImpactInputs,   \* the impact commands
          PropInputs,     \* and bug_propagation_update are called with
          MaxRemoved,     \* bound: rows that are ever marked or removed
          NoRow,          \* no row was ever inserted under this uuid
          Gone,           \* the row was removed: a uuid4 is not given twice
          Null

Ids == Bugs \cup Fixes \cup Impacts \cup Props \cup Todos

ASSUME InputsAreStatuses ==
    /\ BugInputs \subseteq BugStatuses
    /\ FixInputs \subseteq FixStatuses
    /\ ImpactInputs \subseteq ImpactStatuses
    /\ PropInputs \subseteq PropagationStatuses

ASSUME ScopeIsKnown ==
    /\ PlanBugs \subseteq Bugs
    /\ Originals \subseteq Bugs
    /\ Handled \subseteq Bugs
    /\ PlanImpacts \subseteq Impacts
    /\ Dependents \subseteq Impacts

ASSUME KindsDiffer ==
    /\ Bugs \cap (Fixes \cup Impacts \cup Props \cup Todos) = {}
    /\ Fixes \cap (Impacts \cup Props \cup Todos) = {}
    /\ Impacts \cap (Props \cup Todos) = {}
    /\ Props \cap Todos = {}
    /\ {NoRow, Gone, Null} \cap Ids = {}

VARIABLES rows,       \* the tables together: the row of each uuid
          index,      \* relation_index, as <<source, target>> pairs
          completed   \* plan.completed of the plan

vars == <<rows, index, completed>>

BugRows  == [status : BugStatuses, dup : Bugs \cup {Null}, deleted : BOOLEAN]
FixRows  == [bug : Bugs, status : FixStatuses, passed : {"unset", "yes", "no"},
             deleted : BOOLEAN]
ImpactRows == [bug : Bugs, status : ImpactStatuses, decided : BOOLEAN,
               deleted : BOOLEAN]
PropRows == [fix : Fixes, impact : Impacts, status : PropagationStatuses,
             todo : Todos \cup {Null}, deleted : BOOLEAN]
TodoRows == [deleted : BOOLEAN]

Empty == {NoRow, Gone}

ASSUME EmptyIsNoRow ==
    \A e \in Empty : e \notin BugRows \cup FixRows \cup ImpactRows \cup PropRows \cup TodoRows

TypeOK ==
    /\ DOMAIN rows = Ids
    /\ \A b \in Bugs    : rows[b] \in BugRows \cup Empty
    /\ \A f \in Fixes   : rows[f] \in FixRows \cup Empty
    /\ \A i \in Impacts : rows[i] \in ImpactRows \cup Empty
    /\ \A p \in Props   : rows[p] \in PropRows \cup Empty
    /\ \A t \in Todos   : rows[t] \in TodoRows \cup Empty
    /\ index \subseteq Ids \X Ids
    /\ completed \in BOOLEAN

Init ==
    /\ rows = [x \in Ids |-> NoRow]
    /\ index = {}
    /\ completed = FALSE

----------------------------------------------------------------------------
(* Reading the tables                                                      *)

\* The get_* functions of the stores see soft-deleted rows too (get_todo does
\* not); the list_* functions do not.
Found(r, x)  == r[x] \notin Empty
Marked(r, x) == Found(r, x) /\ r[x].deleted
Live(r, x)   == Found(r, x) /\ ~r[x].deleted

FixesOf(r, b)   == {f \in Fixes : Live(r, f) /\ r[f].bug = b}
ImpactsOf(r, b) == {i \in Impacts : Live(r, i) /\ r[i].bug = b}
PropsOf(r, b)   == {p \in Props : Live(r, p) /\ r[p].fix \in FixesOf(r, b)}

RowsOf(r, set) == {r[x] : x \in set}

Derived(r, b) ==
    DeriveBugStatus(RowsOf(r, FixesOf(r, b)), RowsOf(r, ImpactsOf(r, b)),
                    RowsOf(r, PropsOf(r, b)))

Closable(r, b) ==
    CanClose(RowsOf(r, FixesOf(r, b)), RowsOf(r, ImpactsOf(r, b)),
             RowsOf(r, PropsOf(r, b)))

\* What a row refers to: the columns of REFERENCE_CATALOG on these tables.
References(r, x) ==
    IF ~Found(r, x) THEN {}
    ELSE CASE x \in Bugs    -> {r[x].dup} \ {Null}
           [] x \in Fixes   -> {r[x].bug}
           [] x \in Impacts -> {r[x].bug}
           [] x \in Props   -> {r[x].fix, r[x].impact, r[x].todo} \ {Null}
           [] x \in Todos   -> {}

\* lookup_referrers: the live rows that refer to x.
Referrers(r, x) == {y \in Ids : Live(r, y) /\ x \in References(r, y)}

----------------------------------------------------------------------------
(* The status of a bug                                                     *)

\* Mutant: recompute_bug_status does not stop at a terminal status.
RecomputedAlways(r, b) ==
    IF Found(r, b) /\ Derived(r, b) # NoStatus
    THEN [r EXCEPT ![b].status = Derived(r, b)]
    ELSE r

\* recompute_bug_status: the rows after it, r being those the command left.
Recomputed(r, b) ==
    IF Found(r, b) /\ r[b].status \notin TerminalStatuses /\ Derived(r, b) # NoStatus
    THEN [r EXCEPT ![b].status = Derived(r, b)]
    ELSE r

\* refuse_if_bug_plan_completed and the guards that look the bug up first.  A
\* propagation is guarded by its linked plan, which no command ever sets.
PlanAllowsBug(b)    == ~(completed /\ b \in PlanBugs)
PlanAllowsFix(f)    == Found(rows, rows[f].bug) => PlanAllowsBug(rows[f].bug)
PlanAllowsImpact(i) == ~(completed /\ i \in PlanImpacts)

Write(r) == rows' = r /\ UNCHANGED <<index, completed>>

Insert(x, row) == [rows EXCEPT ![x] = row]

\* parent_bug_uuid, a reference of the same kind as duplicate_of_uuid that is
\* set here and nowhere else, is left out.
bug_create(b, status, dup) ==
    /\ rows[b] = NoRow
    /\ PlanAllowsBug(b)
    /\ dup # Null => Found(rows, dup)
    /\ Write(Insert(b, [status |-> status, dup |-> dup, deleted |-> FALSE]))

\* What bug_triage, bug_confirm, bug_reject and bug_reopen share.
MoveBug(b, command) ==
    /\ Found(rows, b)
    /\ PlanAllowsBug(b)
    /\ rows[b].status \in LegalSources(command)
    /\ Write([rows EXCEPT ![b].status = CommandTarget(command)])

bug_triage(b)  == MoveBug(b, "bug_triage")
bug_confirm(b) == MoveBug(b, "bug_confirm")
bug_reject(b)  == MoveBug(b, "bug_reject")
bug_reopen(b)  == MoveBug(b, "bug_reopen")

\* mark_bug_duplicate only asks that the other bug exists: b itself will do.
bug_mark_duplicate(b, other) ==
    /\ Found(rows, b)
    /\ PlanAllowsBug(b)
    /\ rows[b].status \in LegalSources("bug_mark_duplicate")
    /\ Found(rows, other)
    /\ Write([rows EXCEPT ![b].status = "duplicate", ![b].dup = other])

\* The caller's two flags can only refuse.
bug_close(b) ==
    /\ Found(rows, b)
    /\ PlanAllowsBug(b)
    /\ rows[b].status \in LegalSources("bug_close")
    /\ Closable(rows, b)
    /\ Write([rows EXCEPT ![b].status = "closed"])

----------------------------------------------------------------------------
(* Fixes                                                                   *)

\* The bug may be closed or soft-deleted.
bug_fix_create(f, b, status) ==
    /\ rows[f] = NoRow
    /\ Found(rows, b)
    /\ PlanAllowsBug(b)
    /\ Write(Recomputed(Insert(f, [bug |-> b, status |-> status,
                                   passed |-> "unset", deleted |-> FALSE]), b))

\* Neither recomputes the bug nor touches passed.
bug_fix_update(f, status) ==
    /\ Found(rows, f)
    /\ PlanAllowsFix(f)
    /\ status \in FixTargets(rows[f].status)
    /\ Write([rows EXCEPT ![f].status = status])

\* Mutant: the outcome of a verification is not brought to the bug.
VerifyQuietly(f, passed) ==
    /\ Found(rows, f)
    /\ PlanAllowsFix(f)
    /\ Write([rows EXCEPT ![f].status = IF passed THEN "verified" ELSE "failed",
                          ![f].passed = IF passed THEN "yes" ELSE "no"])

\* Mutant: a completed plan does not refuse the verification.
VerifyInCompletedPlan(f, passed) ==
    /\ Found(rows, f)
    /\ Write(Recomputed(
          [rows EXCEPT ![f].status = IF passed THEN "verified" ELSE "failed",
                       ![f].passed = IF passed THEN "yes" ELSE "no"],
          rows[f].bug))

\* guard_fix_transition is not called: any status may be verified or failed.
bug_fix_verify(f, passed) ==
    /\ Found(rows, f)
    /\ PlanAllowsFix(f)
    /\ Write(Recomputed(
          [rows EXCEPT ![f].status = IF passed THEN "verified" ELSE "failed",
                       ![f].passed = IF passed THEN "yes" ELSE "no"],
          rows[f].bug))

----------------------------------------------------------------------------
(* Impacts                                                                 *)

bug_impact_add(i, b, status, decided) ==
    /\ rows[i] = NoRow
    /\ Found(rows, b)
    /\ PlanAllowsBug(b)
    /\ PlanAllowsImpact(i)
    /\ status = "skipped" => decided
    /\ Write(Insert(i, [bug |-> b, status |-> status, decided |-> decided,
                        deleted |-> FALSE]))

\* A suspected impact for every project that depends on the source; projects
\* that have one already are given another.
bug_impact_discover(b) ==
    /\ \A i \in Dependents : rows[i] = NoRow
    /\ Found(rows, b)
    /\ PlanAllowsBug(b)
    /\ Write([x \in Ids |-> IF x \in Dependents
                            THEN [bug |-> b, status |-> "suspected",
                                  decided |-> FALSE, deleted |-> FALSE]
                            ELSE rows[x]])

\* Mutant: an update that leaves the status alone may empty the reason.
UpdateImpactLoosely(i, status, decided) ==
    /\ Found(rows, i)
    /\ PlanAllowsImpact(i)
    /\ status = "skipped" /\ rows[i].status # "skipped" => decided
    /\ Write([rows EXCEPT ![i].status = status, ![i].decided = decided])

\* There is no transition table: any status follows any other, and a status
\* that is not given stays.  decided is what the row has after the update.
bug_impact_update(i, status, decided) ==
    /\ Found(rows, i)
    /\ PlanAllowsImpact(i)
    /\ status = "skipped" => decided
    /\ Write([rows EXCEPT ![i].status = status, ![i].decided = decided])

----------------------------------------------------------------------------
(* Propagations                                                            *)

\* The impact may be of another bug than the fix.
bug_propagation_create(p, f, i) ==
    /\ rows[p] = NoRow
    /\ Found(rows, f)
    /\ PlanAllowsFix(f)
    /\ Found(rows, i)
    /\ Write(Recomputed(
          Insert(p, [fix |-> f, impact |-> i, status |-> "pending",
                     todo |-> Null, deleted |-> FALSE]),
          rows[f].bug))

\* The bug of a propagation: recomputed when the fix still has a row.
RecomputedFor(r, p) ==
    IF Found(r, r[p].fix) THEN Recomputed(r, r[r[p].fix].bug) ELSE r

\* Null leaves a field as it is.  linked_todo_id is not looked up.
bug_propagation_update(p, status, todo) ==
    /\ Found(rows, p)
    /\ status # Null => status \in PropagationTargets(rows[p].status)
    /\ Write(RecomputedFor(
          [rows EXCEPT ![p].status = IF status = Null THEN @ ELSE status,
                       ![p].todo   = IF todo = Null THEN @ ELSE todo], p))

\* A todo for every pending propagation of the fix, whether or not it has one
\* already.  The fix itself may have been deleted.
bug_propagation_generate_todos(f) ==
    LET pending == {p \in Props : /\ Live(rows, p)
                                  /\ rows[p].fix = f
                                  /\ rows[p].status = "pending"}
    IN /\ pending # {}
       /\ Found(rows, f) => PlanAllowsFix(f)
       /\ \E given \in [pending -> {t \in Todos : rows[t] = NoRow}] :
             /\ \A p, q \in pending : given[p] = given[q] => p = q
             /\ Write([x \in Ids |->
                   IF x \in pending THEN [rows[x] EXCEPT !.todo = given[x]]
                   ELSE IF \E p \in pending : given[p] = x THEN [deleted |-> FALSE]
                   ELSE rows[x]])

----------------------------------------------------------------------------
(* Deletion                                                                *)

\* get_todo does not see a marked todo; the other get_* functions see all.
Deletable(x) == IF x \in Todos THEN Live(rows, x) ELSE Found(rows, x)

PlanAllowsDelete(x) ==
    CASE x \in Bugs    -> PlanAllowsBug(x)
      [] x \in Fixes   -> PlanAllowsFix(x)
      [] x \in Impacts -> PlanAllowsImpact(x)
      [] OTHER         -> TRUE

\* The bound of an instance: how many rows are ever marked or removed.
WithinBound(x) ==
    Cardinality({y \in Ids : rows[y] = Gone \/ Marked(rows, y)} \cup {x}) <= MaxRemoved

\* Mutant: the universal rule is asked only of the hard delete.
SoftDeleteFreely(x, hard) ==
    /\ Deletable(x)
    /\ PlanAllowsDelete(x)
    /\ hard => Referrers(rows, x) = {}
    /\ WithinBound(x)
    /\ Write([rows EXCEPT ![x] = IF hard THEN Gone ELSE [rows[x] EXCEPT !.deleted = TRUE]])

\* perform_runtime_delete, which all the delete commands call: a live
\* reference refuses the soft delete as well as the hard one, and a hard
\* delete does not ask for the mark.  The status of a bug is not recomputed
\* and relation_index is not touched.
Delete(x, hard) ==
    /\ Deletable(x)
    /\ PlanAllowsDelete(x)
    /\ Referrers(rows, x) = {}
    /\ WithinBound(x)
    /\ Write([rows EXCEPT ![x] = IF hard THEN Gone ELSE [rows[x] EXCEPT !.deleted = TRUE]])

bug_delete(b, hard)                 == Delete(b, hard)
bug_fix_delete(f, hard)             == Delete(f, hard)
bug_impact_delete(i, hard)          == Delete(i, hard)
bug_fix_propagation_delete(p, hard) == Delete(p, hard)
todo_delete(t, hard)                == Delete(t, hard)

\* The least set with the start in it and, with every row, the marked rows
\* that relation_index says refer to it.
MarkedClosure(start) ==
    LET marked == {x \in Ids : Marked(rows, x)}
        Closed(set) == \A edge \in index :
            edge[2] \in set /\ edge[1] \in marked => edge[1] \in set
    IN {x \in marked : \A set \in SUBSET marked :
            start \subseteq set /\ Closed(set) => x \in set}

\* Mutant: the engine trusts relation_index and does not ask the guard.
PurgeByIndex(start) ==
    LET set == MarkedClosure(start)
    IN /\ start # {}
       /\ \A edge \in index : edge[2] \in set => edge[1] \in set
       /\ rows' = [x \in Ids |-> IF x \in set THEN Gone ELSE rows[x]]
       /\ index' = {edge \in index : edge[1] \notin set /\ edge[2] \notin set}
       /\ UNCHANGED completed

\* runtime_purge_batch (hard_delete_marked_set) on a set of marked rows; the
\* default is all of them.  Every row goes through guarded_hard_delete, and
\* one refusal rolls the whole set back.
runtime_purge_batch(start) ==
    LET set == MarkedClosure(start)
    IN /\ start # {}
       /\ \A edge \in index : edge[2] \in set => edge[1] \in set
       /\ \A x \in set : Referrers(rows, x) = {}
       /\ rows' = [x \in Ids |-> IF x \in set THEN Gone ELSE rows[x]]
       /\ index' = {edge \in index : edge[1] \notin set /\ edge[2] \notin set}
       /\ UNCHANGED completed

\* compute_canonical_triples and replace_index, as the recovery of the registry
\* runs them.  No other step of these commands writes the index.
rebuild_relation_index ==
    /\ index' = {edge \in Ids \X Ids :
                    edge[2] \in References(rows, edge[1]) /\ Found(rows, edge[2])}
    /\ UNCHANGED <<rows, completed>>

plan_completed_set(value) ==
    completed' = value /\ UNCHANGED <<rows, index>>

----------------------------------------------------------------------------

BugCommands ==
    \E b \in Bugs :
        \/ \E status \in BugInputs, dup \in Originals \cup {Null} :
              bug_create(b, status, dup)
        \/ \E hard \in BOOLEAN : bug_delete(b, hard)

HandlingCommands ==
    \E b \in Handled :
        \/ bug_triage(b)
        \/ bug_confirm(b)
        \/ bug_reject(b)
        \/ bug_reopen(b)
        \/ \E other \in Originals : bug_mark_duplicate(b, other)
        \/ bug_close(b)
        \/ bug_impact_discover(b)

FixCommands ==
    \E f \in Fixes :
        \/ \E b \in Handled, status \in FixInputs : bug_fix_create(f, b, status)
        \/ \E status \in FixInputs : bug_fix_update(f, status)
        \/ \E passed \in BOOLEAN : bug_fix_verify(f, passed)
        \/ bug_propagation_generate_todos(f)
        \/ \E hard \in BOOLEAN : bug_fix_delete(f, hard)

ImpactCommands ==
    \E i \in Impacts :
        \/ \E b \in Handled, status \in ImpactInputs, decided \in BOOLEAN :
              bug_impact_add(i, b, status, decided)
        \/ \E status \in ImpactInputs, decided \in BOOLEAN :
              bug_impact_update(i, status, decided)
        \/ \E hard \in BOOLEAN : bug_impact_delete(i, hard)

\* The todos that a caller can name are those that had a row.
PropagationCommands ==
    \E p \in Props :
        \/ \E f \in Fixes, i \in Impacts : bug_propagation_create(p, f, i)
        \/ \E status \in PropInputs \cup {Null},
              todo \in {t \in Todos : rows[t] # NoRow} \cup {Null} :
              bug_propagation_update(p, status, todo)
        \/ \E hard \in BOOLEAN : bug_fix_propagation_delete(p, hard)

OtherCommands ==
    \/ \E t \in Todos, hard \in BOOLEAN : todo_delete(t, hard)
    \/ \E start \in SUBSET {x \in Ids : Marked(rows, x)} : runtime_purge_batch(start)
    \/ rebuild_relation_index
    \/ \E value \in BOOLEAN : plan_completed_set(value)

Next == BugCommands \/ HandlingCommands \/ FixCommands \/ ImpactCommands \/ PropagationCommands \/ OtherCommands

Spec == Init /\ [][Next]_vars

----------------------------------------------------------------------------
(* Properties                                                              *)

\* What a live record refers to is still in the database, whatever was
\* soft-deleted, hard-deleted and purged, in whatever order, and however old
\* relation_index is.  Todo links are left out: a caller may name any.
LiveRefsResolve ==
    \A x \in Ids : Live(rows, x) =>
        \A y \in References(rows, x) \ Todos : Found(rows, y)

\* The two readings of a bug's records, which two modules of the code state
\* separately, agree: bug_close would admit the bug exactly when its derived
\* status is verified.  That needs the reason and the owner decision which
\* only the writers of an impact check.
GuardsAgree ==
    \A b \in Bugs : Found(rows, b) =>
        (Closable(rows, b) <=> Derived(rows, b) = "verified")

\* A fix whose verification passed is verified: no command sends it on with
\* the passed flag of an earlier verification.
PassedIsVerified ==
    \A f \in Fixes :
        Found(rows, f) /\ rows[f].passed = "yes" => rows[f].status = "verified"

\* No deletion, hard or soft, takes away a record that a live one refers to.
LiveLinksKept == [][
    \A x, y \in Ids :
        (Live(rows, x) /\ Live(rows, y) /\ y \in References(rows, x)
            /\ Live(rows', x) /\ y \in References(rows', x))
        => Live(rows', y)]_vars

\* A closed, rejected or duplicate bug keeps that status until it is reopened,
\* whatever happens to its fixes, impacts and propagations.
TerminalSticky == [][
    \A b \in Bugs :
        (Found(rows, b) /\ rows[b].status \in TerminalStatuses /\ Found(rows', b))
        => rows'[b].status \in {rows[b].status, "reopened"}]_vars

\* The outcome of a verification, and every new status of a propagation, reach
\* the bug in the same transaction, unless the bug is in a terminal status or
\* has no live fix left.
OutcomesReachBugs == [][
    \A b \in Bugs :
        /\ Found(rows', b)
        /\ rows'[b].status \notin TerminalStatuses
        /\ Derived(rows', b) # NoStatus
        /\ \/ \E f \in Fixes : /\ Found(rows, f) /\ Found(rows', f)
                               /\ rows[f].bug = b
                               /\ rows'[f].passed # rows[f].passed
           \/ \E p \in Props : /\ Found(rows, p) /\ Found(rows', p)
                               /\ Found(rows', rows[p].fix)
                               /\ rows'[rows[p].fix].bug = b
                               /\ rows'[p].status # rows[p].status
        => rows'[b].status = Derived(rows', b)]_vars

\* While a plan is completed, no live fix of its bugs changes, and the status of
\* a bug changes only to the one its records give: a propagation, which is
\* guarded by a plan of its own, still recomputes it.
CompletedPlanHolds == [][
    completed /\ completed' =>
        /\ \A f \in Fixes :
              Live(rows, f) /\ rows[f].bug \in PlanBugs => rows'[f] = rows[f]
        /\ \A b \in PlanBugs :
              Found(rows, b) /\ Found(rows', b) =>
                 rows'[b].status \in {rows[b].status, Derived(rows', b)}]_vars
=============================================================================
