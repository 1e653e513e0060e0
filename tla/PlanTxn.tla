------------------------------ MODULE PlanTxn -------------------------------
(***************************************************************************)
(* The commands of one plan as concurrent sessions.  Every command runs in *)
(* a transaction of its own connection (runtime/context.py), at PostgreSQL *)
(* READ COMMITTED: a statement sees what was committed when it runs and    *)
(* its session's own writes, and waits for a row or a unique key that      *)
(* another transaction has written.  A step here is one statement.         *)
(*                                                                         *)
(* The advisory lock of the plan (storage/plan_lock.py) belongs to the     *)
(* connection, not to the transaction: the code releases it before the     *)
(* commit, and cannot release it after a statement has failed.             *)
(*                                                                         *)
(* What the rows contain is PlanCascade's subject.  Here a revision, a     *)
(* cascade and a step are named by the session that creates them (0: they  *)
(* were there at the start), and whether the frozen steps or the gate      *)
(* refuse a command is a choice (Abandon).                                  *)
(***************************************************************************)
EXTENDS Naturals, Sequences, FiniteSets

CONSTANTS Sessions,     \* numbers from 1; each runs one command
          MaxStepId,    \* bound: the numbers of the steps of one scope
          Kinds,        \* the commands that are run
          Activation,   \* session -> the activation in its report (None: it has no id)
          LinkedAt,     \* session -> the last_linked_at of the aggregate in its report
          Untimed,      \* an aggregate whose last_linked_at is missing or no date
          None

Named == Sessions \cup {0}

\* The rows of revisions, and the values of the other rows.
RevisionRows == [parent : Named \cup {None}, cascade : Named \cup {None}]
Values == Nat \cup {"open", "committed", "aborted"}

ASSUME SessionsAssumption == Sessions \subseteq Nat \ {0}
ASSUME NoneIsNoValue == None \notin Values \cup RevisionRows

\* The rows, and the unique keys, that the statements read and write.
Plan == <<"plan", 0>>
OneOpen == <<"cascade_one_open", 0>>
Runtime == <<"step_runtime", 0>>
StepId(n) == <<"step_scope_id", n>>
Cascade(c) == <<"cascade", c>>
Ref(c) == <<"ref", c>>
Revision(r) == <<"revision", r>>

Rows == {Plan, OneOpen, Runtime} \cup {StepId(n) : n \in 1 .. MaxStepId}
        \cup UNION {{Cascade(c), Ref(c), Revision(c)} : c \in Named}

VARIABLES db,       \* what is committed: row -> value, None without a row
          tx,       \* the sessions
          holder    \* the session that holds the plan's advisory lock

vars == <<db, tx, holder>>

\* The statements of every command, in their order.
Statements ==
    [create |-> <<"resolve", "admit", "acquire", "list_ids", "insert_step",
                  "release", "get_ref", "record", "commit">>,
     edit |-> <<"resolve", "admit", "get_ref", "record", "commit">>,
     transition |-> <<"resolve", "admit", "set_status", "get_ref", "record",
                      "commit">>,
     begin |-> <<"acquire", "get_open", "create_ref", "insert_cascade",
                 "release", "commit">>,
     unfreeze |-> <<"resolve", "admit", "set_status", "acquire", "get_open",
                    "create_ref", "insert_cascade", "release", "commit">>,
     cascade_commit |-> <<"acquire", "get_open", "get_ref", "set_head",
                          "close", "delete_ref", "release", "commit">>,
     cascade_abort |-> <<"acquire", "get_open", "get_ref", "delete_ref",
                         "close", "release", "commit">>,
     report |-> <<"find_row", "insert_row", "lock_row", "merge", "commit">>]

ASSUME KindsAssumption == Kinds \subseteq DOMAIN Statements /\ None \notin DOMAIN Statements

\* What was reported on a step: the activations, and of the stored aggregate
\* its last_linked_at (None: there is no aggregate).
Reports == [activations : Seq({Activation[t] : t \in Sessions} \ {None}),
            linked : Nat \cup {Untimed, None}]

\* The payload is a free object: it may have no aggregate, or an untimed one.
ASSUME ReportsAssumption ==
    /\ LinkedAt \in [Sessions -> Nat \cup {Untimed, None}]
    /\ Untimed \notin Nat \cup {None}
    /\ None \notin Reports

NoReport == [activations |-> <<>>, linked |-> None]

Idle == [state |-> "idle", kind |-> None, pc |-> 0, head |-> None,
         cascade |-> None, tip |-> None, found |-> None, writes |-> <<>>]

-----------------------------------------------------------------------------
\* One row with a value, and the rows of old with those of new over them.
Put(row, value) == [r \in {row} |-> value]
Over(new, old) ==
    [row \in DOMAIN new \cup DOMAIN old |->
        IF row \in DOMAIN new THEN new[row] ELSE old[row]]

Statement(t) ==
    IF tx[t].state = "running" THEN Statements[tx[t].kind][tx[t].pc] ELSE "none"

Written(t) == DOMAIN tx[t].writes

\* What session t reads in a row.
Seen(t, row) == IF row \in Written(t) THEN tx[t].writes[row] ELSE db[row]

\* The row that the next statement of t writes or locks.
Target(t) ==
    LET c == tx[t].cascade
        s == Statement(t)
    IN CASE s \in {"set_status", "set_head"} -> {Plan}
         [] s = "insert_step" -> {StepId(tx[t].found)}
         [] s = "insert_cascade" -> {OneOpen}
         [] s = "close" -> {Cascade(c)}
         [] s = "delete_ref" -> {Ref(c)}
         [] s = "record" -> IF c = None THEN {Plan} ELSE {Ref(c)}
         [] s = "insert_row" -> IF tx[t].found = None THEN {Runtime} ELSE {}
         [] s \in {"lock_row", "merge"} -> {Runtime}
         [] OTHER -> {}

WaitsFor(t, u) ==
    /\ u # t
    /\ \/ Statement(t) = "acquire" /\ holder = u
       \/ Target(t) \cap Written(u) # {}

\* Statement s of session t is next and has nothing to wait for.
At(t, s) == Statement(t) = s /\ \A u \in Sessions : ~WaitsFor(t, u)

\* The statement is done; the session remembers and has written.
Remember(t, field, value) ==
    /\ tx' = [tx EXCEPT ![t].pc = @ + 1, ![t][field] = value]
    /\ UNCHANGED <<db, holder>>

Write(t, new) == Remember(t, "writes", Over(new, tx[t].writes))

Skip(t) == Remember(t, "writes", tx[t].writes)

\* An exception of the code: the finally clause of a locked section releases
\* the lock, the transaction is rolled back and the connection closed.
Raise(t) ==
    /\ tx' = [tx EXCEPT ![t] = [Idle EXCEPT !.state = "failed"]]
    /\ holder' = IF holder = t THEN None ELSE holder
    /\ UNCHANGED db

\* A statement fails: the transaction is aborted and its row locks are gone,
\* its connection is still open and may hold the advisory lock.
StatementFails(t) ==
    /\ tx' = [tx EXCEPT ![t] = [Idle EXCEPT !.state = "broken"]]
    /\ UNCHANGED <<db, holder>>
-----------------------------------------------------------------------------
resolve(t) == At(t, "resolve") /\ Remember(t, "head", db[Plan])

\* With an open cascade the command names it, or is refused; but a transition
\* that names none is not asked, and goes past the open one.  Unfreezing
\* refuses an open cascade.
admit(t) ==
    /\ At(t, "admit")
    /\ CASE tx[t].kind = "unfreeze" /\ db[OneOpen] # None -> Raise(t)
         [] tx[t].kind = "transition" ->
                \E c \in {db[OneOpen], None} : Remember(t, "cascade", c)
         [] OTHER -> Remember(t, "cascade", db[OneOpen])

\* Mutant: the answer of pg_try_advisory_lock is not looked at.
AcquireAnyway(t) ==
    /\ Statement(t) = "acquire"
    /\ holder' = IF holder = None THEN t ELSE holder
    /\ tx' = [tx EXCEPT ![t].pc = @ + 1]
    /\ UNCHANGED db

acquire(t) ==
    /\ At(t, "acquire")
    /\ holder' = t
    /\ tx' = [tx EXCEPT ![t].pc = @ + 1]
    /\ UNCHANGED db

release(t) ==
    /\ At(t, "release")
    /\ holder' = None
    /\ tx' = [tx EXCEPT ![t].pc = @ + 1]
    /\ UNCHANGED db

\* The highest number in use, plus one.
list_ids(t) ==
    LET used == {n \in 1 .. MaxStepId : db[StepId(n)] # None}
    IN /\ At(t, "list_ids")
       /\ \E n \in 1 .. MaxStepId :
            /\ \A m \in used : m < n
            /\ n = 1 \/ n - 1 \in used
            /\ Remember(t, "found", n)

\* Mutant: the unique index is missing.
InsertUnchecked(t, key, new) == Write(t, new)

\* An insert under a unique key waits for a pending one, and fails when the
\* key is taken.
Insert(t, key, new) ==
    IF Seen(t, key) = None THEN Write(t, new) ELSE StatementFails(t)

insert_step(t) ==
    LET key == StepId(tx[t].found)
    IN At(t, "insert_step") /\ Insert(t, key, Put(key, t))

\* A cascade begins where there is none; the others need the open one.
get_open(t) ==
    LET open == Seen(t, OneOpen)
        beginning == tx[t].kind \in {"begin", "unfreeze"}
    IN /\ At(t, "get_open")
       /\ CASE beginning # (open = None) -> Raise(t)
            [] beginning -> Remember(t, "head", Seen(t, Plan))
            [] OTHER -> Remember(t, "cascade", open)

create_ref(t) == At(t, "create_ref") /\ Write(t, Put(Ref(t), tx[t].head))

insert_cascade(t) ==
    /\ At(t, "insert_cascade")
    /\ Insert(t, OneOpen, Over(Put(Cascade(t), "open"), Put(OneOpen, t)))

get_ref(t) ==
    LET c == tx[t].cascade
    IN /\ At(t, "get_ref")
       /\ CASE c = None -> Skip(t)
            [] c # None /\ Seen(t, Ref(c)) = None -> Raise(t)
            [] OTHER -> Remember(t, "tip", Seen(t, Ref(c)))

set_status(t) == At(t, "set_status") /\ Write(t, Put(Plan, Seen(t, Plan)))

set_head(t) == At(t, "set_head") /\ Write(t, Put(Plan, tx[t].tip))

Closed(t) == IF tx[t].kind = "cascade_commit" THEN "committed" ELSE "aborted"

\* Mutant: UPDATE cascade without AND status = 'open'.
CloseAnyway(t) ==
    /\ At(t, "close")
    /\ Write(t, Over(Put(Cascade(tx[t].cascade), Closed(t)), Put(OneOpen, None)))

close(t) ==
    LET c == tx[t].cascade
    IN /\ At(t, "close")
       /\ IF Seen(t, Cascade(c)) = "open"
          THEN Write(t, Over(Put(Cascade(c), Closed(t)), Put(OneOpen, None)))
          ELSE Raise(t)

delete_ref(t) ==
    LET c == tx[t].cascade
    IN At(t, "delete_ref") /\ Write(t, Put(Ref(c), None))

\* The revision, and the pointer to it: UPDATE plan, or UPDATE ref, which
\* finds no row when the cascade was closed since get_ref.
record(t) ==
    LET c == tx[t].cascade
        Made(parent) == Put(Revision(t), [parent |-> parent, cascade |-> c])
    IN /\ At(t, "record")
       /\ CASE c = None -> Write(t, Over(Made(tx[t].head), Put(Plan, t)))
            [] c # None /\ Seen(t, Ref(c)) = None -> Write(t, Made(tx[t].tip))
            [] OTHER -> Write(t, Over(Made(tx[t].tip), Put(Ref(c), t)))

find_row(t) == At(t, "find_row") /\ Remember(t, "found", db[Runtime])

insert_row(t) ==
    /\ At(t, "insert_row")
    /\ IF tx[t].found = None THEN Insert(t, Runtime, Put(Runtime, NoReport))
                             ELSE Skip(t)

\* Mutant: SELECT without FOR UPDATE.
ReadUnlocked(t) ==
    Statement(t) = "lock_row" /\ Remember(t, "found", Seen(t, Runtime))

\* SELECT ... FOR UPDATE.
lock_row(t) ==
    /\ At(t, "lock_row")
    /\ tx' = [tx EXCEPT ![t].pc = @ + 1, ![t].found = Seen(t, Runtime),
                        ![t].writes = Over(Put(Runtime, Seen(t, Runtime)), @)]
    /\ UNCHANGED <<db, holder>>

\* An entry that has an id is added once.
Appended(entries, entry) ==
    IF entry = None \/ \E i \in DOMAIN entries : entries[i] = entry
    THEN entries ELSE Append(entries, entry)

\* Of two timed aggregates the later is kept; with an untimed one, the one that
\* comes last.
Newest(stored, incoming) ==
    LET older == {stored, incoming} \subseteq Nat /\ incoming < stored
    IN IF incoming = None \/ older THEN stored ELSE incoming

\* merge_runtime_record
Merged(data, t) ==
    [activations |-> Appended(data.activations, Activation[t]),
     linked |-> Newest(data.linked, LinkedAt[t])]

merge(t) ==
    At(t, "merge") /\ Write(t, Put(Runtime, Merged(tx[t].found, t)))

commit(t) ==
    /\ At(t, "commit")
    /\ db' = Over(tx[t].writes, db)
    /\ tx' = [tx EXCEPT ![t] =
                IF tx[t].kind \in {"create", "report"}
                THEN [@ EXCEPT !.state = "done", !.writes = <<>>]
                ELSE [Idle EXCEPT !.state = "done"]]
    /\ UNCHANGED holder

\* Mutant: the connection goes back to a pool instead of being closed.
KeepConnection(t) ==
    /\ tx[t].state = "broken"
    /\ tx' = [tx EXCEPT ![t] = [Idle EXCEPT !.state = "failed"]]
    /\ UNCHANGED <<db, holder>>

\* The error reaches db_connection, which closes the connection.
Disconnect(t) == tx[t].state = "broken" /\ Raise(t)

\* t waits in a circle of sessions; PostgreSQL picks a victim.
DeadlockVictim(t) ==
    /\ \E u \in Sessions : WaitsFor(t, u)
    /\ \E S \in SUBSET Sessions :
        /\ t \in S
        /\ \A u \in S : /\ \E v \in S : WaitsFor(u, v)
                        /\ \E v \in S : WaitsFor(v, u)
    /\ StatementFails(t)

\* A guard on the frozen steps or the gate refuses the command, or its
\* process dies.
Abandon(t) == tx[t].state = "running" /\ Raise(t)

\* A command begins.  Sessions are numbered in the order of their beginning.
Start(t, kind) ==
    /\ tx[t].state = "idle"
    /\ \A u \in Sessions : u < t => tx[u].state # "idle"
    /\ tx' = [tx EXCEPT ![t].state = "running", ![t].kind = kind, ![t].pc = 1]
    /\ UNCHANGED <<db, holder>>

Init ==
    /\ \E open \in {None, 0} :
        db = [row \in Rows |->
                CASE row \in {Plan, StepId(1)} -> 0
                  [] row = Revision(0) -> [parent |-> None, cascade |-> None]
                  [] row = OneOpen -> open
                  [] row = Cascade(0) /\ open = 0 -> "open"
                  [] row = Ref(0) /\ open = 0 -> 0
                  [] OTHER -> None]
    /\ tx = [t \in Sessions |-> Idle]
    /\ holder = None

Proceed(t) ==
    \/ Disconnect(t)
    \/ /\ tx[t].state = "running"
       /\ \/ resolve(t) \/ admit(t) \/ acquire(t) \/ release(t)
          \/ list_ids(t) \/ insert_step(t)
          \/ get_open(t) \/ create_ref(t) \/ insert_cascade(t)
          \/ get_ref(t) \/ set_status(t) \/ set_head(t) \/ record(t)
          \/ close(t) \/ delete_ref(t)
          \/ find_row(t) \/ insert_row(t) \/ lock_row(t) \/ merge(t)
          \/ commit(t)

Next ==
    \E t \in Sessions :
        \/ Proceed(t) \/ DeadlockVictim(t) \/ Abandon(t)
        \/ \E kind \in Kinds : Start(t, kind)

\* While a session can proceed, or PostgreSQL can break a deadlock, something
\* does happen; nothing makes a client send a command.
Fairness ==
    WF_vars(\E t \in Sessions : Proceed(t) \/ DeadlockVictim(t))

Spec == Init /\ [][Next]_vars /\ Fairness
-----------------------------------------------------------------------------
\* The type invariant.
TypeOK ==
    /\ DOMAIN db = Rows
    /\ holder \in Sessions \cup {None}
    /\ \A t \in Sessions :
        /\ tx[t].state \in {"idle", "running", "broken", "done", "failed"}
        /\ Written(t) \subseteq Rows
        /\ tx[t].state # "running" => Written(t) = {}
        /\ tx[t].state = "running" =>
            tx[t].pc \in DOMAIN Statements[tx[t].kind]

\* Session t has acquired the lock and has not come to its release.
InSection(t) ==
    LET done == 1 .. (tx[t].pc - 1)
        program == Statements[tx[t].kind]
    IN /\ tx[t].state = "running"
       /\ \E i \in done : program[i] = "acquire"
       /\ \A i \in done : program[i] # "release"

\* The advisory lock excludes: whoever is between acquire_plan_lock and
\* release_plan_lock holds it, and a session that has ended does not, whatever
\* failed inside the section.
LockExcludes ==
    \A t \in Sessions :
        /\ InSection(t) => holder = t
        /\ holder = t => InSection(t) \/ tx[t].state = "broken"

\* Although the lock is released before the commit: at most one cascade of
\* the plan is open, and a ref exists exactly while its cascade is open.
CascadesConsistent ==
    /\ {c \in Named : db[Cascade(c)] = "open"} = {db[OneOpen]} \ {None}
    /\ \A c \in Named : db[Ref(c)] # None <=> db[Cascade(c)] = "open"

\* A created step that was acknowledged has its number to itself, although
\* the number is chosen before the other session's insert is visible.
CreatedStepsKept ==
    \A t \in Sessions :
        tx[t].kind = "create" /\ tx[t].state = "done" =>
            db[StepId(tx[t].found)] = t

Published(r) ==
    LET c == db[Revision(r)].cascade
    IN c = None \/ db[Cascade(c)] = "committed"

\* The head, and every revision behind it, is outside of a cascade or of one
\* that was committed, however commit, abort and edits overlap.
HistoryPublished ==
    /\ Published(db[Plan])
    /\ \A r \in Named :
        db[Revision(r)] # None /\ Published(r) =>
            LET p == db[Revision(r)].parent
            IN p = None \/ Published(p)

\* Statement by statement and in any order, with failures and deadlocks, every
\* transaction is one entry of the ledger or none: a revision, a cascade opened,
\* a cascade closed.  No entry is taken back.
Ledger == INSTANCE PlanLedger WITH
    Names <- Named, Root <- 0, head <- db[Plan],
    revision <- [r \in Named |-> db[Revision(r)]],
    outcome <- [c \in Named |-> db[Cascade(c)]],
    tip <- [c \in Named |-> db[Ref(c)]]
ImplementsPlanLedger == Ledger!Spec

Reported(t) == tx[t].kind = "report" /\ tx[t].state = "done"

\* Of concurrent reports about one step none is lost.  The activation of an
\* acknowledged report is in the record, once; its aggregate is there or a
\* later one is, unless some report brought an aggregate without a time.
ReportsKept ==
    \A t \in Sessions :
        Reported(t) =>
            LET data == db[Runtime]
            IN /\ Activation[t] # None =>
                    Cardinality({i \in DOMAIN data.activations :
                                    data.activations[i] = Activation[t]}) = 1
               /\ LinkedAt[t] # None => data.linked # None
               /\ LinkedAt[t] \in Nat =>
                    \/ data.linked \in Nat /\ data.linked >= LinkedAt[t]
                    \/ \E u \in Sessions : Reported(u) /\ LinkedAt[u] = Untimed

\* The commands that were begun all end: deadlocks are broken, and a session
\* that failed with the advisory lock in its hands does not keep it.
CommandsEnd ==
    <>[](\A t \in Sessions : tx[t].state \in {"idle", "done", "failed"})
=============================================================================
