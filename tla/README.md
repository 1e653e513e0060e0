# A TLA+ model of plan_manager

plan_manager keeps *plans* in PostgreSQL and serves about three hundred
commands on them. A plan is a text (the HRS, paragraphs), a machine
specification (the MRS, concepts and relations) and a tree of *steps* on three
levels: global (G), tactical (T) and atomic (A). Steps are reviewed and frozen;
what is frozen may change only inside a *cascade*, a long transaction that is
committed through a mechanical gate or aborted. Every change is recorded in a
version store in the manner of git. Around the plan live the records of its
execution: bugs, todo items, attempts, reviews, escalations.

This project models the plan, its text, its context blocks, the order in which
its steps may run, the transactions its commands run in, and the records around
it. Paths below are under `src/plan_manager/`.

## Inventory

| Component | State | Operations | What makes it correct |
|---|---|---|---|
| Version store (`storage/version_store.py`, `version_ops.py`) | revisions with parents, node versions, head, refs | record a revision on the head or on a ref, read a state, log, diff, revert | no edit is lost; any state can be read again; the walks agree |
| Cascade regime (`cascade/`) | one row per cascade, its ref | begin, commit, abort, admission, invalidation | one open cascade; what it does is private until its commit; an abort gives the base back; frozen truth |
| Step tree (`domain/step*.py`) | rows of the table step | create, update, move, delete, dependencies | every step under a parent of the level above; identifiers unique in their scope; dependencies name steps |
| Execution order (`views/dependency_graph.py`, `same_file_order.py`) | none: edges computed from the tree | edges, cycles, ambiguous writers, waves | the same verdict for every reader; a plan that can be executed stays so |
| Status model (`domain/status_model.py`, `plan_status_sync.py`) | status of each step, aggregate status of the plan | validate, derive | only legal transitions; execution is never taken back; the aggregate follows the tree |
| Plan row (`domain/plan.py`) | head, status, completed, deletion mark | create, complete, delete, bind projects | a completed plan accepts nothing else |
| MRS (`domain/concept*.py`, `relation*.py`) | concepts, relations | add, update, remove, in a cascade only | relations name concepts; a change flags the global steps |
| HRS (`hrs/`, `domain/paragraph_store.py`, `exchange/importer.py`) | paragraphs with positions | insert, update, delete, wrap, import | positions without holes; an abort gives the text back |
| Context blocks (`views/context_blocks.py`) | texts tagged with a revision and a cascade | compile, rebuild, carry forward, promote | a current block describes the current plan |
| Transactions, lock and workers (`runtime/context.py`, `storage/plan_lock.py`) | transactions, an advisory lock per plan | one command is one transaction; long commands run in queue workers | overlapping commands lose nothing; every command ends |
| Bugs (`domain/bug_*.py`, `storage/bug_*.py`) | bugs, fixes, impacts, propagations | triage, fix, verify, propagate, close, reopen, delete | a bug closes only when all its records are finished; the stored status follows them |
| Deletion (`storage/hard_delete_guard.py`, `runtime_hard_delete.py`) | deletion marks, the relation index | soft and hard deletion, purge, rebuilding the index | nothing a live row refers to is removed |
| Todo items, attempts, reviews, escalations (`storage/*_store.py`) | their rows and links | create, work, resolve, link, supersede, re-anchor | no circle of blocking; finished work stays finished; a completed plan keeps its work |
| Import and export (`exchange/`) | files | import, export, archive | an imported plan has a head and a recorded tree |
| Gate, scoring, prompts, catalogues, snapshots, command surface | none or reference data | reads | functions of their inputs |

**How they interact.** A command resolves the plan (`commands/resolve.py`, which
refuses a completed one), is admitted (`cascade/regime.py`), changes rows,
collects the descendants it invalidates (`cascade/propagation.py`), and writes
one revision (`cascade/write.py`), on the plan's head in direct mode or on the
ref of the open cascade; then it carries the context blocks over to the new
revision. `cascade_abort` reads two states of the version store and writes rows
back. All of it happens on one connection, committed when the command returns
and rolled back when it raises (`runtime/context.py`). The records of the work
refer to plans, steps and each other by uuid, ask the plan whether it is
completed, and recompute the status of their bug.

**What is hard.** Five pieces of state must agree at all times: the rows, the
revisions, the head, the ref and the cascade row. They are written by different
functions, and nothing but the order of the calls keeps them together. The
rules of admission look below and above a step, while some functions also write
beside it. Several values are stored copies of functions of other rows (the
aggregate status, a bug's status, context blocks, the relation index). An abort
restores rows one by one under a unique index. The execution graph is built from
rows that come in no order. Transactions of the server and of queue workers
overlap under READ COMMITTED, with a lock that is released before the commit.
The list with lines is under `hazards` in `PROJECT.json`.

## Modules

| Module | Models |
|---|---|
| `Rows` | a table as a function from uuids, with `Absent` for no row; overlay of changes, snapshots, tombstones |
| `StatusModel` | the transition table, the paths of `step_transition`, the derivation of the aggregate status |
| `VersionStore` | revisions, `record_revision`, `diff`, `restore_state` |
| `VersionStoreWalk` | `state_at`, `log` and `revert` as the code walks them, on a store that branches freely |
| `StepTree` | the step table: tree, scopes, identifiers, references, invalidation sets |
| `ExecutionGraph` | the edges of the execution graph, its cycles and its ambiguous writers |
| `PlanCascade` | the state machine of one plan: one action per command |
| `PlanCascadeProps` | its properties, its refinement of `PublishedPlan`, and the claims of the documentation it does not keep |
| `PublishedPlan` | the abstract promise: a published state and a working copy |
| `ExecutionOrder` | the waves, and what an executor of the plan relies on while the plan is edited |
| `PlanText` | the paragraphs and their commands, composed with all of `PlanCascade`; steps and text together refine `PublishedPlan` |
| `PlanContext` | the context blocks and their commands, composed with all of `PlanCascade` |
| `PlanTxn` | the commands of one plan as concurrent transactions, statement by statement |
| `PlanLedger` | the abstract promise of the transactions: each one is an entry in a ledger, or none |
| `BugStatuses` | the status tables of bugs, fixes and propagations, the derived status, the closing decision |
| `BugLifecycle` | bugs, fixes, impacts, propagations, their todo items, both deletions and the purge |
| `WorkRecords` | todo items and links, attempts, reviews, escalations, the completion of the plan |
| `VersionStoreWalk_proofs` | the theorems about the walks of every version store |
| `PlanCascade_proofs`, `PlanOrder_proofs` | the theorems about `PlanCascade` and its tree, and about the order of its steps |
| `PlanText_proofs`, `PlanContext_proofs` | the theorems about the text and the context blocks, on top of these |
| `PlanTxn_proofs`, `BugLifecycle_proofs`, `WorkRecords_proofs` | the theorems about the transactions and the records |
| `MCPlanCascade`, `MCExecutionOrder`, `MCPlanText`, `MCPlanContext`, `MCPlanTxn`, `MCVersionStoreWalk`, `MCBugLifecycle`, `MCWorkRecords` | the constants of the runs |

In every module but `PlanTxn` a command is one action: the server runs the
handler of a command without interruption and in one transaction. A command that
the code refuses raises, its transaction is rolled back, and it is a stuttering
step. `PlanTxn` drops that simplification for the commands it has.
Definitions marked `Mutant` are the faults a property is tried against and are
part of no specification.

### The plan: `StepTree`, `ExecutionGraph`, `PlanCascade`

`rows` is the tables step, concept and relation; `revs` the tables revision and
node_version; `head`, `planStatus` and `completed` are columns of the plan row;
`cascades` is the table cascade with the target of each cascade's ref;
`bypassed` is a history variable: it becomes true when `step_transition` records
a revision on the head past an open cascade, and is read by no action.

The actions are `StepCreate`, `StepUpdate`, `StepSetStatus`, `StepMove`,
`StepDelete`, `StepDependencies` (the commands that add, set or apply
dependencies, which simulate the edit and check the graph before and after),
`StepDependencyRemove` (remove and clear, which check nothing), `StepTransition`,
`MrsWrite` (the six commands on concepts and relations, which write one row and
flag the global steps), `CascadeBegin`, `PlanUnfreeze`, `CascadeCommit`,
`CascadeAbort` and `PlanCompletedSet`. `mode` says whether the command carries
the uuid of the open cascade.

- A revision is known by its position. It carries the state that `state_at`
  returns at it (`at`) and the set `log` returns (`chain`); the code computes
  both on demand. `VersionStoreWalk` shows that they are what the walks return.
- A step's slug, fields, concepts and project binding are one *content*; node
  versions are addressed by a hash of their content, so equal contents are the
  same version, as in the model. `TargetOf` gives the contents that name a
  target file their file and priority.
- The level of a uuid is constant (no code changes a level).
- `deps` is the set of a step's references: `<<n>>` is the sibling with number
  n, `<<g, t, a>>` the atomic step on that canonical path (a path always names
  all three levels). The order of `depends_on` is used by nothing, so a command
  that only reorders it is left out, and with it the revision it writes, which
  changes nothing else. References by uuid are left out.
- Identifiers are the number after the prefix; `MaxStepId` stands for 999.
- The rows of the execution graph are loaded without ORDER BY. `order` is a
  sequence of the ranked writers in which the database may return them, and
  `BuildEdges` follows the code through it. The edges that reports infer from
  declared objects and verification targets are left out: no command decides on
  them.
- A removal may name a reference that resolves to nothing, as the code allows,
  and several at once. `MaxEdits` bounds the references that one command of
  `StepDependencies` adds and takes away together.
- The gate of `cascade_commit` and of a freeze may be green or red at any time,
  and a context block that a command demands may or may not be current: these
  conditions restrict the commands further, so what holds without them holds.
  `PlanContext` has the conditions on blocks.
- Uuids of steps are numbers, because `restore_state` writes rows in uuid order.
- Concepts and relations are rows with a content; what they name is left out.

### The text: `PlanText`

`paras` is the table paragraph, `texts` what each revision holds of it, in the
same numbering as `revs`; `replaced` is a history variable, the revision of the
import that removed a paragraph. Actions: `ParaInsert`, `ParaUpdate`,
`ParaDelete`, `ParaMarkNonBinding` (to wrap and to unwrap) and `HrsImport`,
admitted as the code admits a paragraph. `TextFollows` is what the commands of
`PlanCascade` do to the text: each new revision inherits it from its parent, and
an abort restores it. An import in direct mode writes one revision for the whole
document, in a cascade one per paragraph, and no tombstones in either.

### The context blocks: `PlanContext`

`blocks` is the table context_block: a tag (revision and cascade), a kind, the
node it is for, and copies of a step's definition and of the MRS rows of its
scope. `strays` is a history variable, the blocks compiled past an open cascade.
Actions: `ContextCommon`, `ContextCompile`, `ContextSpecific`, `ContextBundle`
and `BlockRebuild`; the commands of `PlanCascade` that know the paths they wrote
carry the other blocks forward (`CarryForward`), a commit promotes those of its
tip (`CommitPromotes`) and is refused when the plan is not covered or when the
unique index of migration 0023 has a copy already; `step_move`, `step_delete`
and the MRS commands carry nothing over. Left out: fragments of the HRS in a
block (an abort does not restore the text, see below), the template, the
standards and the schema, which are the same in all blocks, and the child that
a specific block is for. `MaxBlocks` bounds the table.

### Transactions: `PlanTxn`

Every session runs one command, one statement per step, at READ COMMITTED: it
reads what is committed and what it wrote itself, and waits for a row or a
unique key another session has written. `db` is the committed rows, `tx` the
sessions with what they remember and have written, `holder` the plan's advisory
lock. `Statements` lists the statements of each command in the order of the
code: `step_create`, an edit, a transition, begin, unfreeze, commit and abort of
a cascade, and a report to step_runtime. Failures: a refused insert under a
unique key, an update that finds no row, a deadlock (`DeadlockVictim`), and a
guard that refuses or a process that dies at any point (`Abandon`). After a failed
statement the release of the lock fails too: the session is `broken`, and keeps
the lock until its connection is closed (`Disconnect`). What rows contain is the
subject of `PlanCascade`; here a revision, a cascade and a step are named by the
session that makes them.

A command that finds a cascade open names it or is refused; only a transition may
go past it, because `step_transition` without a cascade uuid asks for no
admission (`step_transition_command.py:195`). A report is a free object. Its
activation may have no id (`Activation` is `None`) and is then dropped, its
aggregate may be missing or have no readable `last_linked_at` (`Untimed`), and
`Newest` takes an untimed aggregate over any other and any other over an untimed
one, as `merge_runtime_record` does. `execution_attempts` are merged by the
function that merges activations, and `authoring` is overwritten: both are left
out. Comparing a time with a zone to one without raises an error, which is one
of the failures of `Abandon`.

`PlanLedger` is what all of that promises together: revisions are recorded on
revisions their command could read, at most one cascade is open, it is closed once,
and its commit sets the head to its tip or to one of its revisions. It does not
promise that no edit is forked off, that the head stands still while a cascade is
open, or that a commit takes every edit along, because the code does not (see
below). The refinement mapping reads the ledger from
the committed rows.

### Bugs: `BugStatuses`, `BugLifecycle`

`rows` is the tables of bugs, fixes, impacts, propagations and todo items
together, `index` the relation_index, `completed` the plan. There is an action
for every command that changes a status, a reference or a row, named as the
command: `bug_create` to `bug_close`, `bug_fix_*`, `bug_impact_*` with
discovery, `bug_propagation_*` with the generation of todo items, the deletions
(soft and hard), `runtime_purge_batch`, `rebuild_relation_index` and
`plan_completed_set`. `NoRow` and `Gone` tell a uuid that never had a row from
one whose row was removed. Fields that no guard reads are left out, and so are
`parent_bug_uuid` and the anchor of a bug.

### Work records: `WorkRecords`

`todos`, `links`, `attempts`, `reviews`, `escalations` are the tables,
`completed` the plan. Actions: creation of each, `todo_update`, `todo_resolve`,
`todo_close`, `todo_reanchor`, `todo_delete`, `todo_link_add` with its search for
cycles, `todo_link_remove`, `execution_attempt_report`, the two supersessions,
and the creation, re-anchoring and resolution of escalations. An instance works on todo items
or on attempts: their rows do not refer to each other.

An anchor is a record of its type, the column `anchor_plan_uuid` and the item it
names. Type "plan" stands for plan and step, "todo" for an item, and "other" for
the rest. `ValidAnchor` asks for the plan's completion for type "plan" only, as
`validate_anchor` does, and an anchor of another type may carry the plan's uuid,
since `anchor_to_columns` stores it for every type. The guards on later changes
(`Open`) read that column. An escalation that moves to an item loses the column
(`OwnerForm`). A move to a frozen plan or step is refused; what is frozen is left
open, so such a move may happen in the model or not. An item may be created with any
status. `Handled` bounds the items that change after their creation or start on the
plan.

## Runs

All runs use `CHECK_DEADLOCK FALSE`: a completed plan accepts one command only,
sessions end, and the bounds stop the rest. The counts are distinct states, with
two workers; every passing run explores its instance completely.

| Run | Instance | States | Shows |
|---|---|---|---|
| `branch` | one step on each level and a concept, two contents, one cascade, 4 revisions | 432 280 | `TypeOK`, `CascadeAnchored`, `RowsRecorded`, `HistoryKept`, `FrozenTruth`, `StaleDescendantsFlagged`, `ExecutionKept`, and the refinement `ImplementsPublishedPlan` |
| `family` | two global and two tactical steps, one depending on the other, with a text of up to two paragraphs from imports and two more; one cascade, 3 revisions | 135 160 | `TreeWellFormed`, `StepIdsUnique`, `TextRecorded`, `TextDense`, `AbortRestoresBase`, `DepsKept`, `FrozenDepsHeld`, and the refinement `ImplementsPublishedText` |
| `order` | two roots, three tactical steps, three writers of one file; 177 imported graphs of up to three references; one write | 24 120 | `VerdictsAgree`, `WavesSound`, `OrderKept` |
| `context` | a root step and a child to come, a concept, a relation; two blocks; one cascade, 3 revisions | 684 042 | `BlocksCurrent`, `HeadOpensGreen` |
| `walk` | two entities, two contents, 4 revisions on head, refs and reverts | 333 889 | `WalksAgree`, `RevertRestores` |
| `txns` | any three of the eight commands, with and without an open cascade at the start; of their reports one is a retry with an untimed aggregate and one is older | 264 665 | `LockExcludes`, `CascadesConsistent`, `CreatedStepsKept`, `ReportsKept`, the refinement `ImplementsPlanLedger`, and the liveness property `CommandsEnd` |
| `bugs` | two bugs, one the duplicate of the other, a fix, an impact, a propagation, a todo item; two removals | 362 574 | `LiveRefsResolve`, `GuardsAgree`, `PassedIsVerified`, `LiveLinksKept`, `TerminalSticky`, `OutcomesReachBugs`, `CompletedPlanHolds` |
| `work` | three todo items with three links and an escalation, or four attempts at two steps with two reviews | 1 136 888 | `BlockingAcyclic`, `FinishedStays`, `SupersededOnce`, `PlanWorkHolds` |
| `frozen_shell` | the tree of `branch` | | violates `FrozenShellHasDoor` |
| `head_moves` | the tree of `branch` | | violates `HeadStillInCascade` |
| `abort_blocked` | a root step with two children and a spare uuid | | violates `AbortNeverBlocked` |
| `abort_text` | a root step with a child, and a text | | violates `AbortKeepsText` |

**Why the bounds are enough.** The admission and invalidation of a step look at
most two links up or down the tree, so three levels exercise every test; each
test is about a step and at most one other place, so two scopes with two siblings
give every relation of a step to the place it goes to. An imported plan starts
with one revision; three more suffice to open a cascade, change two things in
it, and end it, which records nothing, or to freeze a step and change one beside
it. An empty plan starts with none. `MaxStepId` lets one more identifier be given than
there are steps in a scope. A graph needs three writers for an edge derived on
one branch to decide about another one, and two dependencies to close a circle
through a derived edge; the third dependency is the one a command takes away. A
single write of such a graph is enough for `OrderKept`, which is about one step,
because the initial graphs are all that the dependencies allow, not one of them.
Three transactions are needed: a transaction that waits, one it waits for, and
one that comes between the release of the lock and the commit.
Their reports are timed, untimed and older; reports without an aggregate or
without ids are left to the theorem. In `bugs` two
removals let a record go softly and then for good, and a purge meet an index
from before both; two bugs are needed because one refers to the other. Three todo
items are the shortest circle that two links in two directions cannot show. The
`walk` run takes its entities and contents as symmetric.

**Fairness.** Only `PlanTxn` has any: weak fairness of some session proceeding
or being chosen as the victim of a deadlock. A command that has begun is run by
the server or a worker to its end, a statement that waits is woken when what it
waits for is gone, and PostgreSQL breaks every circle of waiting sessions. The
fairness is of the sessions together, so no session is promised a turn before
another; it is enough for `CommandsEnd` because each command ends after finitely
many statements. That clients send commands, or that guards refuse, is not assumed.
`CommandsEnd` says that all commands that began come to an end, whoever fails with
the advisory lock in its hands. The other modules have no fairness and no
liveness: every step of theirs is a command some client may or may not send.

**The four violations** are disagreements between the code and what its
documentation or docstrings say, quoted under `findings`:

1. `step_set_status` does not refresh the aggregate status. Starting one atomic
   step of a fully frozen plan leaves "frozen" on the shell; `cascade_begin`
   refuses, and so does `plan_unfreeze`, which wants every step frozen.
2. `step_transition` without a cascade uuid moves the head while a cascade is
   open. The commit then replaces the head, and the transition is no longer in
   the log. The properties that fail behind this point are stated up to
   `bypassed`.
3. A cascade that deleted a step and gave its identifier to another one cannot
   be aborted. `CascadeAbort` has `~RestoreCollides` as a guard for this: the
   transaction is rolled back.
4. `hrs_import` in a cascade deletes the paragraphs without a tombstone, so an
   abort removes the imported ones and cannot bring the old ones back.
   `TextRecorded` and `TextDense` are stated up to the paragraphs replaced, and
   `ImplementsPublishedText` up to the first abort that loses a row (`Lost`).

**What the properties except.** Where the code does something a reader might not
expect, the property says so and the exception is here:

- Deleting or moving a step rewrites the references of its siblings, frozen ones
  included, and records it in no revision. Rows and revisions are compared
  without references (`WithoutDeps`), `RowsRecorded` says that those of the rows
  are among the recorded ones, `FrozenDepsHeld` says what a frozen step may lose,
  and `DepsKept` and `OrderKept` except aborts, after which a scrubbed reference
  may be missing or dangle.
- Once `step_transition` has gone past a cascade, rows and recorded states part,
  and the abort of a later cascade may give back a step whose parent went with the
  first one. `TreeWellFormed` claims parents up to `bypassed`, and levels always.
- A path that names nothing may come to name a step again. Say an atomic step
  depends on G-001/T-002/A-001, which does not exist; a move of a tactical step
  into the place T-002 carries its atomic steps there, and if the one that becomes
  A-001 waits for the first step, there is a circle, and no command has looked at
  the graph. A plan of seven steps is enough. `DepsKept` claims no circle after a move that
  carries steps only if all references resolve (`Carries => AllResolve(rows)`).
- References by path are not scrubbed at all. After a move or a deletion they may
  dangle, and adding, setting and applying dependencies is then refused for the
  whole plan, because `build_edges` raises. `OrderKept` and `WavesSound` speak of
  graphs whose references resolve.
- The edges derived across branches, and the order of `graph_order`, depend on
  the order in which rows come, although `graph_order_metadata.py:18` calls the
  tie-break deterministic, and `dependency_graph.py:98` the edges. Whether there
  is a cycle does not (`VerdictsAgree`), unless two writers of one file under one
  parent have the same priority, which the property excepts. Which writers are
  ambiguous does not either, where only atomic steps name others by path
  (`PathsOfAtoms`) and no writer comes before another one of its file whose branch
  comes first (`BranchesRespected`). Without the second condition, an edge derived
  for one pair decides about another pair, and a plan of 13 steps has writers that
  are ambiguous in one order of the rows and ordered in another.
- `step_update` of a target file or a priority is not checked against the graph,
  so a circle can appear there, though `gate_execution.py:177` counts on a
  refusal at write time. `OrderKept` is about dependencies and deletions, in
  trees in which every parent exists (`ParentsThere`).
- A graph without cycles may still have no waves, when dependencies of upper
  steps order whole subtrees; `WavesSound` says exactly when. It excepts graphs in
  which a step depends on a step below it (`NoneWaitsBelow`): then the subtree waits
  for itself, though no two subtrees wait for each other. The commands refuse such a
  dependency, but an import takes `depends_on` as it is
  (`exchange/layout_import.py:108`), and three steps G, T, A, T depending by path on
  its own atomic step A, have no waves.
- A context block compiled past an open cascade is tagged with the head and shows
  the rows of the cascade; `BlocksCurrent` excepts it (`strays`).
- Two direct edits that read the same head fork the history, and an edit whose
  cascade was closed meanwhile updates no ref; both are acknowledged, and their
  revisions are reached by nothing. `PlanLedger`
  promises only that each of them is recorded on what its command could read.
- `bug_propagation_update` is guarded by a plan that no command sets, so it still
  moves in a completed plan and recomputes the bug; `CompletedPlanHolds` allows
  that. Deleting a todo item of another plan takes its links with it.
- A reported aggregate without a readable `last_linked_at` replaces a stored one
  that has one, and over an untimed aggregate every other is accepted
  (`domain/step_runtime.py:126`), although `step_runtime_report_metadata.py:19`
  says that an aggregate "is accepted only when its last_linked_at is not older
  than the stored value". `ReportsKept` claims that the aggregate of a report, or a
  later one, is kept unless an untimed one was reported too.
- A todo item or an escalation of another anchor type than plan or step may carry
  the uuid of a plan (`domain/primary_anchor.py:128`, `:169`), although
  `plan_completion_guard.py:68` says that `anchor_plan_uuid` "is None in every case
  other than" these types. So a record can come to a completed plan without the plan
  being asked, and is locked there. `PlanWorkHolds` speaks of the column for what is
  on the plan, and of the anchor type for what comes to it.
- `bug_fix_verify` does not ask whether the fix may be verified, so a rejected or
  reverted one can be. `PassedIsVerified` does not speak of that.
- A transition that names no cascade is recorded on the head past the open one
  (the second violation). For `PlanLedger` it is an edit outside of cascades like
  any other; the commit that follows replaces the head.
- `CascadeAnchored` says, among other things, that no two cascades are open. The
  runs have one cascade, so that part is idle in them; the theorem is for any
  number.

## Proofs

The theorems hold for every value of the constants, under the assumptions named
in the modules: steps are positive numbers, and finitely many, as a uuid has 128
bits (`FiniteStepsAssumption`); concepts and steps have different uuids; imported
trees consist of drafts, every step under a parent of the level above and with an
identifier of its own, since the importer makes them from nested directories
(`ImportTreesAssumption`); `Absent` is no value, contents with a target are
contents, and their priorities integers (`TargetAssumption`); uuids of paragraphs
are finitely many positive numbers, and no document is empty, which
`validate_hrs` refuses (`PlanText`); the scopes of context blocks consist of MRS
rows (`PlanContext`); sessions are positive numbers, `None` is no
value, the commands run are among those with statements, a reported aggregate
has a number as its time or none (`PlanTxn`); the inputs of commands are statuses, uuids of different
kinds differ, the empty values are no rows (`BugLifecycle`, `WorkRecords`).

| Module | Theorem | Statement |
|---|---|---|
| `VersionStoreWalk_proofs` | `WalksAgreeAlways` | `Spec => []WalksAgree` |
| | `RevertsRestore` | `Spec => RevertRestores` |
| `PlanCascade_proofs` | `Typed` | `Spec => []TypeOK` |
| | `CascadesAnchored` | `Spec => []CascadeAnchored` |
| | `RowsAreRecorded` | `Spec => []RowsRecorded` |
| | `AbortsRestoreBase` | `Spec => AbortRestoresBase` |
| | `HistoryIsKept` | `Spec => []HistoryKept` |
| | `PublishedPlanImplemented` | `Spec => ImplementsPublishedPlan` |
| | `WalksReadThePlan` | `Spec => []Walk!WalksAgree` |
| | `TreesWellFormed` | `Spec => []TreeWellFormed` |
| | `IdsStayUnique` | `Spec => []StepIdsUnique` |
| | `FrozenTruthHolds` | `Spec => FrozenTruth` |
| | `StaleDescendantsAreFlagged` | `Spec => StaleDescendantsFlagged` |
| | `ExecutionIsKept` | `Spec => ExecutionKept` |
| | `FrozenDepsAreHeld` | `Spec => FrozenDepsHeld` |
| `PlanOrder_proofs` | `VerdictsDoNotDepend` | `Spec => []VerdictsAgree` |
| | `DepsAreKept` | `Spec => DepsKept` |
| | `OrderIsKept` | `Spec => OrderKept` |
| | `WavesAreSound` | `Spec => []WavesSound` |
| `PlanText_proofs` | `TextsRecorded` | `SpecText => []TextRecorded` |
| | `TextsDense` | `SpecText => []TextDense` |
| | `TextPublishedTogether` | `SpecText => ImplementsPublishedText` |
| | `TextImplementsPublishedPlan` | `SpecText => ImplementsPublishedPlan` |
| | `TextKeepsPlan` | `SpecText => [](RowsRecorded /\ TreeWellFormed /\ StepIdsUnique /\ HistoryKept)` |
| | `TextKeepsSteps` | `SpecText => FrozenTruth /\ FrozenDepsHeld /\ ExecutionKept /\ StaleDescendantsFlagged` |
| | `TextKeepsDeps` | `SpecText => DepsKept /\ OrderKept` |
| | `TextKeepsAborts` | `SpecText => AbortRestoresBase` |
| `PlanContext_proofs` | `BlocksKeepPlans` | `SpecContext => Spec` |
| | `BlocksStayCurrent` | `SpecContext => []BlocksCurrent` |
| | `HeadsOpenGreen` | `SpecContext => HeadOpensGreen` |
| `PlanTxn_proofs` | `Typed` | `Spec => []TypeOK` |
| | `LockIsExclusive` | `Spec => []LockExcludes` |
| | `CascadesAgree` | `Spec => []CascadesConsistent` |
| | `AcknowledgedStepsStay` | `Spec => []CreatedStepsKept` |
| | `PublishedHistory` | `Spec => []HistoryPublished` |
| | `ReportsStay` | `Spec => []ReportsKept` |
| | `LedgerImplemented` | `Spec => ImplementsPlanLedger` |
| | `EntriesStay` | `Spec => EntriesFinal` |
| | `NobodyIsStuck` | `IsFiniteSet(Sessions)` implies `Spec => []SomebodyGoesOn` |
| | `StepsAreSpent` | `Spec => EveryStepIsSpent` |
| `BugLifecycle_proofs` | `Typed` | `Spec => []TypeOK` |
| | `LiveReferencesResolve` | `Spec => []LiveRefsResolve` |
| | `PassedFixesAreVerified` | `Spec => []PassedIsVerified` |
| | `ClosingGuardsAgree` | `Spec => []GuardsAgree` |
| | `LiveLinksAreKept` | `Spec => LiveLinksKept` |
| | `TerminalStatusesAreSticky` | `Spec => TerminalSticky` |
| | `OutcomesAreBrought` | `Spec => OutcomesReachBugs` |
| | `CompletedPlansHold` | `Spec => CompletedPlanHolds` |
| `WorkRecords_proofs` | `Typed` | `Spec => []TypeOK` |
| | `WorkCanBeOrdered` | `Spec => []BlockingAcyclic` |
| | `FinishedTodosStay` | `Spec => FinishedStays` |
| | `PointersAreKept` | `Spec => SupersededOnce` |
| | `CompletedWorkHolds` | `Spec => PlanWorkHolds` |

**`PlanCascade`.** None of the properties is inductive alone. `RowsRecorded` at
an abort needs that the cascade's base is the head; at a commit, that the tip is
what the rows are. That needs `CascadeAnchored`, which needs that chains are
closed: a revision's chain contains itself, its parent's chain and nothing newer
(`ChainsSound`), and that the head and every ref and base exist (`RefsExist`).
The invariant is `Inv == TypeOK /\ StoreInv /\ RowsAgree`. Every command that
writes a revision is brought into one form, `Writes(mode)`: it records the
snapshot of the entities it changed, on the ref or on the head, and may lose
references elsewhere. `WritesKeepInv` does the work once for that form; one
lemma for each command shows that it has it. The four commands on cascades are
treated one by one, and the abort uses a lemma on `Restored`: what differs
between base and tip is brought back, the rest already agreed. `HistoryKept`
needs more, that the revisions of a plan lie on one line but for aborted
cascades (`CascadesLinear`). The refinement maps a writing command to an edit,
direct or private, or to `Bypass`, and uses the same invariant.

**The walks.** `PlanCascade` keeps the state and the chain of a revision with it;
the code walks parents whenever it needs them. `VersionStoreWalk` has the walks.
A store is `Linked` if parents are older, what a revision did not touch is as at
its parent, and its chain is its parent's and itself; every record and every revert
keeps that, since both write by `RecordRevision`. In a linked store `log` exists as
a function (`PathsExist`: the paths of older revisions define the path of a newer
one, by a least revision without a path) and lists the chain without repetition
(`LogFact`). For `state_at` the invariant of the loop says: after k entries of the
log, an entity already met is as in the state, and one not yet met will be read
from the rest (`LoopFact`). A revert writes the state of the revision it names over
everything the tip or the log ever touched; `RevertsRestore` follows.
`VersionStoreWalk_proofs` shows this of every store that branches freely.
`PlanCascade_proofs` takes that module over the revisions of the plan, as `Walk`,
and shows that the commands of a plan keep its store linked, so `WalksReadThePlan`
says that every theorem about recorded states and chains is one about what the
code's walks return.

**The tree.** For each command one lemma says what it does to the rows of steps:
who stays, who keeps its place, who is flagged. `TreeInv` adds to `Inv` that the
levels fit in the rows and in every recorded state, that identifiers are unique,
and that parents exist in the rows and in the base of an open cascade. The
recorded states are needed for the abort, which restores one; unique identifiers
survive it because the abort is refused where two steps would share one
(`RestoreCollides`). The action properties then follow command by command:
`FrozenTruth` from the guards of admission and from what `ImpactSet` reaches,
`StaleDescendantsFlagged` and `ExecutionKept` from what an invalidation writes,
`FrozenDepsHeld` from what `Scrubbed` takes away.

**The order.** `HasCycle` is computed by taking away, round after round, the steps
that wait for none of the rest, and `Reached` by adding successors until none is new.
The induction over these rounds is replaced by an argument on least sets: of the
sets on the way choose the smallest (`LeastSet`, from the well-foundedness of
inclusion on finite sets). So edges have a cycle if and only if there is a
*stuck* set, not empty, every member of which waits for another one in it
(`CycleIsStuck`), and `Reached` is the least set closed under the edges
(`ReachedIsLeast`). Numbers assigned one after the other are treated the
same way, by a least counterexample (`LeastNumber`, `IntervalRecursion`). From
there:

- A derived edge never closes a circle, since it is added only where neither step
  reaches the other; so the derived graph has a cycle if and only if the declared
  edges with the priorities have one, and these do not depend on the order of
  the rows if priorities are unique (`CyclesOrderFree`).
- Where paths are of atoms, the order of two branches depends on declared edges
  alone (`BranchOrderDeclared`). If no order of rows sets writers against their
  branches, a pair is ordered in the end exactly if it is reached by declared and
  priority edges or by the order of branches, whichever pair came first
  (`DirectedAreOrdered`). That gives the other half of `VerdictsAgree`.
- For `DepsKept` a stuck set after a command is carried back to one before it
  (`FewerWait`): references name the same steps where places are the same
  (`SamePlacesSameNames`), a new step may be named but waits for nothing, and what a
  moved step carries along may come to be named only by a path that named nothing
  before, because its new identifier was free (`NoPathFollows`).
- For `WavesSound` what a step waits for, inherited and subtree prerequisites
  included, is one relation, `Waits`, as long as no step waits for one below it. A
  round that places nobody leaves a stuck set of `Waits`; as long as each places
  somebody, as many rounds as there are steps place all of them, and nobody of a stuck
  set is ever placed. That a step comes after all it waits for is shown of the first n
  rounds, for every n by a least counterexample.
- For `OrderKept` also the priority edges change, when a writer between two others
  is deleted: the two had been joined through it, so the new edge leads where the
  old graph led (`RemainingCycle`).

**The text.** `TextInv` says that paragraphs agree with the recorded text
(`TextRecorded`), and beyond the types four facts without which that is not
inductive. `TextHeadWaits` and `TextBaseStays`: while a cascade is open the head
keeps the text of its base, and what was imported up to the base stays so;
the abort needs them. `ReplacedGone`: a replaced paragraph has no row.
`GivenKnown`: a paragraph that has, or had, a row is named by some revision, so
that the uuids of an import are new to all recorded texts. `DenseAt(r)`: the
text of revision r is dense if no import in its chain is missing; it is claimed of
every revision, since an abort goes back to an old one. An import inside a cascade
writes one revision for each paragraph; the proof describes the log after k of
them (`Logged`), for every k by a least counterexample.

`SpecText` does not imply `Spec`, since the commands on the text record revisions.
But those hold the same steps as the revision worked on (`TextEdit`), so they keep
the invariants of the tree and of the history, and the action properties of the
steps hold as well: the theorems `TextKeeps...` carry over what is proved of
`PlanCascade`.

`TextPublishedTogether` takes the pair of the steps and the text as the state of
`PublishedPlan`. What the head shows of the text is its `state_at` without the
paragraphs that an import in its chain replaced, for those have no row and no
tombstone. The proof needs that rows outside a cascade are this text, and therefore
two more facts for every step: a row that is there is as recorded, even one that an
import removed and an abort brought back (`StoredRecorded`); and a row that was lost
is not among the changes of an open cascade, so no later abort undoes the loss
(`LostWaits`). Every step but an abort leaves a row alone, writes it as it is
recorded, or removes it by an import of the present plan (`GoesOn`), and such a step
loses nothing.

**The context blocks.** `ContextInv` says of every block, not only of current
ones, that it shows the state of the revision it is tagged with, whatever happens
to the head (`FreshAt`). A command that carries blocks forward leaves the tag of
those about what it wrote, and the others show the same in the new state. A
current block has the tag of the working revision, whose state the rows are by
`RowsRecorded`: that is `BlocksCurrent`. `HeadOpensGreen` follows from the gate of
the commit and from the promotion of the blocks of its tip. A step of `SpecContext`
is one of `Spec` or changes the blocks only, so all theorems about `Spec` hold with
the blocks beside it (`BlocksKeepPlans`).

**`PlanTxn`.** A session acts on what it read a while ago, so the invariant
says of each session what it remembers, what it is about to write and what it
must have written by now (`Local`), that no two sessions have written the same
row (`Exclusive`), and of the committed rows that cascades, refs and revisions
agree (`Committed`). A session's pending writes are described by what they
will be when it commits, and stay true while others commit, because the rows they
rest on are rows it has written itself. So a commit keeps `Committed`. The lock
has an invariant of its own, and the reports a third one (`ReportInv`): what is
locked or merged has grown from what is committed (`Grown`: no activation is lost
or doubled, no aggregate vanishes), and the time of its aggregate is not earlier
unless the report is an untimed one (`Later`).

`LedgerImplemented` maps the committed rows to `PlanLedger`: only `commit` changes
them (`OnlyCommits`), and it makes the one entry its command is for, or none for a
report. What the transaction wrote must then be what the ledger allows on
the rows of that moment, although it was read before. That the revision a session
read may still be built upon is part of `Inv` (`Remembered`). `LedgerInv` adds, of
each session: a revision it has recorded has a parent and the pointer to it, unless
the cascade was closed meanwhile; other commands leave the head as it is committed;
and what a commit of a cascade sets the head to is the cascade's tip, or an edit has
entered the cascade since the commit read it, the one case in
which a commit misses an edit (`TipMoves`). `EntriesStay` is from the same facts: no
revision is rewritten, no published one taken back, no cascade reopened.
`PublishedHistory` follows from the invariant `Inv` alone.

Two theorems are about progress. By `LockExcludes` and the shape of sessions,
whoever is waited for is under way (`WaitedForIsActive`). If everybody under way
waits, the smallest set of sessions that wait for one of their own is a circle
(`WaitingMakesCircles`, from the well-foundedness of inclusion on finite sets), and a
circle has a victim: `NobodyIsStuck`. Every step takes one away from the at most
eleven steps a session has and gives none to the others: `StepsAreSpent`. They hold
for any kinds of commands; what `CommandsEnd` adds to them is the fairness.

**`BugLifecycle`.** A command changes the table row by row, in a few ways per
kind of row (`StepTo`), and may then recompute one bug. Every command and the
purge are brought into that form once. The invariant adds to the types that
references of live rows resolve, that a passed fix is verified and that a skipped
impact has its reason; `GuardsAgree` follows from the last, the action properties
from the form.

**`WorkRecords`.** The invariant adds to the types that a replacement is about
the same step (`ReplacedAlike`); the action properties follow from the form of a step (`StepForm`), command by command.
`todo_link_add` searches from one end of the new link for the other; that the
link it admits closes no circle is an argument on sets of items that all wait for
each other, as above, and makes `BlockingAcyclic` inductive beside it.

**Model-checked only.** `CommandsEnd`, which is liveness under fairness, out of the
prover's reach, as is ENABLED; what it rests on, that somebody can go on and that
nobody goes on forever, is proved (`NobodyIsStuck`, `StepsAreSpent`). All other properties of the passing runs are proved.
`TypeOK` of `PlanTxn`, `BugLifecycle` and `WorkRecords` is proved and not listed in a
run.

## Plan

Next in the model:

1. The race of a recursive deletion with a creation under the deleted step
   (`domain/step_ops.py:123`), as further commands of `PlanTxn`.
2. Forwarding chains of escalations, and reviews of revisions.
3. Identifiers of concepts and the references of relations to them, in the MRS;
   the binding of a plan and its steps to projects, as rows that deletions meet.
4. The repair of references over the whole reference catalogue, of which
   `BugLifecycle` has the tables of bugs.
5. A run for the order of `graph_order` under different orders of the rows.

## Not modelled

- The verification gate, scoring and embeddings, prompts and their assembly are
  functions of texts; their verdict is a free choice here. They decide nothing
  else, so nothing about the state depends on how they come to it.
- The schemas, help texts, parameter checks, pagination and error mapping that
  make up most of `commands/` describe the commands to their callers; the
  entity contract (`domain/entity.py`) and `commands/info_reference.py` describe
  records and commands; `pipeline_checks/` compares a deployed service with its
  expected interface. None of them has state of its own.
- Pure reads (the work queue, reports, views, graph exports) change nothing.
  What a read decides for a command is modelled with the command.
- Catalogues of models, roles and tools, calendar entries, wishes and comments are
  reference data and rows without a protocol between them.
- Snapshots, archives and the canonical document are file work. The client, the
  scripts (`scripts/live_smoke.py` drives a running service from outside) and
  packaging carry no state of the plan.
- `decide_retry`, the ladder of owners, and the recursive deletion and restoration
  in `domain/entity.py` are called by no command. Deleting a whole plan ends its
  behaviour.
- The audit log (`storage/runtime_audit_store.py`) is appended to, and read
  by a listing and an export only.

These parts are the larger share of the source lines; a specification of them
would restate tables and texts and would have nothing to check.
