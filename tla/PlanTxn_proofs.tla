--------------------------- MODULE PlanTxn_proofs ---------------------------
(***************************************************************************)
(* Proofs about PlanTxn, for any number of sessions, of any kinds of       *)
(* commands: the advisory lock excludes, cascades and refs agree, created  *)
(* steps are kept, published history stays published and no report of a    *)
(* step is lost; together they implement PlanLedger.  That the commands    *)
(* end is left to TLC; proved is that they neither block each other for    *)
(* good nor go on forever.                                                 *)
(*                                                                         *)
(* The inductive invariant says of each session what it has read, what it  *)
(* is about to write and why nobody else writes the same row (Local,       *)
(* Exclusive), and of the committed rows that they agree (Committed).      *)
(* ReportInv adds what the reports of a step rest on, LedgerInv what the   *)
(* entry of a transaction rests on.                                        *)
(***************************************************************************)
EXTENDS PlanTxn, FiniteSetTheorems, WellFoundedInduction, TLAPS

----------------------------------------------------------------------------
(* The inductive invariant.  d stands for the committed rows and x for a    *)
(* session, so that the same predicate can be used before and after a step. *)

\* The statements that session x has behind it.
Done(x) == {Statements[x.kind][i] : i \in 1 .. (x.pc - 1)}

Beginning(x) == x.kind \in {"begin", "unfreeze"}
Closing(x) == x.kind \in {"cascade_commit", "cascade_abort"}

Fields == {"state", "kind", "pc", "head", "cascade", "tip", "found", "writes"}
States == {"idle", "running", "broken", "done", "failed"}

SessionOK(x) ==
    /\ DOMAIN x = Fields
    /\ x.state \in States
    /\ x.state = "idle" => x = Idle
    /\ x.state = "running" => x.kind \in Kinds /\ x.pc \in DOMAIN Statements[x.kind]
    /\ DOMAIN x.writes \subseteq Rows
    /\ x.state # "running" => DOMAIN x.writes = {}

ShapeOK ==
    /\ DOMAIN db = Rows
    /\ DOMAIN tx = Sessions
    /\ holder \in Sessions \cup {None}
    /\ \A t \in Sessions : SessionOK(tx[t])

\* Revision r may be read in cascade c (None: outside of any cascade).
Belongs(d, r, c) ==
    /\ r \in Named
    /\ d[Revision(r)] # None
    /\ \/ d[Revision(r)].cascade \in {None, c}
       \/ d[Cascade(d[Revision(r)].cascade)] = "committed"

\* The rows named by a session do not exist before it has committed.
Unborn(d, x, t) ==
    x.state # "done" =>
        d[Cascade(t)] = None /\ d[Ref(t)] = None /\ d[Revision(t)] = None

\* What a session has read.
Remembered(d, x) ==
    x.state = "running" =>
        /\ x.cascade # None => x.cascade \in Named /\ d[Cascade(x.cascade)] # None
        /\ Beginning(x) => x.cascade = None
        /\ Beginning(x) /\ "get_open" \in Done(x) => x.head # None
        /\ Closing(x) /\ "get_open" \in Done(x) => x.cascade # None
        /\ x.head # None => Belongs(d, x.head, None)
        /\ x.tip # None => /\ "get_ref" \in Done(x)
                           /\ x.cascade # None /\ Belongs(d, x.tip, x.cascade)
        /\ x.kind = "cascade_commit" /\ "get_ref" \in Done(x) => x.tip # None
        /\ x.kind = "create" /\ "list_ids" \in Done(x) => StepId(x.found) \in Rows

\* Its pending writes.
PlanWrite(d, x, t) ==
    \/ Belongs(d, x.writes[Plan], None)
    \/ /\ x.writes[Plan] = t /\ x.cascade = None
       /\ "record" \in Done(x) /\ Revision(t) \in DOMAIN x.writes
    \/ /\ x.kind = "cascade_commit" /\ "set_head" \in Done(x)
       /\ x.writes[Plan] = x.tip /\ x.tip # None

StepWrite(d, x, t, row) ==
    /\ x.kind = "create" /\ "insert_step" \in Done(x)
    /\ row = StepId(x.found)
    /\ d[row] = None /\ x.writes[row] = t

OpenWrite(x, t) ==
    \/ Beginning(x) /\ x.writes[OneOpen] = t /\ Cascade(t) \in DOMAIN x.writes
    \/ /\ Closing(x) /\ "close" \in Done(x)
       /\ x.writes[OneOpen] = None /\ Cascade(x.cascade) \in DOMAIN x.writes

CascadeWrite(d, x, t, row) ==
    /\ OneOpen \in DOMAIN x.writes
    /\ \/ /\ Beginning(x) /\ row = Cascade(t)
          /\ x.writes[row] = "open" /\ d[OneOpen] = None
       \/ /\ Closing(x) /\ "close" \in Done(x)
          /\ x.cascade # None /\ row = Cascade(x.cascade)
          /\ d[row] = "open"
          /\ x.writes[row] = IF x.kind = "cascade_commit" THEN "committed" ELSE "aborted"

RefWrite(d, x, t, row) ==
    \/ Beginning(x) /\ row = Ref(t) /\ Belongs(d, x.writes[row], None)
    \/ /\ Closing(x) /\ "delete_ref" \in Done(x)
       /\ x.cascade # None /\ row = Ref(x.cascade) /\ x.writes[row] = None
    \/ /\ "record" \in Done(x) /\ x.cascade # None /\ row = Ref(x.cascade)
       /\ d[row] # None /\ x.writes[row] = t /\ Revision(t) \in DOMAIN x.writes

RevisionWrite(d, x, t, row) ==
    /\ "record" \in Done(x)
    /\ row = Revision(t)
    /\ x.writes[row] \in RevisionRows
    /\ x.writes[row].cascade = x.cascade
    /\ \/ x.writes[row].parent = None
       \/ Belongs(d, x.writes[row].parent, x.cascade)

RowWrite(d, x, t, row) ==
    \/ row = Plan /\ PlanWrite(d, x, t)
    \/ StepWrite(d, x, t, row)
    \/ row = OneOpen /\ OpenWrite(x, t)
    \/ CascadeWrite(d, x, t, row)
    \/ RefWrite(d, x, t, row)
    \/ RevisionWrite(d, x, t, row)
    \/ row = Runtime /\ x.kind = "report"

Pending(d, x, t) == \A row \in DOMAIN x.writes : RowWrite(d, x, t, row)

\* What it must have written by now.
Performed(x, t) ==
    x.state = "running" =>
        /\ Beginning(x) /\ "create_ref" \in Done(x) => Ref(t) \in DOMAIN x.writes
        /\ Beginning(x) /\ "insert_cascade" \in Done(x) => Cascade(t) \in DOMAIN x.writes
        /\ Closing(x) /\ "close" \in Done(x) => Cascade(x.cascade) \in DOMAIN x.writes
        /\ Closing(x) /\ "delete_ref" \in Done(x) => Ref(x.cascade) \in DOMAIN x.writes
        /\ x.kind = "create" /\ "insert_step" \in Done(x) =>
            StepId(x.found) \in DOMAIN x.writes

\* A step that was acknowledged.
Acknowledged(d, x, t) ==
    x.state = "done" /\ x.kind = "create" =>
        StepId(x.found) \in Rows /\ d[StepId(x.found)] = t

Local(d, x, t) ==
    /\ Unborn(d, x, t)
    /\ Remembered(d, x)
    /\ Pending(d, x, t)
    /\ Performed(x, t)
    /\ Acknowledged(d, x, t)

Exclusive(w, v) == DOMAIN w \cap DOMAIN v = {}

\* The committed rows agree.
OpenAgrees(d) ==
    /\ {c \in Named : d[Cascade(c)] = "open"} = {d[OneOpen]} \ {None}
    /\ \A c \in Named : d[Ref(c)] # None <=> d[Cascade(c)] = "open"

HistoryAgrees(d) ==
    /\ Belongs(d, d[Plan], None)
    /\ \A c \in Named : d[Ref(c)] # None => Belongs(d, d[Ref(c)], c)
    /\ \A r \in Named : d[Revision(r)] # None =>
        /\ d[Revision(r)] \in RevisionRows
        /\ \/ d[Revision(r)].parent = None
           \/ Belongs(d, d[Revision(r)].parent, d[Revision(r)].cascade)

Committed(d) == OpenAgrees(d) /\ HistoryAgrees(d)

Inv ==
    /\ ShapeOK
    /\ Committed(db)
    /\ \A t \in Sessions : Local(db, tx[t], t)
    /\ \A t, u \in Sessions : t # u => Exclusive(tx[t].writes, tx[u].writes)

----------------------------------------------------------------------------
(* Rows, programs and tables                                               *)

LEMMA RowsDiffer ==
    /\ \A c, e : (Cascade(c) = Cascade(e) \/ Ref(c) = Ref(e) \/ Revision(c) = Revision(e)
                  \/ StepId(c) = StepId(e)) => c = e
    /\ \A c, e : /\ Cascade(c) # Ref(e) /\ Cascade(c) # Revision(e) /\ Cascade(c) # StepId(e)
                 /\ Ref(c) # Revision(e) /\ Ref(c) # StepId(e) /\ Revision(c) # StepId(e)
    /\ \A c : /\ Plan \notin {Cascade(c), Ref(c), Revision(c), StepId(c)}
              /\ OneOpen \notin {Cascade(c), Ref(c), Revision(c), StepId(c)}
              /\ Runtime \notin {Cascade(c), Ref(c), Revision(c), StepId(c)}
    /\ Plan # OneOpen /\ Plan # Runtime /\ OneOpen # Runtime
BY DEF Plan, OneOpen, Runtime, StepId, Cascade, Ref, Revision

LEMMA RowsFact ==
    /\ Plan \in Rows /\ OneOpen \in Rows /\ Runtime \in Rows
    /\ \A n \in 1 .. MaxStepId : StepId(n) \in Rows
    /\ \A c \in Named : Cascade(c) \in Rows /\ Ref(c) \in Rows /\ Revision(c) \in Rows
BY DEF Rows

LEMMA NamedFact ==
    /\ 0 \in Named /\ 0 \notin Sessions /\ Sessions \subseteq Named /\ Named \subseteq Nat
    /\ None \notin Named /\ None \notin Nat
    /\ None \notin {"open", "committed", "aborted"} /\ None \notin RevisionRows
<1>1. 0 \in Named /\ 0 \notin Sessions /\ Sessions \subseteq Named /\ Named \subseteq Nat
  BY SessionsAssumption DEF Named
<1>2. None \notin Values /\ None \notin RevisionRows
  BY NoneIsNoValue
<1>3. None \notin Nat /\ None \notin {"open", "committed", "aborted"}
  BY <1>2 DEF Values
<1>4. QED BY <1>1, <1>2, <1>3

\* The statements of a command that has come to its pc-th, and what follows.
ProgramOK(K, pc) ==
    LET s == Statements[K][pc]
        done == {Statements[K][i] : i \in 1 .. (pc - 1)}
        next == {Statements[K][i] : i \in 1 .. pc}
        beginning == K \in {"begin", "unfreeze"}
        closing == K \in {"cascade_commit", "cascade_abort"}
    IN /\ pc \in Nat
       /\ next = done \cup {s}
       /\ s \notin done
       /\ s # "commit" => pc + 1 \in DOMAIN Statements[K]
       /\ s = "acquire" => "release" \notin done
       /\ s = "release" => "acquire" \in done
       /\ s \in {"record", "commit"} => ("acquire" \in done => "release" \in done)
       /\ s = "commit" /\ beginning => {"create_ref", "insert_cascade"} \subseteq done
       /\ s = "commit" /\ closing => {"get_open", "close", "delete_ref"} \subseteq done
       /\ s = "commit" /\ K = "create" => "insert_step" \in done
       /\ s \in {"create_ref", "insert_cascade"} => beginning /\ "get_open" \in done
       /\ s = "insert_cascade" => "create_ref" \in done
       /\ s \in {"close", "delete_ref", "set_head"} => closing /\ "get_open" \in done
       /\ s = "set_head" => K = "cascade_commit" /\ "get_ref" \in done
       /\ s = "get_ref" => ~beginning /\ (closing => "get_open" \in done)
       /\ s = "record" => K \in {"create", "edit", "transition"} /\ "get_ref" \in done
       /\ s \in {"admit", "get_ref", "set_status", "get_open"} => "record" \notin done
       /\ s = "get_ref" => {"set_head", "delete_ref"} \cap done = {}
       /\ s = "get_open" =>
            {"close", "delete_ref", "set_head", "insert_cascade"} \cap done = {}
       /\ s = "get_open" => beginning \/ closing
       /\ s \in {"list_ids", "insert_step"} => K = "create"
       /\ s = "list_ids" => "insert_step" \notin done
       /\ s = "insert_step" => "list_ids" \in done
       /\ s \in {"find_row", "insert_row", "lock_row", "merge"} => K = "report"
       /\ s = "set_status" => K \in {"transition", "unfreeze"} /\ "set_head" \notin done
       /\ s = "admit" => ~closing /\ K \notin {"begin", "report"}
       /\ s \in {"admit", "get_open"} => "get_ref" \notin done
       /\ beginning \/ closing => "record" \notin done

LEMMA ProgramFact ==
    ASSUME NEW K \in DOMAIN Statements, NEW pc \in DOMAIN Statements[K]
    PROVE  ProgramOK(K, pc)
<1>1. CASE K = "create"
  <2>1. pc \in 1 .. 9
    BY <1>1 DEF Statements
  <2>2. QED BY <1>1, <2>1 DEF ProgramOK, Statements
<1>2. CASE K = "edit"
  <2>1. pc \in 1 .. 5
    BY <1>2 DEF Statements
  <2>2. QED BY <1>2, <2>1 DEF ProgramOK, Statements
<1>3. CASE K = "transition"
  <2>1. pc \in 1 .. 6
    BY <1>3 DEF Statements
  <2>2. QED BY <1>3, <2>1 DEF ProgramOK, Statements
<1>4. CASE K = "begin"
  <2>1. pc \in 1 .. 6
    BY <1>4 DEF Statements
  <2>2. QED BY <1>4, <2>1 DEF ProgramOK, Statements
<1>5. CASE K = "unfreeze"
  <2>1. pc \in 1 .. 9
    BY <1>5 DEF Statements
  <2>2. QED BY <1>5, <2>1 DEF ProgramOK, Statements
<1>6. CASE K = "cascade_commit"
  <2>1. pc \in 1 .. 8
    BY <1>6 DEF Statements
  <2>2. QED BY <1>6, <2>1 DEF ProgramOK, Statements
<1>7. CASE K = "cascade_abort"
  <2>1. pc \in 1 .. 7
    BY <1>7 DEF Statements
  <2>2. QED BY <1>7, <2>1 DEF ProgramOK, Statements
<1>8. CASE K = "report"
  <2>1. pc \in 1 .. 5
    BY <1>8 DEF Statements
  <2>2. QED BY <1>8, <2>1 DEF ProgramOK, Statements
<1>9. QED BY <1>1, <1>2, <1>3, <1>4, <1>5, <1>6, <1>7, <1>8 DEF Statements

LEMMA DoneFact ==
    ASSUME NEW x, NEW y, x.kind \in DOMAIN Statements, x.pc \in DOMAIN Statements[x.kind],
           y.kind = x.kind, y.pc = x.pc + 1
    PROVE  Done(y) = Done(x) \cup {Statements[x.kind][x.pc]}
<1>1. ProgramOK(x.kind, x.pc)
  BY ProgramFact
<1>2. x.pc \in Nat /\ y.pc - 1 = x.pc
  BY <1>1 DEF ProgramOK
<1>3. QED BY <1>1, <1>2 DEF ProgramOK, Done

LEMMA PutFact ==
    ASSUME NEW row, NEW value
    PROVE  DOMAIN Put(row, value) = {row} /\ Put(row, value)[row] = value
BY DEF Put

LEMMA OverFact ==
    ASSUME NEW new, NEW old
    PROVE  /\ DOMAIN Over(new, old) = DOMAIN new \cup DOMAIN old
           /\ \A row \in DOMAIN new : Over(new, old)[row] = new[row]
           /\ \A row \in DOMAIN old \ DOMAIN new : Over(new, old)[row] = old[row]
BY DEF Over

LEMMA IdleFact ==
    /\ DOMAIN Idle = Fields
    /\ Idle.state = "idle" /\ Idle.kind = None /\ Idle.pc = 0 /\ Idle.head = None
    /\ Idle.cascade = None /\ Idle.tip = None /\ Idle.found = None
    /\ DOMAIN Idle.writes = {}
BY DEF Idle, Fields

----------------------------------------------------------------------------
(* How the sessions change                                                 *)

\* Only session t changes, and the committed rows do not.
Alone(t) ==
    /\ db' = db
    /\ DOMAIN tx' = DOMAIN tx
    /\ \A u \in Sessions : u # t => tx'[u] = tx[u]

\* A statement of t is done.
Advanced(t) ==
    LET x == tx[t]
        y == tx'[t]
    IN /\ Alone(t)
       /\ DOMAIN y = Fields
       /\ x.state = "running" /\ y.state = "running"
       /\ y.kind = x.kind
       /\ y.pc = x.pc + 1

LEMMA RememberForm ==
    ASSUME ShapeOK, NEW t \in Sessions, tx[t].state = "running",
           NEW field \in Fields \ {"state", "kind", "pc"}, NEW value,
           Remember(t, field, value)
    PROVE  /\ Advanced(t) /\ holder' = holder
           /\ tx'[t][field] = value
           /\ field # "head" => tx'[t].head = tx[t].head
           /\ field # "cascade" => tx'[t].cascade = tx[t].cascade
           /\ field # "tip" => tx'[t].tip = tx[t].tip
           /\ field # "found" => tx'[t].found = tx[t].found
           /\ field # "writes" => tx'[t].writes = tx[t].writes
BY DEF Remember, ShapeOK, SessionOK, Fields, Advanced, Alone

\* What is known of a session before its next statement.
LEMMA RunningFact ==
    ASSUME ShapeOK, NEW t \in Sessions, NEW s, At(t, s), s # "none"
    PROVE  /\ tx[t].state = "running" /\ tx[t].kind \in Kinds
           /\ tx[t].kind \in DOMAIN Statements
           /\ tx[t].pc \in DOMAIN Statements[tx[t].kind]
           /\ Statements[tx[t].kind][tx[t].pc] = s
           /\ ProgramOK(tx[t].kind, tx[t].pc)
           /\ DOMAIN tx[t].writes \subseteq Rows
           /\ \A u \in Sessions : u # t => Target(t) \cap Written(u) = {}
<1>1. Statement(t) = s /\ \A u \in Sessions : ~WaitsFor(t, u)
  BY DEF At
<1>2. /\ tx[t].state = "running"
      /\ Statements[tx[t].kind][tx[t].pc] = s
  BY <1>1 DEF Statement
<1>3. tx[t].kind \in Kinds /\ tx[t].pc \in DOMAIN Statements[tx[t].kind]
  BY <1>2 DEF ShapeOK, SessionOK
<1>4. tx[t].kind \in DOMAIN Statements
  BY <1>3, KindsAssumption
<1>5. QED BY <1>1, <1>2, <1>3, <1>4, ProgramFact DEF WaitsFor, ShapeOK, SessionOK

LEMMA AdvancedFact ==
    ASSUME ShapeOK, NEW t \in Sessions, NEW s, At(t, s), s # "none", Advanced(t)
    PROVE  /\ Done(tx'[t]) = Done(tx[t]) \cup {s}
           /\ s # "commit" => tx'[t].pc \in DOMAIN Statements[tx'[t].kind]
           /\ tx'[t].kind \in Kinds
<1>1. /\ tx[t].kind \in DOMAIN Statements
      /\ tx[t].pc \in DOMAIN Statements[tx[t].kind]
      /\ Statements[tx[t].kind][tx[t].pc] = s
      /\ ProgramOK(tx[t].kind, tx[t].pc)
      /\ tx[t].kind \in Kinds
  BY RunningFact
<1>2. tx'[t].kind = tx[t].kind /\ tx'[t].pc = tx[t].pc + 1
  BY DEF Advanced
<1>3. Done(tx'[t]) = Done(tx[t]) \cup {s}
  BY <1>1, <1>2, DoneFact
<1>4. QED BY <1>1, <1>2, <1>3 DEF ProgramOK

\* The part of the invariant that a statement has to establish.
LEMMA AdvancedInv ==
    ASSUME Inv, NEW t \in Sessions, NEW s, At(t, s), s \notin {"none", "commit"},
           Advanced(t), holder' \in Sessions \cup {None},
           DOMAIN tx'[t].writes \subseteq Rows,
           Remembered(db, tx'[t]), Pending(db, tx'[t], t), Performed(tx'[t], t),
           \A u \in Sessions : u # t => Exclusive(tx'[t].writes, tx[u].writes)
    PROVE  Inv'
<1>1. /\ tx'[t].kind \in Kinds /\ tx'[t].pc \in DOMAIN Statements[tx'[t].kind]
      /\ tx'[t].state = "running" /\ DOMAIN tx'[t] = Fields
  BY AdvancedFact DEF Inv, Advanced
<1>2. db' = db /\ DOMAIN tx' = DOMAIN tx /\ \A u \in Sessions : u # t => tx'[u] = tx[u]
  BY DEF Advanced, Alone
<1>3. SessionOK(tx'[t])
  BY <1>1 DEF SessionOK, States
<1>4. ShapeOK'
  BY <1>2, <1>3 DEF Inv, ShapeOK
<1>5. Unborn(db, tx[t], t) /\ tx[t].state = "running"
  BY DEF Inv, Local, Advanced
<1>6. Unborn(db, tx'[t], t) /\ Acknowledged(db, tx'[t], t)
  BY <1>1, <1>5 DEF Unborn, Acknowledged
<1>7. Local(db, tx'[t], t)
  BY <1>6 DEF Local
<1>8. \A u \in Sessions : Local(db', tx'[u], u)
  BY <1>2, <1>7 DEF Inv
<1>9. \A u, v \in Sessions : u # v => Exclusive(tx'[u].writes, tx'[v].writes)
  BY <1>2 DEF Inv, Exclusive
<1>10. Committed(db')
  BY <1>2 DEF Inv
<1>11. QED BY <1>4, <1>8, <1>9, <1>10 DEF Inv

\* A pending write that is left alone stays what it was, with what it rests on.
LEMMA RowWriteKept ==
    ASSUME Inv, NEW t \in Sessions, NEW s, At(t, s), s \notin {"none", "commit"},
           Advanced(t),
           DOMAIN tx[t].writes \subseteq DOMAIN tx'[t].writes,
           tx'[t].cascade = tx[t].cascade \/ s \in {"admit", "get_open"},
           tx'[t].tip = tx[t].tip \/ s = "get_ref",
           tx'[t].found = tx[t].found \/ s \in {"list_ids", "find_row", "lock_row"},
           NEW row \in DOMAIN tx[t].writes,
           tx'[t].writes[row] = tx[t].writes[row]
    PROVE  RowWrite(db, tx'[t], t, row)
<1> DEFINE x == tx[t]
           y == tx'[t]
<1>1. RowWrite(db, x, t, row)
  BY DEF Inv, Local, Pending
<1>2. /\ Statements[x.kind][x.pc] = s /\ ProgramOK(x.kind, x.pc) /\ ShapeOK
  BY RunningFact DEF Inv
<1>3. /\ Done(y) = Done(x) \cup {s} /\ y.kind = x.kind
      /\ Done(x) = {Statements[x.kind][i] : i \in 1 .. (x.pc - 1)}
  BY <1>2, AdvancedFact DEF Advanced, Done
<1> SUFFICES RowWrite(db, y, t, row)
  OBVIOUS
<1> HIDE DEF x, y
<1>4. /\ s = "admit" => ~Closing(x)
      /\ s \in {"admit", "get_open", "get_ref"} => "record" \notin Done(x)
      /\ s = "get_open" => "close" \notin Done(x) /\ "delete_ref" \notin Done(x)
      /\ s = "get_ref" => "set_head" \notin Done(x)
      /\ s = "list_ids" => "insert_step" \notin Done(x)
      /\ s \in {"find_row", "lock_row"} => x.kind = "report"
  BY <1>2, <1>3 DEF ProgramOK, Closing
<1>5. /\ DOMAIN x.writes \subseteq DOMAIN y.writes
      /\ y.cascade = x.cascade \/ s \in {"admit", "get_open"}
      /\ y.tip = x.tip \/ s = "get_ref"
      /\ y.found = x.found \/ s \in {"list_ids", "find_row", "lock_row"}
      /\ y.writes[row] = x.writes[row] /\ row \in DOMAIN x.writes
  BY DEF x, y
<1>6. /\ Beginning(y) = Beginning(x) /\ Closing(y) = Closing(x)
      /\ Done(x) \subseteq Done(y)
  BY <1>3 DEF Beginning, Closing
<1>7. CASE row = Plan /\ PlanWrite(db, x, t)
  BY <1>3, <1>4, <1>5, <1>6, <1>7 DEF PlanWrite, RowWrite
<1>8. CASE StepWrite(db, x, t, row)
  BY <1>3, <1>4, <1>5, <1>6, <1>8 DEF StepWrite, RowWrite
<1>9. CASE row = OneOpen /\ OpenWrite(x, t)
  <2>1. OpenWrite(y, t)
    BY <1>3, <1>4, <1>5, <1>6, <1>9 DEF OpenWrite
  <2>2. QED BY <1>9, <2>1 DEF RowWrite
<1>10. CASE CascadeWrite(db, x, t, row)
  <2>1. CascadeWrite(db, y, t, row)
    BY <1>3, <1>4, <1>5, <1>6, <1>10 DEF CascadeWrite
  <2>2. QED BY <2>1 DEF RowWrite
<1>11. CASE RefWrite(db, x, t, row)
  <2>1. RefWrite(db, y, t, row)
    BY <1>3, <1>4, <1>5, <1>6, <1>11 DEF RefWrite
  <2>2. QED BY <2>1 DEF RowWrite
<1>12. CASE RevisionWrite(db, x, t, row)
  <2>1. RevisionWrite(db, y, t, row)
    BY <1>3, <1>4, <1>5, <1>6, <1>12 DEF RevisionWrite
  <2>2. QED BY <2>1 DEF RowWrite
<1>13. CASE row = Runtime /\ x.kind = "report"
  BY <1>3, <1>13 DEF RowWrite
<1>14. QED
  BY <1>1, <1>7, <1>8, <1>9, <1>10, <1>11, <1>12, <1>13 DEF RowWrite

\* What was written by then still is; the statement may add to it.
LEMMA PerformedKept ==
    ASSUME Inv, NEW t \in Sessions, NEW s, At(t, s), s \notin {"none", "commit"},
           Advanced(t),
           DOMAIN tx[t].writes \subseteq DOMAIN tx'[t].writes,
           tx'[t].cascade = tx[t].cascade \/ s \in {"admit", "get_open"},
           tx'[t].found = tx[t].found \/ s \in {"list_ids", "find_row", "lock_row"},
           s = "create_ref" => Ref(t) \in DOMAIN tx'[t].writes,
           s = "insert_cascade" => Cascade(t) \in DOMAIN tx'[t].writes,
           s = "close" => Cascade(tx[t].cascade) \in DOMAIN tx'[t].writes,
           s = "delete_ref" => Ref(tx[t].cascade) \in DOMAIN tx'[t].writes,
           s = "insert_step" => StepId(tx[t].found) \in DOMAIN tx'[t].writes
    PROVE  Performed(tx'[t], t)
<1> DEFINE x == tx[t]
           y == tx'[t]
<1>1. Performed(x, t) /\ x.state = "running"
  BY DEF Inv, Local, Advanced
<1>2. /\ Statements[x.kind][x.pc] = s /\ ProgramOK(x.kind, x.pc) /\ ShapeOK
  BY RunningFact DEF Inv
<1>3. /\ Done(y) = Done(x) \cup {s} /\ y.kind = x.kind
      /\ Done(x) = {Statements[x.kind][i] : i \in 1 .. (x.pc - 1)}
  BY <1>2, AdvancedFact DEF Advanced, Done
<1>4. /\ DOMAIN x.writes \subseteq DOMAIN y.writes
      /\ y.cascade = x.cascade \/ s \in {"admit", "get_open"}
      /\ y.found = x.found \/ s \in {"list_ids", "find_row", "lock_row"}
      /\ s = "create_ref" => Ref(t) \in DOMAIN y.writes
      /\ s = "insert_cascade" => Cascade(t) \in DOMAIN y.writes
      /\ s = "close" => Cascade(x.cascade) \in DOMAIN y.writes
      /\ s = "delete_ref" => Ref(x.cascade) \in DOMAIN y.writes
      /\ s = "insert_step" => StepId(x.found) \in DOMAIN y.writes
  OBVIOUS
<1> HIDE DEF x, y
<1>5. /\ s = "admit" => ~Closing(x)
      /\ s = "get_open" => "close" \notin Done(x) /\ "delete_ref" \notin Done(x)
      /\ s = "list_ids" => "insert_step" \notin Done(x)
      /\ s \in {"find_row", "lock_row"} => x.kind = "report"
  BY <1>2, <1>3 DEF ProgramOK, Closing
<1>6. Beginning(y) = Beginning(x) /\ Closing(y) = Closing(x)
  BY <1>3 DEF Beginning, Closing
<1>7. Performed(y, t)
  <2>1. Beginning(y) /\ "create_ref" \in Done(y) => Ref(t) \in DOMAIN y.writes
    BY <1>1, <1>3, <1>4, <1>6 DEF Performed
  <2>2. Beginning(y) /\ "insert_cascade" \in Done(y) => Cascade(t) \in DOMAIN y.writes
    BY <1>1, <1>3, <1>4, <1>6 DEF Performed
  <2>3. Closing(y) /\ "close" \in Done(y) => Cascade(y.cascade) \in DOMAIN y.writes
    BY <1>1, <1>3, <1>4, <1>5, <1>6 DEF Performed
  <2>4. Closing(y) /\ "delete_ref" \in Done(y) => Ref(y.cascade) \in DOMAIN y.writes
    BY <1>1, <1>3, <1>4, <1>5, <1>6 DEF Performed
  <2>5. y.kind = "create" /\ "insert_step" \in Done(y) => StepId(y.found) \in DOMAIN y.writes
    BY <1>1, <1>3, <1>4, <1>5, <1>6 DEF Performed
  <2>6. QED BY <2>1, <2>2, <2>3, <2>4, <2>5 DEF Performed
<1>8. QED BY <1>7 DEF y

\* A statement that writes nothing.
LEMMA ReadInv ==
    ASSUME Inv, NEW t \in Sessions, NEW s, At(t, s),
           s \notin {"none", "commit", "create_ref", "insert_cascade", "close",
                     "delete_ref", "insert_step"},
           Advanced(t), holder' \in Sessions \cup {None},
           tx'[t].writes = tx[t].writes,
           tx'[t].cascade = tx[t].cascade \/ s \in {"admit", "get_open"},
           tx'[t].tip = tx[t].tip \/ s = "get_ref",
           tx'[t].found = tx[t].found \/ s \in {"list_ids", "find_row", "lock_row"},
           Remembered(db, tx'[t])
    PROVE  Inv'
<1>1. Pending(db, tx'[t], t)
  BY RowWriteKept DEF Pending
<1>2. Performed(tx'[t], t)
  BY PerformedKept
<1>3. DOMAIN tx'[t].writes \subseteq Rows
  BY DEF Inv, ShapeOK, SessionOK
<1>4. \A u \in Sessions : u # t => Exclusive(tx'[t].writes, tx[u].writes)
  BY DEF Inv, Exclusive
<1>5. QED BY <1>1, <1>2, <1>3, <1>4, AdvancedInv

----------------------------------------------------------------------------
(* The steps that end or begin a command                                   *)

LEMMA StopInv ==
    ASSUME Inv, NEW t \in Sessions, Alone(t), holder' \in Sessions \cup {None},
           tx[t].state # "done", tx'[t].state \in {"broken", "failed"},
           DOMAIN tx'[t] = Fields, DOMAIN tx'[t].writes = {}
    PROVE  Inv'
<1>1. db' = db /\ DOMAIN tx' = DOMAIN tx /\ \A u \in Sessions : u # t => tx'[u] = tx[u]
  BY DEF Alone
<1>2. SessionOK(tx'[t])
  BY DEF SessionOK, States
<1>3. ShapeOK'
  BY <1>1, <1>2 DEF Inv, ShapeOK
<1>4. Local(db, tx'[t], t)
  <2>1. Unborn(db, tx[t], t)
    BY DEF Inv, Local
  <2>2. Unborn(db, tx'[t], t)
    BY <2>1 DEF Unborn
  <2>3. Remembered(db, tx'[t]) /\ Performed(tx'[t], t) /\ Acknowledged(db, tx'[t], t)
    BY DEF Remembered, Performed, Acknowledged
  <2>4. Pending(db, tx'[t], t)
    BY DEF Pending
  <2>5. QED BY <2>2, <2>3, <2>4 DEF Local
<1>5. \A u \in Sessions : Local(db', tx'[u], u)
  BY <1>1, <1>4 DEF Inv
<1>6. \A u, v \in Sessions : u # v => Exclusive(tx'[u].writes, tx'[v].writes)
  BY <1>1 DEF Inv, Exclusive
<1>7. Committed(db')
  BY <1>1 DEF Inv
<1>8. QED BY <1>3, <1>5, <1>6, <1>7 DEF Inv

LEMMA RaiseInv ==
    ASSUME Inv, NEW t \in Sessions, Raise(t), tx[t].state # "done"
    PROVE  Inv'
<1>1. tx' = [tx EXCEPT ![t] = [Idle EXCEPT !.state = "failed"]]
  BY DEF Raise
<1>2. tx'[t] = [Idle EXCEPT !.state = "failed"]
  BY <1>1 DEF Inv, ShapeOK
<1>3. /\ tx'[t].state = "failed" /\ DOMAIN tx'[t] = Fields
      /\ DOMAIN tx'[t].writes = {}
  BY <1>2, IdleFact DEF Fields
<1>4. Alone(t) /\ holder' \in Sessions \cup {None}
  BY <1>1 DEF Raise, Alone, Inv, ShapeOK
<1>5. QED BY <1>3, <1>4, StopInv

LEMMA StatementFailsInv ==
    ASSUME Inv, NEW t \in Sessions, StatementFails(t), tx[t].state # "done"
    PROVE  Inv'
<1>1. tx' = [tx EXCEPT ![t] = [Idle EXCEPT !.state = "broken"]]
  BY DEF StatementFails
<1>2. tx'[t] = [Idle EXCEPT !.state = "broken"]
  BY <1>1 DEF Inv, ShapeOK
<1>3. /\ tx'[t].state = "broken" /\ DOMAIN tx'[t] = Fields
      /\ DOMAIN tx'[t].writes = {}
  BY <1>2, IdleFact DEF Fields
<1>4. Alone(t) /\ holder' \in Sessions \cup {None}
  BY <1>1 DEF StatementFails, Alone, Inv, ShapeOK
<1>5. QED BY <1>3, <1>4, StopInv

LEMMA FirstFact ==
    ASSUME NEW K \in DOMAIN Statements
    PROVE  1 \in DOMAIN Statements[K]
BY DEF Statements

LEMMA StartInv ==
    ASSUME Inv, NEW t \in Sessions, NEW kind \in Kinds, Start(t, kind)
    PROVE  Inv'
<1>1. /\ Alone(t) /\ holder' = holder
      /\ tx'[t].state = "running" /\ tx'[t].kind = kind /\ tx'[t].pc = 1
      /\ DOMAIN tx'[t] = Fields
      /\ tx'[t].head = tx[t].head /\ tx'[t].cascade = tx[t].cascade
      /\ tx'[t].tip = tx[t].tip /\ tx'[t].writes = tx[t].writes
  BY DEF Start, Alone, Inv, ShapeOK, SessionOK, Fields
<1>2. tx[t] = Idle
  BY DEF Start, Inv, ShapeOK, SessionOK
<1>3. /\ tx'[t].head = None /\ tx'[t].cascade = None /\ tx'[t].tip = None
      /\ DOMAIN tx'[t].writes = {}
  BY <1>1, <1>2, IdleFact
<1>4. db' = db /\ DOMAIN tx' = DOMAIN tx /\ \A u \in Sessions : u # t => tx'[u] = tx[u]
  BY <1>1 DEF Alone
<1>5. SessionOK(tx'[t])
  BY <1>1, <1>3, FirstFact, KindsAssumption DEF SessionOK, States
<1>6. ShapeOK'
  BY <1>1, <1>4, <1>5 DEF Inv, ShapeOK
<1>7. Done(tx'[t]) = {}
  BY <1>1 DEF Done
<1>8. Local(db, tx'[t], t)
  <2>1. Unborn(db, tx[t], t)
    BY DEF Inv, Local
  <2>2. Unborn(db, tx'[t], t) /\ Acknowledged(db, tx'[t], t)
    BY <1>1, <1>2, <2>1, IdleFact DEF Unborn, Acknowledged
  <2>3. Remembered(db, tx'[t]) /\ Performed(tx'[t], t)
    BY <1>3, <1>7 DEF Remembered, Performed
  <2>4. Pending(db, tx'[t], t)
    BY <1>3 DEF Pending
  <2>5. QED BY <2>2, <2>3, <2>4 DEF Local
<1>9. \A u \in Sessions : Local(db', tx'[u], u)
  BY <1>4, <1>8 DEF Inv
<1>10. \A u, v \in Sessions : u # v => Exclusive(tx'[u].writes, tx'[v].writes)
  BY <1>3, <1>4 DEF Inv, Exclusive
<1>11. Committed(db')
  BY <1>4 DEF Inv
<1>12. QED BY <1>6, <1>9, <1>10, <1>11 DEF Inv

----------------------------------------------------------------------------
(* The statements that only read                                           *)

\* What a session that reaches a statement knows.
LEMMA AtFact ==
    ASSUME Inv, NEW t \in Sessions, NEW s, At(t, s), s # "none"
    PROVE  LET x == tx[t] IN
           /\ x.state = "running" /\ DOMAIN x = Fields
           /\ x.kind \in DOMAIN Statements
           /\ ProgramOK(x.kind, x.pc) /\ Statements[x.kind][x.pc] = s
           /\ Done(x) = {Statements[x.kind][i] : i \in 1 .. (x.pc - 1)}
           /\ ShapeOK /\ Committed(db)
           /\ Unborn(db, x, t) /\ Remembered(db, x)
           /\ Pending(db, x, t) /\ Performed(x, t)
           /\ holder \in Sessions \cup {None}
           /\ db[Plan] \in Named /\ Belongs(db, db[Plan], None)
           /\ db[OneOpen] # None =>
                db[OneOpen] \in Named /\ db[Cascade(db[OneOpen])] = "open"
<1>1. ShapeOK /\ Committed(db) /\ Local(db, tx[t], t)
  BY DEF Inv
<1>2. /\ tx[t].state = "running" /\ tx[t].kind \in DOMAIN Statements
      /\ ProgramOK(tx[t].kind, tx[t].pc) /\ Statements[tx[t].kind][tx[t].pc] = s
  BY <1>1, RunningFact
<1>3. /\ db[Plan] \in Named /\ Belongs(db, db[Plan], None)
  BY <1>1 DEF Committed, HistoryAgrees, Belongs
<1>4. db[OneOpen] # None => db[OneOpen] \in Named /\ db[Cascade(db[OneOpen])] = "open"
  BY <1>1 DEF Committed, OpenAgrees
<1>5. QED BY <1>1, <1>2, <1>3, <1>4 DEF Local, Done, ShapeOK, SessionOK

LEMMA ResolveInv == ASSUME Inv, NEW t \in Sessions, resolve(t) PROVE Inv'
<1>1. At(t, "resolve") /\ Remember(t, "head", db[Plan])
  BY DEF resolve
<1>2. /\ ShapeOK /\ tx[t].state = "running" /\ Remembered(db, tx[t])
      /\ Belongs(db, db[Plan], None) /\ holder \in Sessions \cup {None}
      /\ db[Plan] # None
  BY <1>1, AtFact, NamedFact
<1>3. /\ Advanced(t) /\ holder' = holder /\ tx'[t].head = db[Plan]
      /\ tx'[t].cascade = tx[t].cascade /\ tx'[t].tip = tx[t].tip
      /\ tx'[t].found = tx[t].found /\ tx'[t].writes = tx[t].writes
  BY <1>1, <1>2, RememberForm DEF Fields
<1>4. Done(tx'[t]) = Done(tx[t]) \cup {"resolve"} /\ tx'[t].kind = tx[t].kind
  BY <1>1, <1>2, <1>3, AdvancedFact DEF Advanced
<1>5. Remembered(db, tx'[t])
  BY <1>2, <1>3, <1>4 DEF Remembered, Beginning, Closing
<1>6. QED BY <1>1, <1>2, <1>3, <1>5, ReadInv

\* Every admission is a refusal, or gives the open cascade or none.
LEMMA AdmitForm ==
    ASSUME NEW t, admit(t)
    PROVE  \/ Raise(t)
           \/ \E c \in {db[OneOpen], None} :
                Remember(t, "cascade", c) /\ (tx[t].kind = "unfreeze" => c = None)
<1>1. CASE tx[t].kind = "unfreeze" /\ db[OneOpen] # None
  BY <1>1 DEF admit
<1>2. CASE tx[t].kind = "transition"
  <2>1. \E c \in {db[OneOpen], None} : Remember(t, "cascade", c)
    BY <1>2 DEF admit
  <2>2. QED BY <1>2, <2>1
<1>3. CASE /\ ~(tx[t].kind = "unfreeze" /\ db[OneOpen] # None)
           /\ tx[t].kind # "transition"
  <2>1. Remember(t, "cascade", db[OneOpen])
    BY <1>3 DEF admit
  <2>2. QED BY <1>3, <2>1
<1>4. QED BY <1>1, <1>2, <1>3

LEMMA AdmitInv == ASSUME Inv, NEW t \in Sessions, admit(t) PROVE Inv'
<1>1. At(t, "admit")
  BY DEF admit
<1>2. /\ ShapeOK /\ tx[t].state = "running" /\ Remembered(db, tx[t])
      /\ holder \in Sessions \cup {None} /\ ProgramOK(tx[t].kind, tx[t].pc)
      /\ Statements[tx[t].kind][tx[t].pc] = "admit"
      /\ db[OneOpen] # None => db[OneOpen] \in Named /\ db[Cascade(db[OneOpen])] = "open"
  BY <1>1, AtFact
<1>3. CASE Raise(t)
  BY <1>2, <1>3, RaiseInv
<1>4. ASSUME NEW c \in {db[OneOpen], None}, Remember(t, "cascade", c),
             tx[t].kind = "unfreeze" => c = None
      PROVE  Inv'
  <2>1. /\ Advanced(t) /\ holder' = holder /\ tx'[t].cascade = c
        /\ tx'[t].head = tx[t].head /\ tx'[t].tip = tx[t].tip
        /\ tx'[t].found = tx[t].found /\ tx'[t].writes = tx[t].writes
    BY <1>2, <1>4, RememberForm DEF Fields
  <2>2. Done(tx'[t]) = Done(tx[t]) \cup {"admit"} /\ tx'[t].kind = tx[t].kind
    BY <1>1, <1>2, <2>1, AdvancedFact DEF Advanced
  <2>3. ~Closing(tx[t]) /\ tx[t].kind # "begin"
    BY <1>2 DEF ProgramOK, Closing
  <2>4. tx[t].tip = None
    BY <1>2 DEF Remembered, ProgramOK, Done
  <2>5. Remembered(db, tx'[t])
    BY <1>2, <1>4, <2>1, <2>2, <2>3, <2>4, NamedFact DEF Remembered, Beginning, Closing
  <2>6. QED BY <1>1, <1>2, <2>1, <2>5, ReadInv
<1>5. QED BY <1>3, <1>4, AdmitForm

\* The statements of the lock: see LockFact for what they mean.
LEMMA LockStatementsInv ==
    ASSUME Inv, NEW t \in Sessions, acquire(t) \/ release(t)
    PROVE  Inv'
<1> DEFINE s == IF acquire(t) THEN "acquire" ELSE "release"
<1>1. At(t, s) /\ s \in {"acquire", "release"}
  BY DEF acquire, release
<1> HIDE DEF s
<1>2. ShapeOK /\ tx[t].state = "running" /\ Remembered(db, tx[t])
  BY <1>1, AtFact
<1>3. /\ Advanced(t) /\ holder' \in Sessions \cup {None}
      /\ tx'[t].head = tx[t].head /\ tx'[t].cascade = tx[t].cascade
      /\ tx'[t].tip = tx[t].tip
      /\ tx'[t].found = tx[t].found /\ tx'[t].writes = tx[t].writes
  BY <1>2 DEF acquire, release, ShapeOK, SessionOK, Fields, Advanced, Alone
<1>4. Done(tx'[t]) = Done(tx[t]) \cup {s} /\ tx'[t].kind = tx[t].kind
  BY <1>1, <1>2, <1>3, AdvancedFact DEF Advanced
<1>5. Remembered(db, tx'[t])
  BY <1>1, <1>2, <1>3, <1>4 DEF Remembered, Beginning, Closing
<1>6. QED BY <1>1, <1>2, <1>3, <1>5, ReadInv

\* list_ids and find_row: a value is found.
LEMMA FoundInv ==
    ASSUME Inv, NEW t \in Sessions, NEW s \in {"list_ids", "find_row"}, NEW value,
           At(t, s), Remember(t, "found", value), s = "list_ids" => StepId(value) \in Rows
    PROVE  Inv'
<1>1. /\ ShapeOK /\ tx[t].state = "running" /\ Remembered(db, tx[t])
      /\ holder \in Sessions \cup {None}
  BY AtFact
<1>2. /\ Advanced(t) /\ holder' = holder /\ tx'[t].found = value
      /\ tx'[t].head = tx[t].head /\ tx'[t].cascade = tx[t].cascade
      /\ tx'[t].tip = tx[t].tip /\ tx'[t].writes = tx[t].writes
  BY <1>1, RememberForm DEF Fields
<1>3. Done(tx'[t]) = Done(tx[t]) \cup {s} /\ tx'[t].kind = tx[t].kind
  BY <1>1, <1>2, AdvancedFact DEF Advanced
<1>4. s = "find_row" => tx[t].kind = "report"
  BY AtFact DEF ProgramOK
<1>5. Remembered(db, tx'[t])
  BY <1>1, <1>2, <1>3, <1>4 DEF Remembered, Beginning, Closing
<1>6. QED BY <1>1, <1>2, <1>5, ReadInv

\* The head that a session sees is outside of any cascade, unless it has
\* recorded a revision or set the head itself.
LEMMA SeenPlanFact ==
    ASSUME Inv, NEW t \in Sessions, NEW s, At(t, s), s # "none",
           "record" \notin Done(tx[t]), "set_head" \notin Done(tx[t])
    PROVE  Belongs(db, Seen(t, Plan), None) /\ Seen(t, Plan) # None
<1>1. Belongs(db, db[Plan], None) /\ Pending(db, tx[t], t)
  BY AtFact
<1>2. Plan \in DOMAIN tx[t].writes => PlanWrite(db, tx[t], t)
  BY <1>1, RowsDiffer DEF Pending, RowWrite, StepWrite, CascadeWrite, RefWrite, RevisionWrite
<1>3. Belongs(db, Seen(t, Plan), None)
  BY <1>1, <1>2 DEF PlanWrite, Seen, Written
<1>4. QED BY <1>3, NamedFact DEF Belongs

LEMMA GetOpenInv == ASSUME Inv, NEW t \in Sessions, get_open(t) PROVE Inv'
<1>1. At(t, "get_open")
  BY DEF get_open
<1>2. /\ ShapeOK /\ tx[t].state = "running" /\ Remembered(db, tx[t])
      /\ holder \in Sessions \cup {None} /\ ProgramOK(tx[t].kind, tx[t].pc)
      /\ Statements[tx[t].kind][tx[t].pc] = "get_open"
      /\ Done(tx[t]) = {Statements[tx[t].kind][i] : i \in 1 .. (tx[t].pc - 1)}
      /\ Pending(db, tx[t], t)
      /\ db[OneOpen] # None => db[OneOpen] \in Named /\ db[Cascade(db[OneOpen])] = "open"
  BY <1>1, AtFact
<1>3. /\ {"record", "set_head", "close", "insert_cascade", "get_ref"} \cap Done(tx[t]) = {}
      /\ Beginning(tx[t]) \/ Closing(tx[t])
  BY <1>2 DEF ProgramOK, Beginning, Closing
<1>4. Belongs(db, Seen(t, Plan), None) /\ Seen(t, Plan) # None
  BY <1>1, <1>3, SeenPlanFact
<1>5. CASE Raise(t)
  BY <1>2, <1>5, RaiseInv
<1>6. CASE Beginning(tx[t]) /\ Remember(t, "head", Seen(t, Plan))
  <2>1. /\ Advanced(t) /\ holder' = holder /\ tx'[t].head = Seen(t, Plan)
        /\ tx'[t].cascade = tx[t].cascade /\ tx'[t].tip = tx[t].tip
        /\ tx'[t].found = tx[t].found /\ tx'[t].writes = tx[t].writes
    BY <1>2, <1>6, RememberForm DEF Fields
  <2>2. Done(tx'[t]) = Done(tx[t]) \cup {"get_open"} /\ tx'[t].kind = tx[t].kind
    BY <1>1, <1>2, <2>1, AdvancedFact DEF Advanced
  <2>3. Remembered(db, tx'[t])
    BY <1>2, <1>4, <1>6, <2>1, <2>2 DEF Remembered, Beginning, Closing
  <2>4. QED BY <1>1, <1>2, <2>1, <2>3, ReadInv
<1>7. CASE /\ ~Beginning(tx[t]) /\ Seen(t, OneOpen) # None
           /\ Remember(t, "cascade", Seen(t, OneOpen))
  <2>1. OneOpen \notin DOMAIN tx[t].writes
    BY <1>2, <1>3, <1>7, RowsDiffer
       DEF Pending, RowWrite, OpenWrite, StepWrite, CascadeWrite, RefWrite, RevisionWrite
  <2>2. Seen(t, OneOpen) = db[OneOpen]
    BY <2>1 DEF Seen, Written
  <2>3. /\ Advanced(t) /\ holder' = holder /\ tx'[t].cascade = db[OneOpen]
        /\ tx'[t].head = tx[t].head /\ tx'[t].tip = tx[t].tip
        /\ tx'[t].found = tx[t].found /\ tx'[t].writes = tx[t].writes
    BY <1>2, <1>7, <2>2, RememberForm DEF Fields
  <2>4. Done(tx'[t]) = Done(tx[t]) \cup {"get_open"} /\ tx'[t].kind = tx[t].kind
    BY <1>1, <1>2, <2>3, AdvancedFact DEF Advanced
  <2>5. tx[t].tip = None
    BY <1>2, <1>3 DEF Remembered
  <2>6. Remembered(db, tx'[t])
    BY <1>2, <1>7, <2>2, <2>3, <2>4, <2>5, NamedFact DEF Remembered, Beginning, Closing
  <2>7. QED BY <1>1, <1>2, <2>3, <2>6, ReadInv
<1>8. QED BY <1>5, <1>6, <1>7 DEF get_open, Beginning

\* The tip of a cascade that a session sees belongs to the cascade, unless it
\* has moved or deleted the ref itself.
LEMMA SeenRefFact ==
    ASSUME Inv, NEW t \in Sessions, NEW s, At(t, s), s # "none",
           tx[t].cascade # None, Seen(t, Ref(tx[t].cascade)) # None,
           ~Beginning(tx[t]), "record" \notin Done(tx[t])
    PROVE  /\ Ref(tx[t].cascade) \notin DOMAIN tx[t].writes
           /\ db[Ref(tx[t].cascade)] # None
           /\ Seen(t, Ref(tx[t].cascade)) = db[Ref(tx[t].cascade)]
           /\ Belongs(db, Seen(t, Ref(tx[t].cascade)), tx[t].cascade)
<1> DEFINE c == tx[t].cascade
<1>1. Committed(db) /\ Pending(db, tx[t], t) /\ c \in Named
  BY AtFact DEF Remembered
<1>2. Ref(c) \notin DOMAIN tx[t].writes
  <2>1. SUFFICES ASSUME Ref(c) \in DOMAIN tx[t].writes
                 PROVE  FALSE
    OBVIOUS
  <2>2. RefWrite(db, tx[t], t, Ref(c))
    BY <1>1, <2>1, RowsDiffer DEF Pending, RowWrite, StepWrite, CascadeWrite, RevisionWrite
  <2>3. tx[t].writes[Ref(c)] = None
    BY <2>2 DEF RefWrite
  <2>4. QED BY <2>1, <2>3 DEF Seen, Written
<1>3. Seen(t, Ref(c)) = db[Ref(c)]
  BY <1>2 DEF Seen, Written
<1>4. QED BY <1>1, <1>2, <1>3 DEF Committed, HistoryAgrees

LEMMA GetRefInv == ASSUME Inv, NEW t \in Sessions, get_ref(t) PROVE Inv'
<1> DEFINE c == tx[t].cascade
<1>1. At(t, "get_ref")
  BY DEF get_ref
<1>2. /\ ShapeOK /\ tx[t].state = "running" /\ Remembered(db, tx[t])
      /\ holder \in Sessions \cup {None} /\ ProgramOK(tx[t].kind, tx[t].pc)
      /\ Statements[tx[t].kind][tx[t].pc] = "get_ref"
      /\ Done(tx[t]) = {Statements[tx[t].kind][i] : i \in 1 .. (tx[t].pc - 1)}
  BY <1>1, AtFact
<1>3. "record" \notin Done(tx[t]) /\ ~Beginning(tx[t])
      /\ (Closing(tx[t]) => tx[t].cascade # None)
  BY <1>2 DEF ProgramOK, Beginning, Closing, Remembered
<1>4. CASE Raise(t)
  BY <1>2, <1>4, RaiseInv
<1>5. CASE c = None /\ Skip(t)
  <2>1. /\ Advanced(t) /\ holder' = holder
        /\ tx'[t].head = tx[t].head /\ tx'[t].tip = tx[t].tip
        /\ tx'[t].cascade = tx[t].cascade
        /\ tx'[t].found = tx[t].found /\ tx'[t].writes = tx[t].writes
    BY <1>2, <1>5, RememberForm DEF Fields, Skip
  <2>2. Done(tx'[t]) = Done(tx[t]) \cup {"get_ref"} /\ tx'[t].kind = tx[t].kind
    BY <1>1, <1>2, <2>1, AdvancedFact DEF Advanced
  <2>3. Remembered(db, tx'[t])
    BY <1>2, <1>3, <1>5, <2>1, <2>2 DEF Remembered, Beginning, Closing
  <2>4. QED BY <1>1, <1>2, <2>1, <2>3, ReadInv
<1>6. CASE c # None /\ Seen(t, Ref(c)) # None /\ Remember(t, "tip", Seen(t, Ref(c)))
  <2>1. Belongs(db, Seen(t, Ref(c)), c)
    BY <1>1, <1>3, <1>6, SeenRefFact
  <2>2. /\ Advanced(t) /\ holder' = holder /\ tx'[t].tip = Seen(t, Ref(c))
        /\ tx'[t].head = tx[t].head /\ tx'[t].cascade = c
        /\ tx'[t].found = tx[t].found /\ tx'[t].writes = tx[t].writes
    BY <1>2, <1>6, RememberForm DEF Fields
  <2>3. Done(tx'[t]) = Done(tx[t]) \cup {"get_ref"} /\ tx'[t].kind = tx[t].kind
    BY <1>1, <1>2, <2>2, AdvancedFact DEF Advanced
  <2>4. Remembered(db, tx'[t])
    BY <1>2, <1>3, <1>6, <2>1, <2>2, <2>3 DEF Remembered, Beginning, Closing
  <2>5. QED BY <1>1, <1>2, <2>2, <2>4, ReadInv
<1>7. QED BY <1>4, <1>5, <1>6 DEF get_ref

----------------------------------------------------------------------------
(* The statements that write                                               *)

\* Nobody else writes the rows that are named by a session.
LEMMA OwnFact ==
    ASSUME Inv, NEW t \in Sessions, tx[t].state # "done", NEW u \in Sessions, u # t
    PROVE  {Cascade(t), Ref(t), Revision(t)} \cap DOMAIN tx[u].writes = {}
<1>1. Unborn(db, tx[t], t) /\ Pending(db, tx[u], u) /\ Remembered(db, tx[u]) /\ SessionOK(tx[u])
  BY DEF Inv, Local, ShapeOK
<1>2. db[Cascade(t)] = None /\ None # "open"
  BY <1>1, NamedFact DEF Unborn
<1>3. Cascade(t) \notin DOMAIN tx[u].writes
  BY <1>1, <1>2, RowsDiffer
     DEF Pending, RowWrite, StepWrite, CascadeWrite, RefWrite, RevisionWrite
<1>4. Revision(t) \notin DOMAIN tx[u].writes
  BY <1>1, RowsDiffer
     DEF Pending, RowWrite, StepWrite, CascadeWrite, RefWrite, RevisionWrite
<1>5. Ref(t) \notin DOMAIN tx[u].writes
  <2>1. SUFFICES ASSUME Ref(t) \in DOMAIN tx[u].writes
                 PROVE  FALSE
    OBVIOUS
  <2>2. tx[u].state = "running"
    BY <1>1, <2>1 DEF SessionOK
  <2>3. RefWrite(db, tx[u], u, Ref(t))
    BY <1>1, <2>1, RowsDiffer DEF Pending, RowWrite, StepWrite, CascadeWrite, RevisionWrite
  <2>4. tx[u].cascade # None /\ tx[u].cascade = t
    BY <2>3, RowsDiffer DEF RefWrite
  <2>5. QED BY <1>1, <1>2, <2>2, <2>4 DEF Remembered
<1>6. QED BY <1>3, <1>4, <1>5

\* A statement of t adds the writes new.
Wrote(t, new) ==
    /\ Advanced(t) /\ holder' = holder
    /\ tx'[t].head = tx[t].head /\ tx'[t].cascade = tx[t].cascade
    /\ tx'[t].tip = tx[t].tip
    /\ DOMAIN tx'[t].writes = DOMAIN new \cup DOMAIN tx[t].writes
    /\ \A row \in DOMAIN new : tx'[t].writes[row] = new[row]
    /\ \A row \in DOMAIN tx[t].writes \ DOMAIN new :
        tx'[t].writes[row] = tx[t].writes[row]

LEMMA WriteForm ==
    ASSUME ShapeOK, NEW t \in Sessions, tx[t].state = "running", NEW new, Write(t, new)
    PROVE  Wrote(t, new) /\ tx'[t].found = tx[t].found
<1> DEFINE over == Over(new, tx[t].writes)
<1>1. /\ DOMAIN over = DOMAIN new \cup DOMAIN tx[t].writes
      /\ \A row \in DOMAIN new : over[row] = new[row]
      /\ \A row \in DOMAIN tx[t].writes \ DOMAIN new : over[row] = tx[t].writes[row]
  BY OverFact
<1>2. Remember(t, "writes", over)
  BY DEF Write
<1> HIDE DEF over
<1>3. /\ Advanced(t) /\ holder' = holder /\ tx'[t].writes = over
      /\ tx'[t].head = tx[t].head /\ tx'[t].cascade = tx[t].cascade
      /\ tx'[t].tip = tx[t].tip /\ tx'[t].found = tx[t].found
  BY <1>2, RememberForm DEF Fields
<1>4. QED BY <1>1, <1>3 DEF Wrote

LEMMA WroteInv ==
    ASSUME Inv, NEW t \in Sessions, NEW s, At(t, s),
           s \notin {"none", "commit", "admit", "get_open", "get_ref", "list_ids"},
           NEW new, Wrote(t, new),
           tx'[t].found = tx[t].found \/ s = "lock_row",
           DOMAIN new \subseteq Rows,
           \A row \in DOMAIN new : RowWrite(db, tx'[t], t, row),
           \A u \in Sessions : u # t => DOMAIN new \cap DOMAIN tx[u].writes = {},
           s = "create_ref" => Ref(t) \in DOMAIN new,
           s = "insert_cascade" => Cascade(t) \in DOMAIN new,
           s = "close" => Cascade(tx[t].cascade) \in DOMAIN new,
           s = "delete_ref" => Ref(tx[t].cascade) \in DOMAIN new,
           s = "insert_step" => StepId(tx[t].found) \in DOMAIN new
    PROVE  Inv'
<1>1. /\ ShapeOK /\ Remembered(db, tx[t]) /\ tx[t].state = "running"
      /\ DOMAIN tx[t].writes \subseteq Rows /\ holder \in Sessions \cup {None}
  BY AtFact, RunningFact
<1>2. /\ Advanced(t) /\ holder' = holder
      /\ tx'[t].head = tx[t].head /\ tx'[t].cascade = tx[t].cascade
      /\ tx'[t].tip = tx[t].tip
  BY DEF Wrote
<1>3. Done(tx'[t]) = Done(tx[t]) \cup {s} /\ tx'[t].kind = tx[t].kind
  BY <1>1, <1>2, AdvancedFact DEF Advanced
<1>4. Remembered(db, tx'[t])
  <2>1. s = "lock_row" => tx[t].kind = "report"
    BY AtFact DEF ProgramOK
  <2>2. tx'[t].found = tx[t].found \/ tx[t].kind = "report"
    BY <2>1
  <2>3. QED BY <1>1, <1>2, <1>3, <2>2 DEF Remembered, Beginning, Closing
<1>5. /\ DOMAIN tx'[t].writes = DOMAIN new \cup DOMAIN tx[t].writes
      /\ \A row \in DOMAIN tx[t].writes \ DOMAIN new : tx'[t].writes[row] = tx[t].writes[row]
  BY DEF Wrote
<1>6. Pending(db, tx'[t], t)
  <2>1. ASSUME NEW row \in DOMAIN tx[t].writes \ DOMAIN new
        PROVE  RowWrite(db, tx'[t], t, row)
    BY <1>2, <1>5, RowWriteKept
  <2>2. QED BY <1>5, <2>1 DEF Pending
<1>7. Performed(tx'[t], t)
  BY <1>2, <1>5, PerformedKept
<1>8. \A u \in Sessions : u # t => Exclusive(tx'[t].writes, tx[u].writes)
  BY <1>5 DEF Inv, Exclusive
<1>9. QED BY <1>1, <1>2, <1>4, <1>5, <1>6, <1>7, <1>8, AdvancedInv

LEMMA SetStatusInv == ASSUME Inv, NEW t \in Sessions, set_status(t) PROVE Inv'
<1> DEFINE new == Put(Plan, Seen(t, Plan))
<1>1. At(t, "set_status") /\ Write(t, new)
  BY DEF set_status
<1>2. /\ ShapeOK /\ tx[t].state = "running" /\ ProgramOK(tx[t].kind, tx[t].pc)
      /\ Statements[tx[t].kind][tx[t].pc] = "set_status"
      /\ Done(tx[t]) = {Statements[tx[t].kind][i] : i \in 1 .. (tx[t].pc - 1)}
  BY <1>1, AtFact
<1>3. Belongs(db, Seen(t, Plan), None)
  <2>1. "record" \notin Done(tx[t]) /\ "set_head" \notin Done(tx[t])
    BY <1>2 DEF ProgramOK
  <2>2. QED BY <1>1, <2>1, SeenPlanFact
<1>4. Wrote(t, new) /\ tx'[t].found = tx[t].found
  BY <1>1, <1>2, WriteForm
<1>5. DOMAIN new = {Plan} /\ new[Plan] = Seen(t, Plan)
  BY PutFact
<1> HIDE DEF new
<1>6. tx'[t].writes[Plan] = Seen(t, Plan)
  BY <1>4, <1>5 DEF Wrote
<1>7. RowWrite(db, tx'[t], t, Plan)
  BY <1>3, <1>6 DEF RowWrite, PlanWrite
<1>8. \A u \in Sessions : u # t => DOMAIN new \cap DOMAIN tx[u].writes = {}
  BY <1>1, <1>2, <1>5, RunningFact DEF Target, Statement, Written
<1>9. QED BY <1>1, <1>4, <1>5, <1>7, <1>8, RowsFact, WroteInv

LEMMA SetHeadInv == ASSUME Inv, NEW t \in Sessions, set_head(t) PROVE Inv'
<1> DEFINE new == Put(Plan, tx[t].tip)
<1>1. At(t, "set_head") /\ Write(t, new)
  BY DEF set_head
<1>2. /\ ShapeOK /\ tx[t].state = "running" /\ ProgramOK(tx[t].kind, tx[t].pc)
      /\ Statements[tx[t].kind][tx[t].pc] = "set_head" /\ Remembered(db, tx[t])
      /\ Done(tx[t]) = {Statements[tx[t].kind][i] : i \in 1 .. (tx[t].pc - 1)}
  BY <1>1, AtFact
<1>3. tx[t].kind = "cascade_commit" /\ tx[t].tip # None
  BY <1>2 DEF ProgramOK, Remembered
<1>4. Wrote(t, new) /\ tx'[t].found = tx[t].found
  BY <1>1, <1>2, WriteForm
<1>5. DOMAIN new = {Plan} /\ new[Plan] = tx[t].tip
  BY PutFact
<1> HIDE DEF new
<1>6. tx'[t].writes[Plan] = tx'[t].tip /\ tx'[t].tip = tx[t].tip /\ tx'[t].kind = tx[t].kind
  BY <1>4, <1>5 DEF Wrote, Advanced
<1>7. "set_head" \in Done(tx'[t])
  BY <1>1, <1>2, <1>4, AdvancedFact DEF Wrote
<1>8. RowWrite(db, tx'[t], t, Plan)
  BY <1>3, <1>6, <1>7 DEF RowWrite, PlanWrite
<1>9. \A u \in Sessions : u # t => DOMAIN new \cap DOMAIN tx[u].writes = {}
  BY <1>1, <1>2, <1>5, RunningFact DEF Target, Statement, Written
<1>10. QED BY <1>1, <1>4, <1>5, <1>8, <1>9, RowsFact, WroteInv

LEMMA CreateRefInv == ASSUME Inv, NEW t \in Sessions, create_ref(t) PROVE Inv'
<1> DEFINE new == Put(Ref(t), tx[t].head)
<1>1. At(t, "create_ref") /\ Write(t, new)
  BY DEF create_ref
<1>2. /\ ShapeOK /\ tx[t].state = "running" /\ ProgramOK(tx[t].kind, tx[t].pc)
      /\ Statements[tx[t].kind][tx[t].pc] = "create_ref" /\ Remembered(db, tx[t])
      /\ Done(tx[t]) = {Statements[tx[t].kind][i] : i \in 1 .. (tx[t].pc - 1)}
  BY <1>1, AtFact
<1>3. Beginning(tx[t]) /\ Belongs(db, tx[t].head, None)
  BY <1>2 DEF ProgramOK, Remembered, Beginning
<1>4. Wrote(t, new) /\ tx'[t].found = tx[t].found
  BY <1>1, <1>2, WriteForm
<1>5. DOMAIN new = {Ref(t)} /\ new[Ref(t)] = tx[t].head
  BY PutFact
<1> HIDE DEF new
<1>6. tx'[t].writes[Ref(t)] = tx[t].head /\ Beginning(tx'[t])
  BY <1>3, <1>4, <1>5 DEF Wrote, Advanced, Beginning
<1>7. RowWrite(db, tx'[t], t, Ref(t))
  BY <1>3, <1>6 DEF RowWrite, RefWrite
<1>8. \A u \in Sessions : u # t => DOMAIN new \cap DOMAIN tx[u].writes = {}
  BY <1>2, <1>5, OwnFact
<1>9. Ref(t) \in Rows
  BY RowsFact, NamedFact
<1>10. QED BY <1>1, <1>4, <1>5, <1>7, <1>8, <1>9, WroteInv

LEMMA DeleteRefInv == ASSUME Inv, NEW t \in Sessions, delete_ref(t) PROVE Inv'
<1> DEFINE c == tx[t].cascade
           new == Put(Ref(c), None)
<1>1. At(t, "delete_ref") /\ Write(t, new)
  BY DEF delete_ref
<1>2. /\ ShapeOK /\ tx[t].state = "running" /\ ProgramOK(tx[t].kind, tx[t].pc)
      /\ Statements[tx[t].kind][tx[t].pc] = "delete_ref" /\ Remembered(db, tx[t])
      /\ Done(tx[t]) = {Statements[tx[t].kind][i] : i \in 1 .. (tx[t].pc - 1)}
  BY <1>1, AtFact
<1>3. Closing(tx[t]) /\ c \in Named /\ c # None
  BY <1>2 DEF ProgramOK, Remembered, Closing
<1>4. Wrote(t, new) /\ tx'[t].found = tx[t].found
  BY <1>1, <1>2, WriteForm
<1>5. DOMAIN new = {Ref(c)} /\ new[Ref(c)] = None
  BY PutFact
<1>6. \A u \in Sessions : u # t => Ref(c) \notin DOMAIN tx[u].writes
  BY <1>1, <1>2, RunningFact DEF Target, Statement, Written
<1> HIDE DEF new
<1>7. /\ tx'[t].writes[Ref(c)] = None /\ Closing(tx'[t]) /\ tx'[t].cascade = c
  BY <1>3, <1>4, <1>5 DEF Wrote, Advanced, Closing
<1>8. "delete_ref" \in Done(tx'[t])
  BY <1>1, <1>2, <1>4, AdvancedFact DEF Wrote
<1> HIDE DEF c
<1>9. RowWrite(db, tx'[t], t, Ref(c))
  BY <1>3, <1>7, <1>8 DEF RowWrite, RefWrite
<1>10. Ref(c) \in Rows
  BY <1>3, RowsFact
<1>11. QED BY <1>1, <1>4, <1>5, <1>6, <1>9, <1>10, WroteInv DEF c

LEMMA InsertStepInv == ASSUME Inv, NEW t \in Sessions, insert_step(t) PROVE Inv'
<1> DEFINE key == StepId(tx[t].found)
           new == Put(key, t)
<1>1. At(t, "insert_step")
  BY DEF insert_step
<1>2. /\ ShapeOK /\ tx[t].state = "running" /\ ProgramOK(tx[t].kind, tx[t].pc)
      /\ Statements[tx[t].kind][tx[t].pc] = "insert_step" /\ Remembered(db, tx[t])
      /\ Done(tx[t]) = {Statements[tx[t].kind][i] : i \in 1 .. (tx[t].pc - 1)}
      /\ Pending(db, tx[t], t)
  BY <1>1, AtFact
<1>3. tx[t].kind = "create" /\ key \in Rows
  BY <1>2 DEF ProgramOK, Remembered
<1>4. CASE StatementFails(t)
  BY <1>2, <1>4, StatementFailsInv
<1>5. CASE Seen(t, key) = None /\ Write(t, new)
  <2>1. Wrote(t, new) /\ tx'[t].found = tx[t].found
    BY <1>2, <1>5, WriteForm
  <2>2. DOMAIN new = {key} /\ new[key] = t
    BY PutFact
  <2>3. \A u \in Sessions : u # t => key \notin DOMAIN tx[u].writes
    BY <1>1, <1>2, RunningFact DEF Target, Statement, Written
  <2> HIDE DEF new
  <2>4. db[key] = None
    <3>1. key \in DOMAIN tx[t].writes => StepWrite(db, tx[t], t, key)
      BY <1>2, RowsDiffer DEF Pending, RowWrite, CascadeWrite, RefWrite, RevisionWrite
    <3>2. t # None
      BY NamedFact
    <3>3. QED BY <1>5, <3>1, <3>2 DEF StepWrite, Seen, Written
  <2>5. /\ tx'[t].writes[key] = t /\ tx'[t].kind = "create"
        /\ "insert_step" \in Done(tx'[t]) /\ key = StepId(tx'[t].found)
    BY <1>1, <1>2, <1>3, <2>1, <2>2, AdvancedFact DEF Wrote, Advanced
  <2>6. RowWrite(db, tx'[t], t, key)
    BY <2>4, <2>5 DEF RowWrite, StepWrite
  <2>7. QED BY <1>1, <1>3, <2>1, <2>2, <2>3, <2>6, WroteInv
<1>6. QED BY <1>4, <1>5 DEF insert_step, Insert

LEMMA InsertCascadeInv == ASSUME Inv, NEW t \in Sessions, insert_cascade(t) PROVE Inv'
<1> DEFINE new == Over(Put(Cascade(t), "open"), Put(OneOpen, t))
<1>1. At(t, "insert_cascade")
  BY DEF insert_cascade
<1>2. /\ ShapeOK /\ tx[t].state = "running" /\ ProgramOK(tx[t].kind, tx[t].pc)
      /\ Statements[tx[t].kind][tx[t].pc] = "insert_cascade"
      /\ Done(tx[t]) = {Statements[tx[t].kind][i] : i \in 1 .. (tx[t].pc - 1)}
      /\ Pending(db, tx[t], t)
  BY <1>1, AtFact
<1>3. Beginning(tx[t])
  BY <1>2 DEF ProgramOK, Beginning
<1>4. CASE StatementFails(t)
  BY <1>2, <1>4, StatementFailsInv
<1>5. CASE Seen(t, OneOpen) = None /\ Write(t, new)
  <2>1. Wrote(t, new) /\ tx'[t].found = tx[t].found
    BY <1>2, <1>5, WriteForm
  <2>2. /\ DOMAIN new = {Cascade(t), OneOpen}
        /\ new[Cascade(t)] = "open" /\ new[OneOpen] = t
    BY RowsDiffer, PutFact, OverFact DEF Put, Over
  <2>3. \A u \in Sessions : u # t => OneOpen \notin DOMAIN tx[u].writes
    BY <1>1, <1>2, RunningFact DEF Target, Statement, Written
  <2>4. \A u \in Sessions : u # t => Cascade(t) \notin DOMAIN tx[u].writes
    BY <1>2, OwnFact
  <2> HIDE DEF new
  <2>5. db[OneOpen] = None
    <3>1. OneOpen \in DOMAIN tx[t].writes => OpenWrite(tx[t], t)
      BY <1>2, RowsDiffer
         DEF Pending, RowWrite, StepWrite, CascadeWrite, RefWrite, RevisionWrite
    <3>2. t # None
      BY NamedFact
    <3>3. QED BY <1>3, <1>5, <3>1, <3>2 DEF OpenWrite, Seen, Written, Beginning, Closing
  <2>6. /\ tx'[t].writes[OneOpen] = t /\ tx'[t].writes[Cascade(t)] = "open"
        /\ {Cascade(t), OneOpen} \subseteq DOMAIN tx'[t].writes /\ Beginning(tx'[t])
    BY <1>3, <2>1, <2>2 DEF Wrote, Advanced, Beginning
  <2>7. RowWrite(db, tx'[t], t, OneOpen)
    BY <2>6 DEF RowWrite, OpenWrite
  <2>8. RowWrite(db, tx'[t], t, Cascade(t))
    BY <2>5, <2>6 DEF RowWrite, CascadeWrite
  <2>9. OneOpen \in Rows /\ Cascade(t) \in Rows
    BY RowsFact, NamedFact
  <2>10. QED BY <1>1, <2>1, <2>2, <2>3, <2>4, <2>7, <2>8, <2>9, WroteInv
<1>6. QED BY <1>4, <1>5 DEF insert_cascade, Insert

\* While a session closes the open cascade, no other session opens or closes.
LEMMA OpenFact ==
    ASSUME Inv, NEW t \in Sessions, NEW c \in Named, db[Cascade(c)] = "open",
           NEW u \in Sessions, Cascade(c) \notin DOMAIN tx[u].writes
    PROVE  OneOpen \notin DOMAIN tx[u].writes
<1>1. OpenAgrees(db) /\ Pending(db, tx[u], u) /\ SessionOK(tx[u]) /\ Remembered(db, tx[u])
  BY DEF Inv, Committed, ShapeOK, Local
<1>2. db[OneOpen] = c /\ db[OneOpen] # None
  BY <1>1, NamedFact DEF OpenAgrees
<1>3. SUFFICES ASSUME OneOpen \in DOMAIN tx[u].writes
               PROVE  FALSE
  OBVIOUS
<1>4. OpenWrite(tx[u], u) /\ tx[u].state = "running"
  BY <1>1, <1>3, RowsDiffer
     DEF Pending, RowWrite, StepWrite, CascadeWrite, RefWrite, RevisionWrite, SessionOK
<1>5. CASE Beginning(tx[u]) /\ Cascade(u) \in DOMAIN tx[u].writes
  <2>1. CascadeWrite(db, tx[u], u, Cascade(u))
    BY <1>1, <1>5, RowsDiffer DEF Pending, RowWrite, StepWrite, RefWrite, RevisionWrite
  <2>2. QED BY <1>2, <1>5, <2>1 DEF CascadeWrite, Beginning, Closing
<1>6. CASE Closing(tx[u]) /\ Cascade(tx[u].cascade) \in DOMAIN tx[u].writes
  <2>1. CascadeWrite(db, tx[u], u, Cascade(tx[u].cascade))
    BY <1>1, <1>6, RowsDiffer DEF Pending, RowWrite, StepWrite, RefWrite, RevisionWrite
  <2>2. tx[u].cascade # None /\ db[Cascade(tx[u].cascade)] = "open"
    BY <1>6, <2>1 DEF CascadeWrite, Beginning, Closing
  <2>3. tx[u].cascade \in Named
    BY <1>1, <1>4, <2>2 DEF Remembered
  <2>4. tx[u].cascade = c
    BY <1>1, <1>2, <2>2, <2>3 DEF OpenAgrees
  <2>5. QED BY <1>6, <2>4
<1>7. QED BY <1>4, <1>5, <1>6 DEF OpenWrite

LEMMA CloseInv == ASSUME Inv, NEW t \in Sessions, close(t) PROVE Inv'
<1> DEFINE c == tx[t].cascade
           new == Over(Put(Cascade(c), Closed(t)), Put(OneOpen, None))
<1>1. At(t, "close")
  BY DEF close
<1>2. /\ ShapeOK /\ tx[t].state = "running" /\ ProgramOK(tx[t].kind, tx[t].pc)
      /\ Statements[tx[t].kind][tx[t].pc] = "close"
      /\ Done(tx[t]) = {Statements[tx[t].kind][i] : i \in 1 .. (tx[t].pc - 1)}
      /\ Pending(db, tx[t], t) /\ Remembered(db, tx[t])
  BY <1>1, AtFact
<1>3. Closing(tx[t]) /\ c # None /\ c \in Named /\ ~Beginning(tx[t])
  BY <1>2 DEF ProgramOK, Closing, Remembered, Beginning
<1>4. CASE Raise(t)
  BY <1>2, <1>4, RaiseInv
<1>5. CASE Seen(t, Cascade(c)) = "open" /\ Write(t, new)
  <2>1. Wrote(t, new) /\ tx'[t].found = tx[t].found
    BY <1>2, <1>5, WriteForm
  <2>2. /\ DOMAIN new = {Cascade(c), OneOpen}
        /\ new[Cascade(c)] = Closed(t) /\ new[OneOpen] = None
    BY RowsDiffer DEF Put, Over
  <2>3. \A u \in Sessions : u # t => Cascade(c) \notin DOMAIN tx[u].writes
    BY <1>1, <1>2, RunningFact DEF Target, Statement, Written
  <2> HIDE DEF new
  <2>4. db[Cascade(c)] = "open"
    <3>1. Cascade(c) \in DOMAIN tx[t].writes => CascadeWrite(db, tx[t], t, Cascade(c))
      BY <1>2, RowsDiffer DEF Pending, RowWrite, StepWrite, RefWrite, RevisionWrite
    <3>2. CascadeWrite(db, tx[t], t, Cascade(c)) => tx[t].writes[Cascade(c)] # "open"
      BY <1>3 DEF CascadeWrite
    <3>3. QED BY <1>5, <3>1, <3>2 DEF Seen, Written
  <2>5. \A u \in Sessions : u # t => OneOpen \notin DOMAIN tx[u].writes
    BY <1>3, <2>3, <2>4, OpenFact
  <2>6. /\ tx'[t].writes[OneOpen] = None
        /\ tx'[t].writes[Cascade(c)] =
              IF tx'[t].kind = "cascade_commit" THEN "committed" ELSE "aborted"
        /\ {Cascade(c), OneOpen} \subseteq DOMAIN tx'[t].writes
        /\ Closing(tx'[t]) /\ tx'[t].cascade = c
    BY <1>3, <2>1, <2>2 DEF Wrote, Advanced, Closing, Closed
  <2>7. "close" \in Done(tx'[t])
    BY <1>1, <1>2, <2>1, AdvancedFact DEF Wrote
  <2>8. RowWrite(db, tx'[t], t, OneOpen)
    BY <2>6, <2>7 DEF RowWrite, OpenWrite
  <2>9. RowWrite(db, tx'[t], t, Cascade(c))
    BY <1>3, <2>4, <2>6, <2>7 DEF RowWrite, CascadeWrite
  <2>10. OneOpen \in Rows /\ Cascade(c) \in Rows
    BY <1>3, RowsFact
  <2>11. QED BY <1>1, <2>1, <2>2, <2>3, <2>5, <2>8, <2>9, <2>10, WroteInv
<1>6. QED BY <1>4, <1>5 DEF close

LEMMA RecordInv == ASSUME Inv, NEW t \in Sessions, record(t) PROVE Inv'
<1> DEFINE c == tx[t].cascade
           Row(parent) == [parent |-> parent, cascade |-> c]
           Made(parent) == Put(Revision(t), Row(parent))
<1>1. At(t, "record")
  BY DEF record
<1>2. /\ ShapeOK /\ tx[t].state = "running" /\ ProgramOK(tx[t].kind, tx[t].pc)
      /\ Statements[tx[t].kind][tx[t].pc] = "record"
      /\ Done(tx[t]) = {Statements[tx[t].kind][i] : i \in 1 .. (tx[t].pc - 1)}
      /\ Pending(db, tx[t], t) /\ Remembered(db, tx[t])
  BY <1>1, AtFact
<1>3. ~Closing(tx[t]) /\ ~Beginning(tx[t]) /\ "record" \notin Done(tx[t])
  BY <1>2 DEF ProgramOK, Closing, Beginning
<1>4. \A u \in Sessions : u # t => Revision(t) \notin DOMAIN tx[u].writes
  BY <1>2, OwnFact
<1>5. Revision(t) \in Rows
  BY RowsFact, NamedFact
<1>6. c \in Named \cup {None}
  BY <1>2 DEF Remembered
<1>7. ASSUME NEW parent, NEW new,
             parent = None \/ Belongs(db, parent, c),
             Wrote(t, new), Revision(t) \in DOMAIN new, new[Revision(t)] = Row(parent)
      PROVE  /\ RowWrite(db, tx'[t], t, Revision(t))
             /\ Revision(t) \in DOMAIN tx'[t].writes
             /\ "record" \in Done(tx'[t]) /\ tx'[t].cascade = c
  <2>1. Row(parent) \in RevisionRows
    BY <1>6, <1>7 DEF RevisionRows, Belongs
  <2>2. /\ Revision(t) \in DOMAIN tx'[t].writes
        /\ tx'[t].writes[Revision(t)] = Row(parent) /\ tx'[t].cascade = c
    BY <1>7 DEF Wrote
  <2>3. "record" \in Done(tx'[t])
    BY <1>1, <1>2, <1>7, AdvancedFact DEF Wrote
  <2>4. Row(parent).parent = parent /\ Row(parent).cascade = c
    OBVIOUS
  <2> HIDE DEF Row, c
  <2>5. RevisionWrite(db, tx'[t], t, Revision(t))
    BY <1>7, <2>1, <2>2, <2>3, <2>4 DEF RevisionWrite
  <2>6. QED BY <2>2, <2>3, <2>5 DEF RowWrite
<1>8. CASE c = None /\ Write(t, Over(Made(tx[t].head), Put(Plan, t)))
  <2> DEFINE new == Over(Made(tx[t].head), Put(Plan, t))
  <2>1. Wrote(t, new) /\ tx'[t].found = tx[t].found
    BY <1>2, <1>8, WriteForm
  <2>2. /\ DOMAIN new = {Revision(t), Plan}
        /\ new[Revision(t)] = Row(tx[t].head) /\ new[Plan] = t
    BY RowsDiffer DEF Put, Over
  <2>3. \A u \in Sessions : u # t => Plan \notin DOMAIN tx[u].writes
    BY <1>1, <1>2, <1>8, RunningFact DEF Target, Statement, Written
  <2>4. tx[t].head = None \/ Belongs(db, tx[t].head, c)
    BY <1>2, <1>8 DEF Remembered
  <2> HIDE DEF new
  <2>5. /\ RowWrite(db, tx'[t], t, Revision(t))
        /\ Revision(t) \in DOMAIN tx'[t].writes
        /\ "record" \in Done(tx'[t]) /\ tx'[t].cascade = c
    BY <1>7, <2>1, <2>2, <2>4
  <2>6. tx'[t].writes[Plan] = t
    BY <2>1, <2>2 DEF Wrote
  <2>7. RowWrite(db, tx'[t], t, Plan)
    BY <1>8, <2>5, <2>6 DEF RowWrite, PlanWrite
  <2>8. QED BY <1>1, <1>4, <1>5, <2>1, <2>2, <2>3, <2>5, <2>7, RowsFact, WroteInv
<1>9. tx[t].tip = None \/ Belongs(db, tx[t].tip, c)
  BY <1>2 DEF Remembered
<1>10. CASE c # None /\ Write(t, Made(tx[t].tip))
  <2> DEFINE new == Made(tx[t].tip)
  <2>1. Wrote(t, new) /\ tx'[t].found = tx[t].found
    BY <1>2, <1>10, WriteForm
  <2>2. /\ DOMAIN new = {Revision(t)} /\ new[Revision(t)] = Row(tx[t].tip)
    BY PutFact
  <2> HIDE DEF new
  <2>3. RowWrite(db, tx'[t], t, Revision(t))
    BY <1>7, <1>9, <2>1, <2>2
  <2>4. QED BY <1>1, <1>4, <1>5, <2>1, <2>2, <2>3, WroteInv
<1>11. CASE /\ c # None /\ Seen(t, Ref(c)) # None
            /\ Write(t, Over(Made(tx[t].tip), Put(Ref(c), t)))
  <2> DEFINE new == Over(Made(tx[t].tip), Put(Ref(c), t))
  <2>1. Wrote(t, new) /\ tx'[t].found = tx[t].found
    BY <1>2, <1>11, WriteForm
  <2>2. /\ DOMAIN new = {Revision(t), Ref(c)}
        /\ new[Revision(t)] = Row(tx[t].tip) /\ new[Ref(c)] = t
    BY RowsDiffer DEF Put, Over
  <2>3. \A u \in Sessions : u # t => Ref(c) \notin DOMAIN tx[u].writes
    BY <1>1, <1>2, <1>11, RunningFact DEF Target, Statement, Written
  <2>4. db[Ref(c)] # None
    BY <1>1, <1>3, <1>11, SeenRefFact
  <2> HIDE DEF new
  <2>5. /\ RowWrite(db, tx'[t], t, Revision(t))
        /\ Revision(t) \in DOMAIN tx'[t].writes
        /\ "record" \in Done(tx'[t]) /\ tx'[t].cascade = c
    BY <1>7, <1>9, <2>1, <2>2
  <2>6. tx'[t].writes[Ref(c)] = t
    BY <2>1, <2>2 DEF Wrote
  <2>7. RowWrite(db, tx'[t], t, Ref(c))
    BY <1>11, <2>4, <2>5, <2>6 DEF RowWrite, RefWrite
  <2>8. Ref(c) \in Rows
    BY <1>6, <1>11, RowsFact
  <2>9. QED BY <1>1, <1>4, <1>5, <2>1, <2>2, <2>3, <2>5, <2>7, <2>8, WroteInv
<1>12. QED BY <1>8, <1>10, <1>11 DEF record

\* The statements of a report, whose only row nobody else uses.
LEMMA RuntimeInv ==
    ASSUME Inv, NEW t \in Sessions, NEW s \in {"insert_row", "lock_row", "merge"},
           At(t, s), NEW value, Wrote(t, Put(Runtime, value)),
           tx'[t].found = tx[t].found \/ s = "lock_row",
           s = "insert_row" => tx[t].found = None
    PROVE  Inv'
<1>1. /\ ShapeOK /\ tx[t].state = "running" /\ ProgramOK(tx[t].kind, tx[t].pc)
      /\ Statements[tx[t].kind][tx[t].pc] = s
  BY AtFact
<1>2. tx'[t].kind = "report"
  BY <1>1 DEF ProgramOK, Wrote, Advanced
<1>3. RowWrite(db, tx'[t], t, Runtime)
  BY <1>2 DEF RowWrite
<1>4. \A u \in Sessions : u # t => Runtime \notin DOMAIN tx[u].writes
  BY <1>1, RunningFact DEF Target, Statement, Written
<1>5. DOMAIN Put(Runtime, value) = {Runtime}
  BY PutFact
<1>6. QED BY <1>3, <1>4, <1>5, RowsFact, WroteInv

LEMMA InsertRowInv == ASSUME Inv, NEW t \in Sessions, insert_row(t) PROVE Inv'
<1>1. At(t, "insert_row")
  BY DEF insert_row
<1>2. ShapeOK /\ tx[t].state = "running" /\ Remembered(db, tx[t]) /\ holder \in Sessions \cup {None}
  BY <1>1, AtFact
<1>3. CASE StatementFails(t)
  BY <1>2, <1>3, StatementFailsInv
<1>4. CASE tx[t].found = None /\ Write(t, Put(Runtime, NoReport))
  BY <1>1, <1>2, <1>4, WriteForm, RuntimeInv
<1>5. CASE Skip(t)
  <2>1. /\ Advanced(t) /\ holder' = holder
        /\ tx'[t].head = tx[t].head /\ tx'[t].tip = tx[t].tip
        /\ tx'[t].cascade = tx[t].cascade
        /\ tx'[t].found = tx[t].found /\ tx'[t].writes = tx[t].writes
    BY <1>2, <1>5, RememberForm DEF Fields, Skip
  <2>2. Done(tx'[t]) = Done(tx[t]) \cup {"insert_row"} /\ tx'[t].kind = tx[t].kind
    BY <1>1, <1>2, <2>1, AdvancedFact DEF Advanced
  <2>3. Remembered(db, tx'[t])
    BY <1>2, <2>1, <2>2 DEF Remembered, Beginning, Closing
  <2>4. QED BY <1>1, <1>2, <2>1, <2>3, ReadInv
<1>6. QED BY <1>3, <1>4, <1>5 DEF insert_row, Insert

LEMMA LockRowInv == ASSUME Inv, NEW t \in Sessions, lock_row(t) PROVE Inv'
<1> DEFINE new == Put(Runtime, Seen(t, Runtime))
           over == Over(new, tx[t].writes)
<1>1. At(t, "lock_row")
  BY DEF lock_row
<1>2. ShapeOK /\ tx[t].state = "running"
  BY <1>1, AtFact
<1>3. /\ DOMAIN over = DOMAIN new \cup DOMAIN tx[t].writes
      /\ \A row \in DOMAIN new : over[row] = new[row]
      /\ \A row \in DOMAIN tx[t].writes \ DOMAIN new : over[row] = tx[t].writes[row]
  BY OverFact
<1>4. /\ tx' = [tx EXCEPT ![t].pc = @ + 1, ![t].found = Seen(t, Runtime),
                          ![t].writes = over]
      /\ db' = db
  BY DEF lock_row
<1> HIDE DEF over
<1>5. /\ Alone(t) /\ tx'[t].state = tx[t].state /\ tx'[t].kind = tx[t].kind
      /\ tx'[t].pc = tx[t].pc + 1 /\ DOMAIN tx'[t] = Fields
      /\ tx'[t].head = tx[t].head /\ tx'[t].cascade = tx[t].cascade
      /\ tx'[t].tip = tx[t].tip /\ tx'[t].writes = over
  BY <1>2, <1>4 DEF ShapeOK, SessionOK, Fields, Alone
<1>6. holder' = holder
  BY DEF lock_row
<1>7. Wrote(t, new)
  BY <1>2, <1>3, <1>5, <1>6 DEF Wrote, Advanced
<1>8. QED BY <1>1, <1>7, RuntimeInv

LEMMA MergeInv == ASSUME Inv, NEW t \in Sessions, merge(t) PROVE Inv'
<1>1. At(t, "merge") /\ Write(t, Put(Runtime, Merged(tx[t].found, t)))
  BY DEF merge
<1>2. ShapeOK /\ tx[t].state = "running"
  BY <1>1, AtFact
<1>3. QED BY <1>1, <1>2, WriteForm, RuntimeInv

----------------------------------------------------------------------------
(* The commit                                                              *)

\* What a commit makes of one row.
LEMMA CommitForm ==
    ASSUME Inv, NEW t \in Sessions, commit(t)
    PROVE  /\ DOMAIN db' = Rows /\ DOMAIN tx' = Sessions /\ holder' = holder
           /\ \A row \in Rows : db'[row] = IF row \in DOMAIN tx[t].writes
                                           THEN tx[t].writes[row] ELSE db[row]
           /\ \A u \in Sessions : u # t => tx'[u] = tx[u]
           /\ tx'[t].state = "done" /\ DOMAIN tx'[t].writes = {} /\ DOMAIN tx'[t] = Fields
           /\ tx'[t].kind = "create" => tx[t].kind = "create" /\ tx'[t].found = tx[t].found
           /\ tx[t].state = "running" /\ At(t, "commit")
<1> DEFINE over == Over(tx[t].writes, db)
<1>1. At(t, "commit") /\ db' = over /\ holder' = holder
  BY DEF commit
<1>2. ShapeOK /\ tx[t].state = "running" /\ DOMAIN tx[t].writes \subseteq Rows
  BY <1>1, AtFact, RunningFact
<1>3. /\ DOMAIN over = DOMAIN tx[t].writes \cup DOMAIN db
      /\ \A row \in DOMAIN tx[t].writes : over[row] = tx[t].writes[row]
      /\ \A row \in DOMAIN db \ DOMAIN tx[t].writes : over[row] = db[row]
  BY OverFact
<1> HIDE DEF over
<1>4. DOMAIN db' = Rows /\ \A row \in Rows : db'[row] = IF row \in DOMAIN tx[t].writes
                                           THEN tx[t].writes[row] ELSE db[row]
  BY <1>1, <1>2, <1>3 DEF ShapeOK
<1> DEFINE y == IF tx[t].kind \in {"create", "report"}
                THEN [tx[t] EXCEPT !.state = "done", !.writes = <<>>]
                ELSE [Idle EXCEPT !.state = "done"]
<1>5. /\ DOMAIN tx' = Sessions /\ \A u \in Sessions : u # t => tx'[u] = tx[u]
      /\ tx'[t] = y
  BY <1>2 DEF commit, ShapeOK, SessionOK, Fields
<1>6. DOMAIN tx[t] = Fields
  BY <1>2 DEF ShapeOK, SessionOK
<1>7. DOMAIN <<>> = {}
  OBVIOUS
<1>8. None # "create"
  BY KindsAssumption DEF Statements
<1>9. CASE tx[t].kind \in {"create", "report"}
  <2>1. y = [tx[t] EXCEPT !.state = "done", !.writes = <<>>]
    BY <1>9
  <2>2. /\ y.state = "done" /\ y.writes = <<>> /\ DOMAIN y = Fields
        /\ y.kind = tx[t].kind /\ y.found = tx[t].found
    BY <1>6, <2>1 DEF Fields
  <2> HIDE DEF y
  <2>3. QED BY <1>1, <1>2, <1>4, <1>5, <1>7, <2>2
<1>10. CASE tx[t].kind \notin {"create", "report"}
  <2>1. y = [Idle EXCEPT !.state = "done"]
    BY <1>10
  <2>2. /\ y.state = "done" /\ DOMAIN y.writes = {} /\ DOMAIN y = Fields
        /\ y.kind = None
    BY <2>1, IdleFact DEF Fields
  <2> HIDE DEF y
  <2>3. QED BY <1>1, <1>2, <1>4, <1>5, <1>8, <2>2
<1>11. QED BY <1>9, <1>10

\* What is final: the rows of revisions, and the statuses of closed cascades.
LEMMA FinalFact ==
    ASSUME Inv, NEW t \in Sessions, commit(t)
    PROVE  /\ \A r \in Named : db[Revision(r)] # None => db'[Revision(r)] = db[Revision(r)]
           /\ \A c \in Named : db[Cascade(c)] \notin {None, "open"} =>
                db'[Cascade(c)] = db[Cascade(c)]
           /\ \A c \in Named : db[Cascade(c)] # None => db'[Cascade(c)] # None
<1>1. /\ \A row \in Rows : db'[row] = IF row \in DOMAIN tx[t].writes
                                      THEN tx[t].writes[row] ELSE db[row]
      /\ tx[t].state = "running"
  BY CommitForm
<1>2. Unborn(db, tx[t], t) /\ Pending(db, tx[t], t)
  BY DEF Inv, Local
<1>3. ASSUME NEW r \in Named, db[Revision(r)] # None
      PROVE  db'[Revision(r)] = db[Revision(r)]
  <2>1. r # t
    BY <1>1, <1>2, <1>3 DEF Unborn
  <2>2. Revision(r) \notin DOMAIN tx[t].writes
    BY <1>2, <2>1, RowsDiffer
       DEF Pending, RowWrite, StepWrite, CascadeWrite, RefWrite, RevisionWrite
  <2>3. QED BY <1>1, <2>2, RowsFact
<1>4. ASSUME NEW c \in Named, db[Cascade(c)] # None
      PROVE  /\ db[Cascade(c)] # "open" => db'[Cascade(c)] = db[Cascade(c)]
             /\ db'[Cascade(c)] # None
  <2>1. c # t
    BY <1>1, <1>2, <1>4 DEF Unborn
  <2>2. CASE Cascade(c) \in DOMAIN tx[t].writes
    <3>1. CascadeWrite(db, tx[t], t, Cascade(c))
      BY <1>2, <2>2, RowsDiffer DEF Pending, RowWrite, StepWrite, RefWrite, RevisionWrite
    <3>2. db[Cascade(c)] = "open" /\ tx[t].writes[Cascade(c)] # None
      BY <2>1, <3>1, RowsDiffer, NamedFact DEF CascadeWrite
    <3>3. QED BY <1>1, <2>2, <3>2, RowsFact
  <2>3. CASE Cascade(c) \notin DOMAIN tx[t].writes
    BY <1>1, <1>4, <2>3, RowsFact
  <2>4. QED BY <2>2, <2>3
<1>5. QED BY <1>3, <1>4

LEMMA BelongsKept ==
    ASSUME Inv, NEW t \in Sessions, commit(t), NEW r, NEW c, Belongs(db, r, c)
    PROVE  Belongs(db', r, c)
<1>1. /\ r \in Named /\ db[Revision(r)] # None
      /\ db'[Revision(r)] = db[Revision(r)]
  BY FinalFact DEF Belongs
<1>2. db[Revision(r)] \in RevisionRows
  BY <1>1 DEF Inv, Committed, HistoryAgrees
<1>3. db[Revision(r)].cascade \in Named \cup {None}
  BY <1>2 DEF RevisionRows
<1>4. CASE db[Revision(r)].cascade \in {None, c}
  BY <1>1, <1>4 DEF Belongs
<1>5. CASE /\ db[Revision(r)].cascade \in Named
           /\ db[Cascade(db[Revision(r)].cascade)] = "committed"
  BY <1>1, <1>5, FinalFact, NamedFact DEF Belongs
<1>6. QED BY <1>3, <1>4, <1>5 DEF Belongs

\* The other sessions keep what they know: nobody else writes what they rely on.
LEMMA OthersKept ==
    ASSUME Inv, NEW t \in Sessions, commit(t), NEW u \in Sessions, u # t
    PROVE  Local(db', tx[u], u)
<1>1. /\ \A row \in Rows : db'[row] = IF row \in DOMAIN tx[t].writes
                                      THEN tx[t].writes[row] ELSE db[row]
      /\ tx[t].state = "running"
  BY CommitForm
<1>2. /\ Local(db, tx[u], u) /\ SessionOK(tx[u]) /\ Pending(db, tx[t], t)
      /\ Exclusive(tx[u].writes, tx[t].writes)
  BY DEF Inv, Local, ShapeOK
<1>3. Unborn(db', tx[u], u)
  <2>1. CASE tx[u].state = "done"
    BY <2>1 DEF Unborn
  <2>2. CASE tx[u].state # "done"
    <3>1. {Cascade(u), Ref(u), Revision(u)} \cap DOMAIN tx[t].writes = {}
      BY <2>2, OwnFact
    <3>2. {Cascade(u), Ref(u), Revision(u)} \subseteq Rows
      BY RowsFact, NamedFact
    <3>3. QED BY <1>1, <1>2, <3>1, <3>2 DEF Local, Unborn
  <2>3. QED BY <2>1, <2>2
<1>4. Remembered(db', tx[u])
  BY <1>2, FinalFact, BelongsKept DEF Local, Remembered
<1>5. ASSUME NEW row \in DOMAIN tx[u].writes
      PROVE  RowWrite(db', tx[u], u, row)
  <2>1. db'[row] = db[row]
    BY <1>1, <1>2 DEF Exclusive, SessionOK
  <2>2. RowWrite(db, tx[u], u, row)
    BY <1>2 DEF Local, Pending
  <2>3. CASE row = Plan /\ PlanWrite(db, tx[u], u)
    BY <2>3, BelongsKept DEF PlanWrite, RowWrite
  <2>4. CASE StepWrite(db, tx[u], u, row)
    BY <2>1, <2>4 DEF StepWrite, RowWrite
  <2>5. CASE row = OneOpen /\ OpenWrite(tx[u], u)
    BY <2>5 DEF RowWrite
  <2>6. CASE CascadeWrite(db, tx[u], u, row)
    <3>1. db'[OneOpen] = db[OneOpen]
      BY <1>1, <1>2, <2>6, RowsFact DEF CascadeWrite, Exclusive
    <3>2. CascadeWrite(db', tx[u], u, row)
      BY <2>1, <2>6, <3>1 DEF CascadeWrite
    <3>3. QED BY <3>2 DEF RowWrite
  <2>7. CASE RefWrite(db, tx[u], u, row)
    <3>1. RefWrite(db', tx[u], u, row)
      BY <2>1, <2>7, BelongsKept DEF RefWrite
    <3>2. QED BY <3>1 DEF RowWrite
  <2>8. CASE RevisionWrite(db, tx[u], u, row)
    <3>1. RevisionWrite(db', tx[u], u, row)
      BY <2>8, BelongsKept DEF RevisionWrite
    <3>2. QED BY <3>1 DEF RowWrite
  <2>9. CASE row = Runtime /\ tx[u].kind = "report"
    BY <2>9 DEF RowWrite
  <2>10. QED
    BY <2>2, <2>3, <2>4, <2>5, <2>6, <2>7, <2>8, <2>9 DEF RowWrite
<1>6. Acknowledged(db', tx[u], u)
  <2>1. SUFFICES ASSUME tx[u].state = "done", tx[u].kind = "create"
                 PROVE  StepId(tx[u].found) \in Rows /\ db'[StepId(tx[u].found)] = u
    BY DEF Acknowledged
  <2>2. /\ StepId(tx[u].found) \in Rows
        /\ db[StepId(tx[u].found)] = u /\ u # None
    BY <1>2, <2>1, NamedFact DEF Local, Acknowledged
  <2>3. StepId(tx[u].found) \notin DOMAIN tx[t].writes
    BY <1>2, <2>2, RowsDiffer
       DEF Pending, RowWrite, StepWrite, CascadeWrite, RefWrite, RevisionWrite
  <2>4. QED BY <1>1, <2>2, <2>3
<1>7. QED BY <1>2, <1>3, <1>4, <1>5, <1>6 DEF Local, Pending

LEMMA CommitOpen ==
    ASSUME Inv, NEW t \in Sessions, commit(t)
    PROVE  OpenAgrees(db')
<1> DEFINE k == tx[t].cascade
<1>1. /\ \A row \in Rows : db'[row] = IF row \in DOMAIN tx[t].writes
                                      THEN tx[t].writes[row] ELSE db[row]
      /\ At(t, "commit")
  BY CommitForm
<1>2. /\ tx[t].state = "running" /\ ProgramOK(tx[t].kind, tx[t].pc)
      /\ Statements[tx[t].kind][tx[t].pc] = "commit"
      /\ Done(tx[t]) = {Statements[tx[t].kind][i] : i \in 1 .. (tx[t].pc - 1)}
      /\ Pending(db, tx[t], t) /\ Performed(tx[t], t) /\ Remembered(db, tx[t])
      /\ OpenAgrees(db) /\ Unborn(db, tx[t], t)
  BY <1>1, AtFact DEF Committed
<1>3. ASSUME NEW c \in Named, Cascade(c) \in DOMAIN tx[t].writes
      PROVE  CascadeWrite(db, tx[t], t, Cascade(c))
  BY <1>2, <1>3, RowsDiffer DEF Pending, RowWrite, StepWrite, RefWrite, RevisionWrite
<1>4. ASSUME NEW c \in Named, Ref(c) \in DOMAIN tx[t].writes
      PROVE  RefWrite(db, tx[t], t, Ref(c))
  BY <1>2, <1>4, RowsDiffer DEF Pending, RowWrite, StepWrite, CascadeWrite, RevisionWrite
<1>5. OneOpen \in DOMAIN tx[t].writes => OpenWrite(tx[t], t)
  BY <1>2, RowsDiffer DEF Pending, RowWrite, StepWrite, CascadeWrite, RefWrite, RevisionWrite
<1>6. t \in Named /\ t # None /\ None # "open" /\ None \notin {"committed", "aborted"}
  BY NamedFact
<1>7. CASE Beginning(tx[t])
  <2>1. ~Closing(tx[t]) /\ "record" \notin Done(tx[t])
    BY <1>2, <1>7 DEF ProgramOK, Beginning, Closing
  <2>2. Ref(t) \in DOMAIN tx[t].writes /\ Cascade(t) \in DOMAIN tx[t].writes
    BY <1>2, <1>7 DEF ProgramOK, Performed, Beginning
  <2>3. /\ OneOpen \in DOMAIN tx[t].writes /\ tx[t].writes[Cascade(t)] = "open"
        /\ db[OneOpen] = None
    BY <1>3, <1>6, <2>1, <2>2 DEF CascadeWrite
  <2>4. tx[t].writes[OneOpen] = t
    BY <1>5, <2>1, <2>3 DEF OpenWrite
  <2>5. tx[t].writes[Ref(t)] # None
    BY <1>4, <1>6, <2>1, <2>2, NamedFact DEF RefWrite, Belongs
  <2>6. ASSUME NEW c \in Named, c # t
        PROVE  db'[Cascade(c)] = db[Cascade(c)] /\ db'[Ref(c)] = db[Ref(c)]
    <3>1. Cascade(c) \notin DOMAIN tx[t].writes
      BY <1>3, <2>1, <2>6, RowsDiffer DEF CascadeWrite
    <3>2. Ref(c) \notin DOMAIN tx[t].writes
      BY <1>4, <2>1, <2>6, RowsDiffer DEF RefWrite
    <3>3. QED BY <1>1, <3>1, <3>2, RowsFact
  <2>7. /\ db'[OneOpen] = t /\ db'[Cascade(t)] = "open" /\ db'[Ref(t)] # None
    BY <1>1, <1>6, <2>2, <2>3, <2>4, <2>5, RowsFact
  <2>8. \A c \in Named : db[Cascade(c)] # "open" /\ db[Ref(c)] = None
    BY <1>2, <2>3 DEF OpenAgrees
  <2>9. QED BY <1>6, <2>6, <2>7, <2>8 DEF OpenAgrees
<1>8. CASE Closing(tx[t])
  <2>1. ~Beginning(tx[t]) /\ "record" \notin Done(tx[t]) /\ k # None /\ k \in Named
    BY <1>2, <1>8 DEF ProgramOK, Beginning, Closing, Remembered
  <2>2. Ref(k) \in DOMAIN tx[t].writes /\ Cascade(k) \in DOMAIN tx[t].writes
    BY <1>2, <1>8 DEF ProgramOK, Performed, Closing
  <2>3. /\ OneOpen \in DOMAIN tx[t].writes
        /\ tx[t].writes[Cascade(k)] \in {"committed", "aborted"}
        /\ db[Cascade(k)] = "open"
    <3>1. CascadeWrite(db, tx[t], t, Cascade(k))
      BY <1>3, <2>1, <2>2
    <3>2. QED BY <2>1, <3>1 DEF CascadeWrite
  <2>4. tx[t].writes[OneOpen] = None
    BY <1>5, <2>1, <2>3 DEF OpenWrite
  <2>5. tx[t].writes[Ref(k)] = None
    <3>1. RefWrite(db, tx[t], t, Ref(k))
      BY <1>4, <2>1, <2>2
    <3>2. QED BY <2>1, <3>1 DEF RefWrite
  <2>6. ASSUME NEW c \in Named, c # k
        PROVE  db'[Cascade(c)] = db[Cascade(c)] /\ db'[Ref(c)] = db[Ref(c)]
    <3>1. Cascade(c) \notin DOMAIN tx[t].writes
      BY <1>3, <2>1, <2>6, RowsDiffer DEF CascadeWrite
    <3>2. Ref(c) \notin DOMAIN tx[t].writes
      BY <1>4, <2>1, <2>6, RowsDiffer DEF RefWrite
    <3>3. QED BY <1>1, <3>1, <3>2, RowsFact
  <2>7. /\ db'[OneOpen] = None /\ db'[Cascade(k)] # "open" /\ db'[Ref(k)] = None
    BY <1>1, <2>1, <2>2, <2>3, <2>4, <2>5, RowsFact
  <2>8. \A c \in Named : c # k => db[Cascade(c)] # "open" /\ db[Ref(c)] = None
    BY <1>2, <2>1, <2>3 DEF OpenAgrees
  <2> HIDE DEF k
  <2>9. QED BY <2>6, <2>7, <2>8 DEF OpenAgrees
<1>9. CASE ~Beginning(tx[t]) /\ ~Closing(tx[t])
  <2>1. db'[OneOpen] = db[OneOpen]
    BY <1>1, <1>5, <1>9, RowsFact DEF OpenWrite
  <2>2. ASSUME NEW c \in Named
        PROVE  db'[Cascade(c)] = db[Cascade(c)] /\ (db'[Ref(c)] # None <=> db[Ref(c)] # None)
    <3>1. Cascade(c) \notin DOMAIN tx[t].writes
      BY <1>3, <1>9 DEF CascadeWrite
    <3>2. Ref(c) \in DOMAIN tx[t].writes => db[Ref(c)] # None /\ tx[t].writes[Ref(c)] # None
      BY <1>4, <1>6, <1>9 DEF RefWrite
    <3>3. QED BY <1>1, <3>1, <3>2, RowsFact
  <2>3. QED BY <1>2, <2>1, <2>2 DEF OpenAgrees
<1>10. QED BY <1>7, <1>8, <1>9

LEMMA CommitHistory ==
    ASSUME Inv, NEW t \in Sessions, commit(t)
    PROVE  HistoryAgrees(db')
<1>1. /\ \A row \in Rows : db'[row] = IF row \in DOMAIN tx[t].writes
                                      THEN tx[t].writes[row] ELSE db[row]
      /\ At(t, "commit")
  BY CommitForm
<1>2. /\ tx[t].state = "running" /\ ProgramOK(tx[t].kind, tx[t].pc)
      /\ Statements[tx[t].kind][tx[t].pc] = "commit"
      /\ Done(tx[t]) = {Statements[tx[t].kind][i] : i \in 1 .. (tx[t].pc - 1)}
      /\ Pending(db, tx[t], t) /\ Performed(tx[t], t) /\ Remembered(db, tx[t])
      /\ HistoryAgrees(db)
  BY <1>1, AtFact DEF Committed
<1>3. t \in Named /\ t # None
  BY NamedFact
<1>4. ASSUME NEW r \in Named, Revision(r) \in DOMAIN tx[t].writes
      PROVE  r = t /\ RevisionWrite(db, tx[t], t, Revision(r))
  <2>1. RevisionWrite(db, tx[t], t, Revision(r))
    BY <1>2, <1>4, RowsDiffer DEF Pending, RowWrite, StepWrite, CascadeWrite, RefWrite
  <2>2. QED BY <2>1, RowsDiffer DEF RevisionWrite
<1>5. Revision(t) \in DOMAIN tx[t].writes => Belongs(db', t, tx[t].cascade)
  <2>1. SUFFICES ASSUME Revision(t) \in DOMAIN tx[t].writes
                 PROVE  Belongs(db', t, tx[t].cascade)
    OBVIOUS
  <2>2. /\ tx[t].writes[Revision(t)] \in RevisionRows
        /\ tx[t].writes[Revision(t)].cascade = tx[t].cascade
    BY <1>3, <1>4, <2>1 DEF RevisionWrite
  <2>3. db'[Revision(t)] = tx[t].writes[Revision(t)]
    BY <1>1, <1>3, <2>1, RowsFact
  <2>4. db'[Revision(t)] # None
    BY <2>2, <2>3, NamedFact
  <2>5. QED BY <1>3, <2>2, <2>3, <2>4 DEF Belongs
<1>6. Belongs(db', db'[Plan], None)
  <2>1. CASE Plan \notin DOMAIN tx[t].writes
    <3>1. db'[Plan] = db[Plan]
      BY <1>1, <2>1, RowsFact
    <3>2. QED BY <1>2, <3>1, BelongsKept DEF HistoryAgrees
  <2>2. CASE Plan \in DOMAIN tx[t].writes
    <3>1. db'[Plan] = tx[t].writes[Plan]
      BY <1>1, <2>2, RowsFact
    <3>2. PlanWrite(db, tx[t], t)
      BY <1>2, <2>2, RowsDiffer
         DEF Pending, RowWrite, StepWrite, CascadeWrite, RefWrite, RevisionWrite
    <3>3. CASE Belongs(db, tx[t].writes[Plan], None)
      BY <3>1, <3>3, BelongsKept
    <3>4. CASE /\ tx[t].writes[Plan] = t /\ tx[t].cascade = None
               /\ Revision(t) \in DOMAIN tx[t].writes
      BY <1>5, <3>1, <3>4
    <3>5. CASE /\ tx[t].kind = "cascade_commit" /\ tx[t].tip # None
               /\ tx[t].writes[Plan] = tx[t].tip
      <4> DEFINE r == tx[t].tip
                 c == tx[t].cascade
      <4>1. Belongs(db, r, c) /\ c \in Named /\ c # None
        BY <1>2, <3>5 DEF Remembered
      <4>2. Cascade(c) \in DOMAIN tx[t].writes
        BY <1>2, <3>5 DEF ProgramOK, Performed, Closing
      <4>3. CascadeWrite(db, tx[t], t, Cascade(c))
        BY <1>2, <4>2, RowsDiffer DEF Pending, RowWrite, StepWrite, RefWrite, RevisionWrite
      <4>4. db'[Cascade(c)] = "committed"
        BY <1>1, <3>5, <4>1, <4>2, <4>3, RowsFact DEF CascadeWrite, Beginning
      <4>5. Belongs(db', r, c)
        BY <4>1, BelongsKept
      <4> HIDE DEF r, c
      <4>6. Belongs(db', r, None)
        BY <4>4, <4>5 DEF Belongs
      <4>7. QED BY <3>1, <3>5, <4>6 DEF r
    <3>6. QED BY <3>2, <3>3, <3>4, <3>5 DEF PlanWrite
  <2>3. QED BY <2>1, <2>2
<1>7. ASSUME NEW c \in Named, db'[Ref(c)] # None
      PROVE  Belongs(db', db'[Ref(c)], c)
  <2>1. CASE Ref(c) \notin DOMAIN tx[t].writes
    <3>1. db'[Ref(c)] = db[Ref(c)]
      BY <1>1, <2>1, RowsFact
    <3>2. QED BY <1>2, <1>7, <3>1, BelongsKept DEF HistoryAgrees
  <2>2. CASE Ref(c) \in DOMAIN tx[t].writes
    <3>1. db'[Ref(c)] = tx[t].writes[Ref(c)]
      BY <1>1, <2>2, RowsFact
    <3>2. RefWrite(db, tx[t], t, Ref(c))
      BY <1>2, <2>2, RowsDiffer DEF Pending, RowWrite, StepWrite, CascadeWrite, RevisionWrite
    <3>3. CASE Belongs(db, tx[t].writes[Ref(c)], None)
      <4>1. Belongs(db', db'[Ref(c)], None)
        BY <3>1, <3>3, BelongsKept
      <4>2. QED BY <4>1 DEF Belongs
    <3>4. CASE /\ tx[t].cascade # None /\ Ref(c) = Ref(tx[t].cascade)
               /\ tx[t].writes[Ref(c)] = t /\ Revision(t) \in DOMAIN tx[t].writes
      BY <1>5, <3>1, <3>4, RowsDiffer
    <3>5. QED BY <1>7, <3>1, <3>2, <3>3, <3>4 DEF RefWrite
  <2>3. QED BY <2>1, <2>2
<1>8. ASSUME NEW r \in Named, db'[Revision(r)] # None
      PROVE  /\ db'[Revision(r)] \in RevisionRows
             /\ \/ db'[Revision(r)].parent = None
                \/ Belongs(db', db'[Revision(r)].parent, db'[Revision(r)].cascade)
  <2>1. CASE Revision(r) \notin DOMAIN tx[t].writes
    <3>1. db'[Revision(r)] = db[Revision(r)]
      BY <1>1, <2>1, RowsFact
    <3>2. QED BY <1>2, <1>8, <3>1, BelongsKept DEF HistoryAgrees
  <2>2. CASE Revision(r) \in DOMAIN tx[t].writes
    <3>1. db'[Revision(r)] = tx[t].writes[Revision(r)]
      BY <1>1, <2>2, RowsFact
    <3>2. RevisionWrite(db, tx[t], t, Revision(r))
      BY <1>4, <2>2
    <3>3. QED BY <3>1, <3>2, BelongsKept DEF RevisionWrite
  <2>3. QED BY <2>1, <2>2
<1>9. QED BY <1>6, <1>7, <1>8 DEF HistoryAgrees

LEMMA CommitInv == ASSUME Inv, NEW t \in Sessions, commit(t) PROVE Inv'
<1>1. /\ DOMAIN db' = Rows /\ DOMAIN tx' = Sessions /\ holder' = holder
      /\ \A row \in Rows : db'[row] = IF row \in DOMAIN tx[t].writes
                                      THEN tx[t].writes[row] ELSE db[row]
      /\ \A u \in Sessions : u # t => tx'[u] = tx[u]
      /\ tx'[t].state = "done" /\ DOMAIN tx'[t].writes = {} /\ DOMAIN tx'[t] = Fields
      /\ tx'[t].kind = "create" => tx[t].kind = "create" /\ tx'[t].found = tx[t].found
      /\ At(t, "commit")
  BY CommitForm
<1>2. SessionOK(tx'[t])
  BY <1>1 DEF SessionOK, States
<1>3. ShapeOK'
  BY <1>1, <1>2 DEF Inv, ShapeOK
<1>4. Committed(db')
  BY CommitOpen, CommitHistory DEF Committed
<1>5. Acknowledged(db', tx'[t], t)
  <2>1. SUFFICES ASSUME tx[t].kind = "create", tx'[t].found = tx[t].found
                 PROVE  StepId(tx[t].found) \in Rows /\ db'[StepId(tx[t].found)] = t
    BY <1>1 DEF Acknowledged
  <2>2. /\ tx[t].state = "running" /\ ProgramOK(tx[t].kind, tx[t].pc)
        /\ Statements[tx[t].kind][tx[t].pc] = "commit"
        /\ Done(tx[t]) = {Statements[tx[t].kind][i] : i \in 1 .. (tx[t].pc - 1)}
        /\ Pending(db, tx[t], t) /\ Performed(tx[t], t)
        /\ ShapeOK
    BY <1>1, AtFact
  <2>3. StepId(tx[t].found) \in DOMAIN tx[t].writes
    BY <2>1, <2>2 DEF ProgramOK, Performed
  <2>4. StepId(tx[t].found) \in Rows
    BY <2>2, <2>3 DEF ShapeOK, SessionOK
  <2>5. StepWrite(db, tx[t], t, StepId(tx[t].found))
    BY <2>2, <2>3, RowsDiffer DEF Pending, RowWrite, CascadeWrite, RefWrite, RevisionWrite
  <2>6. QED BY <1>1, <2>3, <2>4, <2>5 DEF StepWrite
<1>6. Local(db', tx'[t], t)
  BY <1>1, <1>5 DEF Local, Unborn, Remembered, Pending, Performed
<1>7. \A u \in Sessions : Local(db', tx'[u], u)
  BY <1>1, <1>6, OthersKept
<1>8. \A u, v \in Sessions : u # v => Exclusive(tx'[u].writes, tx'[v].writes)
  BY <1>1 DEF Inv, Exclusive
<1>9. QED BY <1>3, <1>4, <1>7, <1>8 DEF Inv

----------------------------------------------------------------------------
(* The inductive invariant holds                                           *)

LEMMA InitInv == Init => Inv
<1> SUFFICES ASSUME Init PROVE Inv
  OBVIOUS
<1>1. PICK open \in {None, 0} :
         db = [row \in Rows |->
                CASE row \in {Plan, StepId(1)} -> 0
                  [] row = Revision(0) -> [parent |-> None, cascade |-> None]
                  [] row = OneOpen -> open
                  [] row = Cascade(0) /\ open = 0 -> "open"
                  [] row = Ref(0) /\ open = 0 -> 0
                  [] OTHER -> None]
  BY DEF Init
<1>2. /\ DOMAIN tx = Sessions /\ holder = None
      /\ \A t \in Sessions : tx[t] = Idle
  BY DEF Init
<1>3. DOMAIN db = Rows
  BY <1>1
<1>4. db[Plan] = 0 /\ db[OneOpen] = open
  BY <1>1, RowsDiffer, RowsFact
<1>5. db[Revision(0)] = [parent |-> None, cascade |-> None]
  BY <1>1, RowsDiffer, RowsFact, NamedFact
<1>6. /\ open = 0 => db[Cascade(0)] = "open" /\ db[Ref(0)] = 0
      /\ open # 0 => db[Cascade(0)] = None /\ db[Ref(0)] = None
  BY <1>1, RowsDiffer, RowsFact, NamedFact
<1>7. ASSUME NEW t \in Named, t # 0
      PROVE  db[Cascade(t)] = None /\ db[Ref(t)] = None /\ db[Revision(t)] = None
  <2>1. Cascade(t) # Cascade(0) /\ Ref(t) # Ref(0) /\ Revision(t) # Revision(0)
    BY <1>7, RowsDiffer
  <2>2. db[Cascade(t)] = None
    BY <1>1, <2>1, RowsDiffer, RowsFact
  <2>3. db[Ref(t)] = None
    BY <1>1, <2>1, RowsDiffer, RowsFact
  <2>4. db[Revision(t)] = None
    BY <1>1, <2>1, RowsDiffer, RowsFact
  <2>5. QED BY <2>2, <2>3, <2>4
<1>8. ShapeOK
  <2>1. SessionOK(Idle)
    BY IdleFact DEF SessionOK, States
  <2>2. QED BY <1>2, <1>3, <2>1 DEF ShapeOK
<1>9. /\ db[Revision(0)] \in RevisionRows /\ db[Revision(0)] # None
      /\ db[Revision(0)].cascade = None /\ db[Revision(0)].parent = None
  BY <1>5, NamedFact DEF RevisionRows
<1>10. OpenAgrees(db)
  BY <1>4, <1>6, <1>7, NamedFact DEF OpenAgrees
<1>11. HistoryAgrees(db)
  <2>1. \A c : Belongs(db, 0, c)
    BY <1>9, NamedFact DEF Belongs
  <2>2. \A c \in Named : db[Ref(c)] # None => Belongs(db, db[Ref(c)], c)
    BY <1>6, <1>7, <2>1
  <2>3. QED BY <1>4, <1>7, <1>9, <2>1, <2>2 DEF HistoryAgrees
<1>12. ASSUME NEW t \in Sessions PROVE Local(db, tx[t], t)
  <2>1. /\ tx[t].state = "idle" /\ DOMAIN tx[t].writes = {}
    BY <1>2, IdleFact
  <2>2. t \in Named /\ t # 0
    BY NamedFact
  <2>3. QED
    BY <1>7, <2>1, <2>2
       DEF Local, Unborn, Remembered, Pending, Performed, Acknowledged
<1>13. \A t, u \in Sessions : Exclusive(tx[t].writes, tx[u].writes)
  BY <1>2, IdleFact DEF Exclusive
<1>14. QED BY <1>8, <1>10, <1>11, <1>12, <1>13 DEF Inv, Committed

LEMMA ListIdsInv == ASSUME Inv, NEW t \in Sessions, list_ids(t) PROVE Inv'
<1>1. /\ At(t, "list_ids")
      /\ \E n \in 1 .. MaxStepId : Remember(t, "found", n)
  BY DEF list_ids
<1>2. QED BY <1>1, RowsFact, FoundInv

LEMMA FindRowInv == ASSUME Inv, NEW t \in Sessions, find_row(t) PROVE Inv'
BY FoundInv DEF find_row

LEMMA ProceedInv == ASSUME Inv, NEW t \in Sessions, Proceed(t) PROVE Inv'
<1>1. CASE Disconnect(t)
  BY <1>1, RaiseInv DEF Disconnect
<1>2. CASE acquire(t) \/ release(t)
  BY <1>2, LockStatementsInv
<1>3. CASE resolve(t) \/ admit(t) \/ list_ids(t) \/ insert_step(t) \/ get_open(t)
  BY <1>3, ResolveInv, AdmitInv, ListIdsInv, InsertStepInv, GetOpenInv
<1>4. CASE create_ref(t) \/ insert_cascade(t) \/ get_ref(t) \/ set_status(t) \/ set_head(t)
  BY <1>4, CreateRefInv, InsertCascadeInv, GetRefInv, SetStatusInv, SetHeadInv
<1>5. CASE record(t) \/ close(t) \/ delete_ref(t) \/ find_row(t) \/ insert_row(t)
  BY <1>5, RecordInv, CloseInv, DeleteRefInv, FindRowInv, InsertRowInv
<1>6. CASE lock_row(t) \/ merge(t) \/ commit(t)
  BY <1>6, LockRowInv, MergeInv, CommitInv
<1>7. QED BY <1>1, <1>2, <1>3, <1>4, <1>5, <1>6 DEF Proceed

LEMMA NextInv == Inv /\ [Next]_vars => Inv'
<1> SUFFICES ASSUME Inv, [Next]_vars PROVE Inv'
  OBVIOUS
<1>1. CASE UNCHANGED vars
  BY <1>1 DEF vars, Inv, ShapeOK
<1>2. ASSUME NEW t \in Sessions, Proceed(t) PROVE Inv'
  BY <1>2, ProceedInv
<1>3. ASSUME NEW t \in Sessions, DeadlockVictim(t) PROVE Inv'
  <2>1. PICK u \in Sessions : WaitsFor(t, u)
    BY <1>3 DEF DeadlockVictim
  <2>2. Statement(t) # "none"
    BY <2>1 DEF WaitsFor, Target
  <2>3. tx[t].state # "done"
    BY <2>2 DEF Statement
  <2>4. QED BY <1>3, <2>3, StatementFailsInv DEF DeadlockVictim
<1>4. ASSUME NEW t \in Sessions, Abandon(t) PROVE Inv'
  BY <1>4, RaiseInv DEF Abandon
<1>5. ASSUME NEW t \in Sessions, NEW kind \in Kinds, Start(t, kind) PROVE Inv'
  BY <1>5, StartInv
<1>6. QED BY <1>1, <1>2, <1>3, <1>4, <1>5 DEF Next

LEMMA InvHolds == Spec => []Inv
BY InitInv, NextInv, PTL DEF Spec

----------------------------------------------------------------------------
(* The theorems                                                            *)

\* The type invariant.
THEOREM Typed == Spec => []TypeOK
<1>1. Inv => TypeOK
  BY DEF Inv, ShapeOK, SessionOK, TypeOK, States, Written
<1>2. QED BY <1>1, InvHolds, PTL

\* However the transactions of begin, commit, abort and edits overlap: at most
\* one cascade of the plan is open, and the ref of a cascade exists exactly
\* while the cascade is open.
THEOREM CascadesAgree == Spec => []CascadesConsistent
<1>1. Inv => CascadesConsistent
  BY DEF Inv, Committed, OpenAgrees, CascadesConsistent
<1>2. QED BY <1>1, InvHolds, PTL

\* A created step that was acknowledged keeps its number to itself.
THEOREM AcknowledgedStepsStay == Spec => []CreatedStepsKept
<1>1. Inv => CreatedStepsKept
  BY DEF Inv, Local, Acknowledged, CreatedStepsKept
<1>2. QED BY <1>1, InvHolds, PTL

\* The head and its whole history are outside of a cascade, or of one that was
\* committed: no revision of an aborted or still open cascade is published.
THEOREM PublishedHistory == Spec => []HistoryPublished
<1>1. ASSUME Inv, NEW r, Belongs(db, r, None)
      PROVE  Published(r)
  BY <1>1 DEF Belongs, Published
<1>2. ASSUME Inv, NEW r \in Named, db[Revision(r)] # None, Published(r)
      PROVE  LET p == db[Revision(r)].parent IN p = None \/ Published(p)
  <2>1. \/ db[Revision(r)].parent = None
        \/ Belongs(db, db[Revision(r)].parent, db[Revision(r)].cascade)
    BY <1>2 DEF Inv, Committed, HistoryAgrees
  <2>2. QED BY <1>2, <2>1 DEF Belongs, Published
<1>3. Inv => HistoryPublished
  BY <1>1, <1>2 DEF Inv, Committed, HistoryAgrees, HistoryPublished
<1>4. QED BY <1>3, InvHolds, PTL

----------------------------------------------------------------------------
(* The advisory lock                                                       *)

LEMMA InSectionFact ==
    ASSUME NEW t
    PROVE  InSection(t) <=> /\ tx[t].state = "running"
                            /\ "acquire" \in Done(tx[t]) /\ "release" \notin Done(tx[t])
BY DEF InSection, Done

\* How a session and the lock go through a step of the session.
LockStep(t) ==
    \/ /\ \E s : At(t, s) /\ s \notin {"none", "acquire", "release", "commit"}
       /\ Advanced(t) /\ holder' = holder
    \/ acquire(t) /\ Advanced(t)
    \/ release(t) /\ Advanced(t)
    \/ /\ DOMAIN tx' = Sessions /\ \A u \in Sessions : u # t => tx'[u] = tx[u]
       /\ tx'[t].state \in {"broken", "done", "failed"}
       /\ \/ holder' = IF holder = t THEN None ELSE holder
          \/ holder' = holder /\ tx'[t].state = "broken"
          \/ holder' = holder /\ At(t, "commit")

LEMMA ProceedForm == ASSUME Inv, NEW t \in Sessions, Proceed(t) PROVE LockStep(t)
<1>1. ASSUME NEW s, At(t, s), s \notin {"none", "acquire", "release", "commit"},
             NEW field \in Fields \ {"state", "kind", "pc"}, NEW value,
             Remember(t, field, value)
      PROVE  LockStep(t)
  BY <1>1, AtFact, RememberForm DEF LockStep
<1>2. ASSUME Raise(t) PROVE LockStep(t)
  BY <1>2, IdleFact DEF Raise, LockStep, Inv, ShapeOK, Fields
<1>3. ASSUME StatementFails(t) PROVE LockStep(t)
  BY <1>3, IdleFact DEF StatementFails, LockStep, Inv, ShapeOK, Fields
<1>4. CASE Disconnect(t)
  BY <1>2, <1>4 DEF Disconnect
<1>5. CASE acquire(t) \/ release(t)
  <2>1. tx[t].state = "running" /\ ShapeOK
    BY <1>5, AtFact DEF acquire, release
  <2>2. Advanced(t)
    BY <1>5, <2>1 DEF acquire, release, ShapeOK, SessionOK, Fields, Advanced, Alone
  <2>3. QED BY <1>5, <2>2 DEF LockStep
<1>6. CASE resolve(t) \/ list_ids(t) \/ find_row(t)
  BY <1>1, <1>6 DEF resolve, list_ids, find_row, Fields
<1>7. CASE admit(t) \/ get_open(t) \/ get_ref(t)
  BY <1>1, <1>2, <1>7 DEF admit, get_open, get_ref, Skip, Fields
<1>8. CASE insert_step(t) \/ insert_cascade(t) \/ insert_row(t)
  BY <1>1, <1>3, <1>8 DEF insert_step, insert_cascade, insert_row, Insert, Write, Skip, Fields
<1>9. CASE create_ref(t) \/ set_status(t) \/ set_head(t) \/ delete_ref(t) \/ merge(t)
  BY <1>1, <1>9 DEF create_ref, set_status, set_head, delete_ref, merge, Write, Fields
<1>10. CASE record(t) \/ close(t)
  BY <1>1, <1>2, <1>10 DEF record, close, Write, Fields
<1>11. CASE lock_row(t)
  <2>1. At(t, "lock_row") /\ holder' = holder
    BY <1>11 DEF lock_row
  <2>2. tx[t].state = "running" /\ ShapeOK
    BY <2>1, AtFact
  <2> DEFINE over == Over(Put(Runtime, Seen(t, Runtime)), tx[t].writes)
  <2>3. /\ tx' = [tx EXCEPT ![t].pc = @ + 1, ![t].found = Seen(t, Runtime),
                            ![t].writes = over]
        /\ db' = db
    BY <1>11 DEF lock_row
  <2> HIDE DEF over
  <2>4. Advanced(t)
    BY <2>2, <2>3 DEF ShapeOK, SessionOK, Fields, Advanced, Alone
  <2>5. QED BY <2>1, <2>4 DEF LockStep
<1>12. CASE commit(t)
  BY <1>12, CommitForm DEF LockStep
<1>13. QED
  BY <1>4, <1>5, <1>6, <1>7, <1>8, <1>9, <1>10, <1>11, <1>12 DEF Proceed

LEMMA LockStepKept ==
    ASSUME Inv, LockExcludes, NEW t \in Sessions, LockStep(t)
    PROVE  LockExcludes'
<1>1. /\ holder \in Sessions \cup {None} /\ None \notin Sessions
      /\ \A u \in Sessions : (InSection(u) => holder = u)
                             /\ (holder = u => InSection(u) \/ tx[u].state = "broken")
  BY NamedFact DEF Inv, ShapeOK, LockExcludes
<1>2. /\ DOMAIN tx' = Sessions /\ \A u \in Sessions : u # t => tx'[u] = tx[u]
  BY DEF LockStep, Advanced, Alone, Inv, ShapeOK
<1>3. \A u \in Sessions : u # t => InSection(u)' = InSection(u)
  BY <1>2 DEF InSection
<1>4. InSection(t)' <=> /\ tx'[t].state = "running"
                        /\ "acquire" \in Done(tx'[t]) /\ "release" \notin Done(tx'[t])
  BY DEF InSection, Done
<1>5. CASE /\ \E s : At(t, s) /\ s \notin {"none", "acquire", "release", "commit"}
           /\ Advanced(t) /\ holder' = holder
  <2>1. PICK s : At(t, s) /\ s \notin {"none", "acquire", "release", "commit"}
    BY <1>5
  <2>2. Done(tx'[t]) = Done(tx[t]) \cup {s}
    BY <1>5, <2>1, AdvancedFact DEF Inv
  <2>3. tx[t].state = "running" /\ tx'[t].state = "running"
    BY <1>5 DEF Advanced
  <2>4. InSection(t)' <=> InSection(t)
    BY <1>4, <2>1, <2>2, <2>3, InSectionFact
  <2>5. QED BY <1>1, <1>2, <1>3, <1>5, <2>3, <2>4 DEF LockExcludes
<1>6. CASE acquire(t) /\ Advanced(t)
  <2>1. At(t, "acquire") /\ holder' = t
    BY <1>6 DEF acquire
  <2>2. \A u \in Sessions : u # t => holder # u
    BY <2>1 DEF At, WaitsFor
  <2>3. "acquire" \in Done(tx'[t]) /\ "release" \notin Done(tx'[t])
    <3>1. Done(tx'[t]) = Done(tx[t]) \cup {"acquire"}
      BY <1>6, <2>1, AdvancedFact DEF Inv
    <3>2. "release" \notin Done(tx[t])
      BY <2>1, AtFact DEF ProgramOK
    <3>3. QED BY <3>1, <3>2
  <2>4. InSection(t)'
    BY <1>4, <1>6, <2>3 DEF Advanced
  <2>5. QED BY <1>1, <1>3, <2>1, <2>2, <2>4 DEF LockExcludes
<1>7. CASE release(t) /\ Advanced(t)
  <2>1. At(t, "release") /\ holder' = None
    BY <1>7 DEF release
  <2>2. /\ "acquire" \in Done(tx[t]) /\ "release" \notin Done(tx[t])
        /\ tx[t].state = "running"
    <3>1. /\ tx[t].state = "running"
          /\ ProgramOK(tx[t].kind, tx[t].pc) /\ Statements[tx[t].kind][tx[t].pc] = "release"
          /\ Done(tx[t]) = {Statements[tx[t].kind][i] : i \in 1 .. (tx[t].pc - 1)}
      BY <2>1, AtFact
    <3>2. QED BY <3>1 DEF ProgramOK
  <2>3. holder = t
    BY <1>1, <2>2, InSectionFact
  <2>4. "release" \in Done(tx'[t])
    BY <1>7, <2>1, AdvancedFact DEF Inv
  <2>5. ~InSection(t)'
    BY <1>4, <2>4
  <2>6. QED BY <1>1, <1>3, <2>1, <2>3, <2>5 DEF LockExcludes
<1>8. CASE /\ tx'[t].state # "running"
           /\ \/ holder' = IF holder = t THEN None ELSE holder
              \/ holder' = holder /\ tx'[t].state = "broken"
              \/ holder' = holder /\ At(t, "commit")
  <2>1. ~InSection(t)'
    BY <1>4, <1>8
  <2>2. At(t, "commit") => holder # t
    <3>1. SUFFICES ASSUME At(t, "commit") PROVE holder # t
      OBVIOUS
    <3>2. /\ "acquire" \in Done(tx[t]) => "release" \in Done(tx[t])
          /\ tx[t].state = "running"
      <4>1. /\ tx[t].state = "running"
            /\ ProgramOK(tx[t].kind, tx[t].pc) /\ Statements[tx[t].kind][tx[t].pc] = "commit"
            /\ Done(tx[t]) = {Statements[tx[t].kind][i] : i \in 1 .. (tx[t].pc - 1)}
        BY <3>1, AtFact
      <4>2. QED BY <4>1 DEF ProgramOK
    <3>3. QED BY <1>1, <3>2, InSectionFact
  <2>3. QED BY <1>1, <1>2, <1>3, <1>8, <2>1, <2>2 DEF LockExcludes
<1>9. QED BY <1>5, <1>6, <1>7, <1>8 DEF LockStep

LEMMA LockNext == Inv /\ LockExcludes /\ [Next]_vars => LockExcludes'
<1> SUFFICES ASSUME Inv, LockExcludes, [Next]_vars PROVE LockExcludes'
  OBVIOUS
<1>1. CASE UNCHANGED vars
  BY <1>1 DEF vars, LockExcludes, InSection
<1>2. ASSUME NEW t \in Sessions, Proceed(t) PROVE LockExcludes'
  BY <1>2, ProceedForm, LockStepKept
<1>3. ASSUME NEW t \in Sessions, DeadlockVictim(t) PROVE LockExcludes'
  <2>1. LockStep(t)
    BY <1>3, IdleFact DEF DeadlockVictim, StatementFails, LockStep, Inv, ShapeOK, Fields
  <2>2. QED BY <2>1, LockStepKept
<1>4. ASSUME NEW t \in Sessions, Abandon(t) PROVE LockExcludes'
  <2>1. LockStep(t)
    BY <1>4, IdleFact DEF Abandon, Raise, LockStep, Inv, ShapeOK, Fields
  <2>2. QED BY <2>1, LockStepKept
<1>5. ASSUME NEW t \in Sessions, NEW kind \in Kinds, Start(t, kind) PROVE LockExcludes'
  <2>1. /\ holder' = holder /\ \A u \in Sessions : u # t => tx'[u] = tx[u]
        /\ tx[t].state = "idle" /\ tx'[t].pc = 1
    BY <1>5 DEF Start, Inv, ShapeOK, SessionOK, Fields
  <2>2. Done(tx'[t]) = {}
    BY <2>1 DEF Done
  <2>3. ~InSection(t) /\ ~InSection(t)'
    BY <2>1, <2>2, InSectionFact DEF InSection, Done
  <2>4. \A u \in Sessions : u # t => InSection(u)' = InSection(u)
    BY <2>1 DEF InSection
  <2>5. QED BY <2>1, <2>3, <2>4 DEF LockExcludes
<1>6. QED BY <1>1, <1>2, <1>3, <1>4, <1>5 DEF Next

\* Whoever is between acquire_plan_lock and release_plan_lock holds the lock of
\* the plan; whoever has ended, whatever failed, does not.
THEOREM LockIsExclusive == Spec => []LockExcludes
<1>1. Init => LockExcludes
  BY NamedFact, IdleFact DEF Init, LockExcludes, InSection
<1>2. QED BY <1>1, LockNext, InvHolds, PTL DEF Spec

----------------------------------------------------------------------------
(* Reports                                                                 *)

\* Every activation is there once.
ReportOK(data) ==
    /\ data \in Reports
    /\ \A i, j \in DOMAIN data.activations :
        data.activations[i] = data.activations[j] => i = j

\* What session t reported is in the record.
Has(data, t) ==
    /\ Activation[t] # None =>
        \E i \in DOMAIN data.activations : data.activations[i] = Activation[t]
    /\ LinkedAt[t] # None => data.linked # None

\* No aggregate older than that of t is in the record.
Timely(data, t) ==
    LinkedAt[t] \in Nat => data.linked \in Nat /\ data.linked >= LinkedAt[t]

\* Nothing of the old record is lost in the new one.
Grown(old, new) ==
    old # None =>
        /\ \A i \in DOMAIN old.activations :
            \E j \in DOMAIN new.activations : new.activations[j] = old.activations[i]
        /\ old.linked # None => new.linked # None

\* The new record's aggregate is not older.
Later(old, new) ==
    old # None /\ old.linked \in Nat => new.linked \in Nat /\ new.linked >= old.linked

\* What a report has read and is about to write.
ReportPending(d, x, t) ==
    x.state = "running" /\ x.kind = "report" =>
        /\ "find_row" \in Done(x) /\ "lock_row" \notin Done(x) /\ x.found # None =>
            d[Runtime] # None
        /\ "insert_row" \in Done(x) => Runtime \in DOMAIN x.writes \/ d[Runtime] # None
        /\ "lock_row" \in Done(x) => Runtime \in DOMAIN x.writes
        /\ "lock_row" \in Done(x) /\ "merge" \notin Done(x) => x.found = x.writes[Runtime]
        /\ "merge" \in Done(x) => Has(x.writes[Runtime], t) /\ Timely(x.writes[Runtime], t)
        /\ Runtime \in DOMAIN x.writes =>
            /\ ReportOK(x.writes[Runtime]) /\ Grown(d[Runtime], x.writes[Runtime])
            /\ LinkedAt[t] = Untimed \/ Later(d[Runtime], x.writes[Runtime])

ReportDone(d, x, t) ==
    x.state = "done" /\ x.kind = "report" => d[Runtime] # None /\ Has(d[Runtime], t)

\* A report without a time has been acknowledged.
UntimedDone == \E u \in Sessions : Reported(u) /\ LinkedAt[u] = Untimed

TimesKept == \A t \in Sessions : Reported(t) => Timely(db[Runtime], t) \/ UntimedDone

ReportInv ==
    /\ db[Runtime] # None => ReportOK(db[Runtime])
    /\ \A t \in Sessions : ReportPending(db, tx[t], t) /\ ReportDone(db, tx[t], t)
    /\ TimesKept

LEMMA ReportFact ==
    ASSUME NEW data, ReportOK(data)
    PROVE  data # None /\ Grown(data, data) /\ Later(data, data)
<1>1. data # None
  BY ReportsAssumption DEF ReportOK
<1>2. Grown(data, data)
  BY DEF Grown
<1>3. Later(data, data)
  BY DEF Later
<1>4. QED BY <1>1, <1>2, <1>3

LEMMA NoReportOK == ReportOK(NoReport)
BY DEF ReportOK, NoReport, Reports

\* An entry is added once, and the others stay.
LEMMA AppendedFact ==
    ASSUME NEW Acts, NEW a \in Seq(Acts), NEW v, v = None \/ v \in Acts,
           \A i, j \in DOMAIN a : a[i] = a[j] => i = j
    PROVE  LET b == Appended(a, v) IN
           /\ b \in Seq(Acts)
           /\ \A i, j \in DOMAIN b : b[i] = b[j] => i = j
           /\ v # None => \E i \in DOMAIN b : b[i] = v
           /\ \A i \in DOMAIN a : \E j \in DOMAIN b : b[j] = a[i]
<1> DEFINE b == Appended(a, v)
<1>1. b = IF v = None \/ \E i \in DOMAIN a : a[i] = v THEN a ELSE Append(a, v)
  BY DEF Appended
<1> HIDE DEF b
<1>2. /\ b \in Seq(Acts)
      /\ \A i, j \in DOMAIN b : b[i] = b[j] => i = j
      /\ v # None => \E i \in DOMAIN b : b[i] = v
      /\ \A i \in DOMAIN a : \E j \in DOMAIN b : b[j] = a[i]
  <2>1. CASE v = None \/ \E i \in DOMAIN a : a[i] = v
    BY <1>1, <2>1
  <2>2. CASE v # None /\ ~\E i \in DOMAIN a : a[i] = v
    <3>1. b = Append(a, v)
      BY <1>1, <2>2
    <3>2. /\ b \in Seq(Acts) /\ DOMAIN a = 1 .. Len(a) /\ Len(a) \in Nat
          /\ DOMAIN b = 1 .. (Len(a) + 1)
          /\ \A i \in 1 .. Len(a) : b[i] = a[i]
          /\ b[Len(a) + 1] = v
      BY <2>2, <3>1
    <3>3. QED BY <2>2, <3>2
  <2>3. QED BY <2>1, <2>2
<1>3. QED BY <1>2 DEF b

\* Only an untimed aggregate takes the place of a later one.
LEMMA NewestFact ==
    ASSUME NEW stored \in Nat \cup {Untimed, None}, NEW incoming \in Nat \cup {Untimed, None}
    PROVE  LET n == Newest(stored, incoming) IN
           /\ n \in Nat \cup {Untimed, None}
           /\ (incoming # None \/ stored # None) => n # None
           /\ incoming \in Nat => n \in Nat /\ n >= incoming
           /\ incoming # Untimed /\ stored \in Nat => n \in Nat /\ n >= stored
<1> DEFINE n == Newest(stored, incoming)
<1>0. None \notin Nat /\ Untimed \notin Nat /\ Untimed # None
  BY ReportsAssumption, NoneIsNoValue DEF Values
<1>1. CASE incoming = None
  <2>1. n = stored
    BY <1>1 DEF Newest
  <2>2. QED BY <1>0, <1>1, <2>1
<1>2. CASE stored \in Nat /\ incoming \in Nat /\ incoming < stored
  <2>1. n = stored
    BY <1>2 DEF Newest
  <2>2. QED BY <1>0, <1>2, <2>1
<1>3. CASE incoming # None /\ ~(stored \in Nat /\ incoming \in Nat /\ incoming < stored)
  <2>1. n = incoming
    BY <1>3 DEF Newest
  <2>2. stored \in Nat /\ incoming \in Nat => incoming >= stored
    BY <1>3
  <2>3. QED BY <1>0, <1>3, <2>1, <2>2
<1>4. QED BY <1>1, <1>2, <1>3

\* merge_runtime_record adds its report to a record and loses nothing of it,
\* but for the time of its aggregate when the report brings one without.
LEMMA MergedFact ==
    ASSUME NEW t \in Sessions, NEW data, ReportOK(data)
    PROVE  /\ ReportOK(Merged(data, t)) /\ Has(Merged(data, t), t)
           /\ Timely(Merged(data, t), t) /\ Grown(data, Merged(data, t))
           /\ LinkedAt[t] = Untimed \/ Later(data, Merged(data, t))
<1> DEFINE Acts == {Activation[u] : u \in Sessions} \ {None}
           new == Merged(data, t)
<1>1. /\ data.activations \in Seq(Acts) /\ data.linked \in Nat \cup {Untimed, None}
      /\ \A i, j \in DOMAIN data.activations :
            data.activations[i] = data.activations[j] => i = j
  BY DEF ReportOK, Reports
<1>2. /\ LinkedAt[t] \in Nat \cup {Untimed, None}
      /\ Activation[t] = None \/ Activation[t] \in Acts
  BY ReportsAssumption
<1>3. /\ new.activations = Appended(data.activations, Activation[t])
      /\ new.linked = Newest(data.linked, LinkedAt[t])
      /\ new = [activations |-> new.activations, linked |-> new.linked]
  BY DEF Merged
<1> HIDE DEF new, Acts
<1>4. /\ new.activations \in Seq(Acts)
      /\ \A i, j \in DOMAIN new.activations :
            new.activations[i] = new.activations[j] => i = j
      /\ Activation[t] # None =>
            \E i \in DOMAIN new.activations : new.activations[i] = Activation[t]
      /\ \A i \in DOMAIN data.activations :
            \E j \in DOMAIN new.activations : new.activations[j] = data.activations[i]
  BY <1>1, <1>2, <1>3, AppendedFact
<1>5. /\ new.linked \in Nat \cup {Untimed, None}
      /\ (LinkedAt[t] # None \/ data.linked # None) => new.linked # None
      /\ LinkedAt[t] \in Nat => new.linked \in Nat /\ new.linked >= LinkedAt[t]
      /\ LinkedAt[t] # Untimed /\ data.linked \in Nat =>
            new.linked \in Nat /\ new.linked >= data.linked
  BY <1>1, <1>2, <1>3, NewestFact
<1>6. ReportOK(new)
  BY <1>3, <1>4, <1>5 DEF ReportOK, Reports, Acts
<1>7. Has(new, t) /\ Timely(new, t)
  BY <1>4, <1>5 DEF Has, Timely
<1>8. Grown(data, new)
  BY <1>4, <1>5 DEF Grown
<1>9. LinkedAt[t] = Untimed \/ Later(data, new)
  BY <1>5 DEF Later
<1>10. QED BY <1>6, <1>7, <1>8, <1>9 DEF new

LEMMA GrownTwice ==
    ASSUME NEW x, NEW y, NEW z, Grown(x, y), Grown(y, z), ReportOK(y)
    PROVE  Grown(x, z)
BY ReportFact DEF Grown

LEMMA LaterTwice ==
    ASSUME NEW x, NEW y, NEW z, Later(x, y), Later(y, z), ReportOK(y)
    PROVE  Later(x, z)
BY ReportFact DEF Later

LEMMA HasGrown ==
    ASSUME NEW t \in Sessions, NEW x, NEW y, Has(x, t), Grown(x, y), ReportOK(x)
    PROVE  Has(y, t)
BY ReportFact DEF Has, Grown

LEMMA TimelyLater ==
    ASSUME NEW t \in Sessions, NEW x, NEW y, Timely(x, t), Later(x, y), ReportOK(x)
    PROVE  Timely(y, t)
BY ReportFact DEF Timely, Later

\* The statements of a report, and those before each.
LEMMA ReportStatements ==
    ASSUME NEW x, x.kind = "report", x.pc \in DOMAIN Statements["report"]
    PROVE  LET s == Statements["report"][x.pc] IN
           /\ s \in {"find_row", "insert_row", "lock_row", "merge", "commit"}
           /\ s = "find_row" => Done(x) = {}
           /\ s = "insert_row" => Done(x) = {"find_row"}
           /\ s = "lock_row" => Done(x) = {"find_row", "insert_row"}
           /\ s = "merge" => Done(x) = {"find_row", "insert_row", "lock_row"}
           /\ s = "commit" => Done(x) = {"find_row", "insert_row", "lock_row", "merge"}
<1>1. /\ DOMAIN Statements["report"] = 1 .. 5
      /\ Statements["report"][1] = "find_row" /\ Statements["report"][2] = "insert_row"
      /\ Statements["report"][3] = "lock_row" /\ Statements["report"][4] = "merge"
      /\ Statements["report"][5] = "commit"
  BY DEF Statements
<1>2. x.pc \in 1 .. 5
  BY <1>1
<1>3. Done(x) = {Statements["report"][i] : i \in 1 .. (x.pc - 1)}
  BY DEF Done
<1>4. CASE x.pc = 1
  BY <1>1, <1>3, <1>4
<1>5. CASE x.pc = 2
  BY <1>1, <1>3, <1>5
<1>6. CASE x.pc = 3
  BY <1>1, <1>3, <1>6
<1>7. CASE x.pc = 4
  BY <1>1, <1>3, <1>7
<1>8. CASE x.pc = 5
  BY <1>1, <1>3, <1>8
<1>9. QED BY <1>2, <1>4, <1>5, <1>6, <1>7, <1>8

\* What a report knows when it comes to one of its statements.
LEMMA AtReport ==
    ASSUME Inv, NEW t \in Sessions,
           NEW s \in {"find_row", "insert_row", "lock_row", "merge"}, At(t, s)
    PROVE  /\ ShapeOK /\ tx[t].state = "running" /\ tx[t].kind = "report"
           /\ s = "find_row" => Done(tx[t]) = {}
           /\ s = "insert_row" => Done(tx[t]) = {"find_row"}
           /\ s = "lock_row" => Done(tx[t]) = {"find_row", "insert_row"}
           /\ s = "merge" => Done(tx[t]) = {"find_row", "insert_row", "lock_row"}
<1>1. /\ ShapeOK /\ tx[t].state = "running" /\ ProgramOK(tx[t].kind, tx[t].pc)
      /\ Statements[tx[t].kind][tx[t].pc] = s
  BY AtFact
<1>2. tx[t].kind = "report" /\ tx[t].pc \in DOMAIN Statements["report"]
  BY <1>1, RunningFact DEF ProgramOK
<1>3. QED BY <1>1, <1>2, ReportStatements

\* A step of a session that is not about the record.
Elsewhere(t) ==
    /\ Alone(t)
    /\ \/ tx'[t].state \in {"broken", "failed"}
       \/ tx'[t].state = "running" /\ tx'[t].kind # "report"

LEMMA ReportForm ==
    ASSUME Inv, NEW t \in Sessions, Proceed(t)
    PROVE  \/ Elsewhere(t) \/ commit(t) \/ find_row(t) \/ lock_row(t) \/ merge(t)
           \/ insert_row(t) /\ Skip(t) /\ tx[t].found # None
           \/ /\ insert_row(t) /\ Write(t, Put(Runtime, NoReport))
              /\ Seen(t, Runtime) = None
<1>1. ASSUME NEW s, At(t, s), Advanced(t),
             s \notin {"none", "find_row", "insert_row", "lock_row", "merge", "commit"}
      PROVE  Elsewhere(t)
  <2>1. /\ Statements[tx[t].kind][tx[t].pc] = s
        /\ tx[t].pc \in DOMAIN Statements[tx[t].kind]
    BY <1>1, RunningFact DEF Inv
  <2>2. tx[t].kind # "report"
    BY <1>1, <2>1, ReportStatements
  <2>3. QED BY <1>1, <2>2 DEF Advanced, Elsewhere
<1>2. ASSUME NEW s, At(t, s),
             s \notin {"none", "find_row", "insert_row", "lock_row", "merge", "commit"},
             NEW field \in Fields \ {"state", "kind", "pc"}, NEW value,
             Remember(t, field, value)
      PROVE  Elsewhere(t)
  BY <1>1, <1>2, AtFact, RememberForm
<1>3. ASSUME Raise(t) PROVE Elsewhere(t)
  BY <1>3, IdleFact DEF Raise, Elsewhere, Alone, Inv, ShapeOK, Fields
<1>4. ASSUME StatementFails(t) PROVE Elsewhere(t)
  BY <1>4, IdleFact DEF StatementFails, Elsewhere, Alone, Inv, ShapeOK, Fields
<1>5. CASE Disconnect(t)
  BY <1>3, <1>5 DEF Disconnect
<1>6. CASE acquire(t) \/ release(t)
  <2>1. tx[t].state = "running" /\ ShapeOK
    BY <1>6, AtFact DEF acquire, release
  <2>2. Advanced(t)
    BY <1>6, <2>1 DEF acquire, release, ShapeOK, SessionOK, Fields, Advanced, Alone
  <2>3. QED BY <1>1, <1>6, <2>2 DEF acquire, release
<1>7. CASE resolve(t) \/ list_ids(t)
  BY <1>2, <1>7 DEF resolve, list_ids, Fields
<1>8. CASE admit(t) \/ get_open(t) \/ get_ref(t)
  BY <1>2, <1>3, <1>8 DEF admit, get_open, get_ref, Skip, Fields
<1>9. CASE insert_step(t) \/ insert_cascade(t)
  BY <1>2, <1>4, <1>9 DEF insert_step, insert_cascade, Insert, Write, Fields
<1>10. CASE insert_row(t)
  BY <1>4, <1>10 DEF insert_row, Insert
<1>11. CASE create_ref(t) \/ set_status(t) \/ set_head(t) \/ delete_ref(t)
  BY <1>2, <1>11 DEF create_ref, set_status, set_head, delete_ref, Write, Fields
<1>12. CASE record(t) \/ close(t)
  BY <1>2, <1>3, <1>12 DEF record, close, Write, Fields
<1>13. QED
  BY <1>5, <1>6, <1>7, <1>8, <1>9, <1>10, <1>11, <1>12 DEF Proceed

\* A step that does not commit: the session that takes it has to keep its part.
LEMMA AloneReport ==
    ASSUME Inv, ReportInv, NEW t \in Sessions, Alone(t),
           tx[t].state # "done", tx'[t].state # "done",
           ReportPending(db, tx'[t], t)
    PROVE  ReportInv'
<1>1. /\ db' = db
      /\ \A u \in Sessions : u # t => tx'[u] = tx[u]
  BY DEF Alone
<1>2. \A u \in Sessions : Reported(u)' = Reported(u)
  BY <1>1 DEF Reported
<1>3. TimesKept'
  BY <1>1, <1>2 DEF ReportInv, TimesKept, UntimedDone
<1>4. QED BY <1>1, <1>3 DEF ReportInv, ReportDone

LEMMA FindRowReport ==
    ASSUME Inv, ReportInv, NEW t \in Sessions, find_row(t)
    PROVE  ReportInv'
<1>1. At(t, "find_row") /\ Remember(t, "found", db[Runtime])
  BY DEF find_row
<1>2. /\ ShapeOK /\ tx[t].state = "running" /\ tx[t].kind = "report" /\ Done(tx[t]) = {}
  BY <1>1, AtReport
<1>3. /\ Advanced(t) /\ tx'[t].found = db[Runtime] /\ tx'[t].writes = tx[t].writes
  BY <1>1, <1>2, RememberForm DEF Fields
<1>4. Done(tx'[t]) = {"find_row"}
  BY <1>1, <1>2, <1>3, AdvancedFact
<1>5. ReportPending(db, tx[t], t)
  BY DEF ReportInv
<1>6. ReportPending(db, tx'[t], t)
  BY <1>2, <1>3, <1>4, <1>5 DEF ReportPending
<1>7. QED BY <1>3, <1>6, AloneReport DEF Advanced

LEMMA InsertRowReport ==
    ASSUME Inv, ReportInv, NEW t \in Sessions, At(t, "insert_row"),
           \/ Skip(t) /\ tx[t].found # None
           \/ Write(t, Put(Runtime, NoReport)) /\ Seen(t, Runtime) = None
    PROVE  ReportInv'
<1>1. /\ ShapeOK /\ tx[t].state = "running" /\ tx[t].kind = "report"
      /\ Done(tx[t]) = {"find_row"}
  BY AtReport
<1>2. ReportPending(db, tx[t], t)
  BY DEF ReportInv
<1>3. CASE Skip(t) /\ tx[t].found # None
  <2>1. Advanced(t) /\ tx'[t].found = tx[t].found /\ tx'[t].writes = tx[t].writes
    BY <1>1, <1>3, RememberForm DEF Fields, Skip
  <2>2. Done(tx'[t]) = {"find_row", "insert_row"}
    BY <1>1, <2>1, AdvancedFact
  <2>3. db[Runtime] # None
    BY <1>1, <1>2, <1>3 DEF ReportPending
  <2>4. ReportPending(db, tx'[t], t)
    BY <1>1, <1>2, <2>1, <2>2, <2>3 DEF ReportPending
  <2>5. QED BY <2>1, <2>4, AloneReport DEF Advanced
<1>4. CASE Write(t, Put(Runtime, NoReport)) /\ Seen(t, Runtime) = None
  <2>1. Wrote(t, Put(Runtime, NoReport)) /\ tx'[t].found = tx[t].found
    BY <1>1, <1>4, WriteForm
  <2>2. Runtime \in DOMAIN tx'[t].writes /\ tx'[t].writes[Runtime] = NoReport
    BY <2>1, PutFact DEF Wrote
  <2>3. Done(tx'[t]) = {"find_row", "insert_row"} /\ Advanced(t)
    BY <1>1, <2>1, AdvancedFact DEF Wrote
  <2>4. Runtime \notin DOMAIN tx[t].writes
    BY <1>1, <1>2, <1>4, ReportFact DEF ReportPending, Seen, Written
  <2>5. db[Runtime] = None
    BY <1>4, <2>4 DEF Seen, Written
  <2>6. ReportOK(NoReport) /\ Grown(db[Runtime], NoReport) /\ Later(db[Runtime], NoReport)
    BY <2>5, NoReportOK DEF Grown, Later
  <2>7. tx[t].found = None \/ db[Runtime] # None
    BY <1>1, <1>2 DEF ReportPending
  <2>8. ReportPending(db, tx'[t], t)
    BY <1>1, <2>1, <2>2, <2>3, <2>5, <2>6, <2>7 DEF ReportPending
  <2>9. QED BY <2>3, <2>8, AloneReport DEF Advanced
<1>5. QED BY <1>3, <1>4

LEMMA LockRowReport ==
    ASSUME Inv, ReportInv, NEW t \in Sessions, lock_row(t)
    PROVE  ReportInv'
<1> DEFINE seen == Seen(t, Runtime)
           over == Over(Put(Runtime, seen), tx[t].writes)
<1>1. At(t, "lock_row")
  BY DEF lock_row
<1>2. /\ ShapeOK /\ tx[t].state = "running" /\ tx[t].kind = "report"
      /\ Done(tx[t]) = {"find_row", "insert_row"}
  BY <1>1, AtReport
<1>3. ReportPending(db, tx[t], t) /\ (db[Runtime] # None => ReportOK(db[Runtime]))
  BY DEF ReportInv
<1>4. /\ ReportOK(seen) /\ Grown(db[Runtime], seen)
      /\ LinkedAt[t] = Untimed \/ Later(db[Runtime], seen)
  <2>1. CASE Runtime \in DOMAIN tx[t].writes
    BY <1>2, <1>3, <2>1 DEF ReportPending, Seen, Written
  <2>2. CASE Runtime \notin DOMAIN tx[t].writes
    <3>1. db[Runtime] # None /\ seen = db[Runtime]
      BY <1>2, <1>3, <2>2 DEF ReportPending, Seen, Written
    <3>2. QED BY <1>3, <3>1, ReportFact
  <2>3. QED BY <2>1, <2>2
<1>5. Runtime \in DOMAIN over /\ over[Runtime] = seen
  <2> DEFINE put == Put(Runtime, seen)
  <2>1. Runtime \in DOMAIN put /\ put[Runtime] = seen
    BY PutFact
  <2>2. /\ DOMAIN over = DOMAIN put \cup DOMAIN tx[t].writes
        /\ \A row \in DOMAIN put : over[row] = put[row]
    BY OverFact
  <2> HIDE DEF put, seen, over
  <2>3. QED BY <2>1, <2>2
<1>6. /\ tx' = [tx EXCEPT ![t].pc = @ + 1, ![t].found = seen, ![t].writes = over]
      /\ db' = db
  BY DEF lock_row
<1> HIDE DEF over, seen
<1>7. /\ Advanced(t) /\ tx'[t].found = seen /\ tx'[t].writes = over
  BY <1>2, <1>6 DEF ShapeOK, SessionOK, Fields, Advanced, Alone
<1>8. Done(tx'[t]) = {"find_row", "insert_row", "lock_row"}
  BY <1>1, <1>2, <1>7, AdvancedFact
<1>9. ReportPending(db, tx'[t], t)
  BY <1>4, <1>5, <1>7, <1>8 DEF ReportPending
<1>10. QED BY <1>7, <1>9, AloneReport DEF Advanced

LEMMA MergeReport ==
    ASSUME Inv, ReportInv, NEW t \in Sessions, merge(t)
    PROVE  ReportInv'
<1> DEFINE old == tx[t].found
           new == Merged(old, t)
<1>1. At(t, "merge") /\ Write(t, Put(Runtime, new))
  BY DEF merge
<1>2. /\ ShapeOK /\ tx[t].state = "running" /\ tx[t].kind = "report"
      /\ Done(tx[t]) = {"find_row", "insert_row", "lock_row"}
  BY <1>1, AtReport
<1>3. ReportPending(db, tx[t], t) /\ (db[Runtime] # None => ReportOK(db[Runtime]))
  BY DEF ReportInv
<1>4. /\ ReportOK(old) /\ Grown(db[Runtime], old)
      /\ LinkedAt[t] = Untimed \/ Later(db[Runtime], old)
  BY <1>2, <1>3 DEF ReportPending
<1>5. /\ ReportOK(new) /\ Has(new, t) /\ Timely(new, t) /\ Grown(old, new)
      /\ LinkedAt[t] = Untimed \/ Later(old, new)
  BY <1>4, MergedFact
<1> HIDE DEF old, new
<1>6. /\ Grown(db[Runtime], new)
      /\ LinkedAt[t] = Untimed \/ Later(db[Runtime], new)
  BY <1>4, <1>5, GrownTwice, LaterTwice
<1>7. Wrote(t, Put(Runtime, new)) /\ tx'[t].found = tx[t].found
  BY <1>1, <1>2, WriteForm
<1>8. Runtime \in DOMAIN tx'[t].writes /\ tx'[t].writes[Runtime] = new
  BY <1>7, PutFact DEF Wrote
<1>9. Done(tx'[t]) = {"find_row", "insert_row", "lock_row", "merge"} /\ Advanced(t)
  BY <1>1, <1>2, <1>7, AdvancedFact DEF Wrote
<1>10. ReportPending(db, tx'[t], t)
  BY <1>5, <1>6, <1>8, <1>9 DEF ReportPending
<1>11. QED BY <1>9, <1>10, AloneReport DEF Advanced

\* Only a report writes the record.
LEMMA RuntimeWriter ==
    ASSUME Inv, NEW t \in Sessions, Runtime \in DOMAIN tx[t].writes
    PROVE  tx[t].state = "running" /\ tx[t].kind = "report"
<1>1. SessionOK(tx[t]) /\ RowWrite(db, tx[t], t, Runtime)
  BY DEF Inv, ShapeOK, Local, Pending
<1>2. tx[t].state = "running"
  BY <1>1 DEF SessionOK
<1>3. tx[t].kind = "report"
  BY <1>1, RowsDiffer
     DEF RowWrite, StepWrite, CascadeWrite, RefWrite, RevisionWrite
<1>4. QED BY <1>2, <1>3

LEMMA CommitReport ==
    ASSUME Inv, ReportInv, NEW t \in Sessions, commit(t)
    PROVE  ReportInv'
<1>1. /\ db'[Runtime] = IF Runtime \in DOMAIN tx[t].writes
                        THEN tx[t].writes[Runtime] ELSE db[Runtime]
      /\ \A u \in Sessions : u # t => tx'[u] = tx[u]
      /\ tx'[t].state = "done" /\ tx[t].state = "running" /\ At(t, "commit")
  BY CommitForm, RowsFact
<1>2. /\ db[Runtime] # None => ReportOK(db[Runtime])
      /\ \A u \in Sessions : ReportPending(db, tx[u], u) /\ ReportDone(db, tx[u], u)
      /\ TimesKept
  BY DEF ReportInv
<1>3. Runtime \in DOMAIN tx[t].writes =>
        /\ ReportOK(tx[t].writes[Runtime]) /\ Grown(db[Runtime], tx[t].writes[Runtime])
        /\ LinkedAt[t] = Untimed \/ Later(db[Runtime], tx[t].writes[Runtime])
        /\ tx[t].kind = "report"
  BY <1>2, RuntimeWriter DEF ReportPending
<1>4. /\ db'[Runtime] # None => ReportOK(db'[Runtime])
      /\ db[Runtime] # None => db'[Runtime] # None /\ Grown(db[Runtime], db'[Runtime])
  BY <1>1, <1>2, <1>3, ReportFact
<1>5. ASSUME NEW u \in Sessions, u # t
      PROVE  ReportPending(db', tx'[u], u) /\ ReportDone(db', tx'[u], u)
  <2>1. Runtime \in DOMAIN tx[u].writes => db'[Runtime] = db[Runtime]
    BY <1>1, <1>5 DEF Inv, Exclusive
  <2>2. ReportPending(db', tx[u], u)
    BY <1>2, <1>4, <1>5, <2>1 DEF ReportPending
  <2>3. ReportDone(db', tx[u], u)
    BY <1>2, <1>4, HasGrown DEF ReportDone
  <2>4. QED BY <1>1, <1>5, <2>2, <2>3
<1>6. tx'[t].kind = "report" <=> tx[t].kind = "report"
  <2>1. tx'[t] = IF tx[t].kind \in {"create", "report"}
                 THEN [tx[t] EXCEPT !.state = "done", !.writes = <<>>]
                 ELSE [Idle EXCEPT !.state = "done"]
    BY DEF commit, Inv, ShapeOK
  <2>2. None # "report" /\ "kind" \in DOMAIN tx[t]
    BY KindsAssumption DEF Statements, Inv, ShapeOK, SessionOK, Fields
  <2>3. CASE tx[t].kind \notin {"create", "report"}
    <3>1. tx'[t].kind = None
      BY <2>1, <2>3 DEF Idle
    <3>2. QED BY <2>2, <2>3, <3>1
  <2>4. CASE tx[t].kind \in {"create", "report"}
    <3>1. tx'[t].kind = tx[t].kind
      BY <2>1, <2>2, <2>4
    <3>2. QED BY <2>4, <3>1
  <2>5. QED BY <2>3, <2>4
<1>7. /\ ReportDone(db', tx'[t], t)
      /\ tx[t].kind = "report" => Timely(db'[Runtime], t)
  <2>1. SUFFICES ASSUME tx[t].kind = "report"
                 PROVE  db'[Runtime] # None /\ Has(db'[Runtime], t) /\ Timely(db'[Runtime], t)
    BY <1>6 DEF ReportDone
  <2>2. "merge" \in Done(tx[t]) /\ "lock_row" \in Done(tx[t])
    <3>1. /\ tx[t].pc \in DOMAIN Statements["report"]
          /\ Statements["report"][tx[t].pc] = "commit"
      BY <1>1, <2>1, RunningFact DEF Inv
    <3>2. QED BY <2>1, <3>1, ReportStatements
  <2>3. /\ Runtime \in DOMAIN tx[t].writes /\ Has(tx[t].writes[Runtime], t)
        /\ ReportOK(tx[t].writes[Runtime]) /\ Timely(tx[t].writes[Runtime], t)
    BY <1>1, <1>2, <2>1, <2>2 DEF ReportPending
  <2>4. QED BY <1>1, <2>3, ReportFact
<1>8. ReportPending(db', tx'[t], t)
  BY <1>1 DEF ReportPending
<1>9. TimesKept'
  <2>1. UntimedDone => UntimedDone'
    BY <1>1 DEF UntimedDone, Reported
  <2>2. Later(db[Runtime], db'[Runtime]) \/ UntimedDone'
    <3>1. CASE Runtime \notin DOMAIN tx[t].writes
      BY <1>1, <3>1 DEF Later
    <3>2. CASE Runtime \in DOMAIN tx[t].writes /\ LinkedAt[t] # Untimed
      BY <1>1, <1>3, <3>2
    <3>3. CASE Runtime \in DOMAIN tx[t].writes /\ LinkedAt[t] = Untimed
      <4>1. Reported(t)'
        BY <1>1, <1>3, <1>6, <3>3 DEF Reported
      <4>2. QED BY <3>3, <4>1 DEF UntimedDone
    <3>4. QED BY <3>1, <3>2, <3>3
  <2>3. ASSUME NEW u \in Sessions, Reported(u)'
        PROVE  Timely(db'[Runtime], u) \/ UntimedDone'
    <3>1. CASE u = t
      BY <1>6, <1>7, <2>3, <3>1 DEF Reported
    <3>2. CASE u # t
      <4>1. Reported(u)
        BY <1>1, <2>3, <3>2 DEF Reported
      <4>2. db[Runtime] # None /\ ReportOK(db[Runtime])
        BY <1>2, <4>1 DEF Reported, ReportDone
      <4>3. Timely(db[Runtime], u) \/ UntimedDone
        BY <1>2, <4>1 DEF TimesKept
      <4>4. QED BY <2>1, <2>2, <4>2, <4>3, TimelyLater
    <3>3. QED BY <3>1, <3>2
  <2>4. QED BY <2>3 DEF TimesKept
<1>10. QED BY <1>4, <1>5, <1>7, <1>8, <1>9 DEF ReportInv

LEMMA ReportNext == Inv /\ ReportInv /\ [Next]_vars => ReportInv'
<1> SUFFICES ASSUME Inv, ReportInv, [Next]_vars PROVE ReportInv'
  OBVIOUS
<1>1. CASE UNCHANGED vars
  BY <1>1 DEF vars, ReportInv, TimesKept, UntimedDone, Reported
<1>2. ASSUME NEW t \in Sessions, Elsewhere(t), tx[t].state # "done" PROVE ReportInv'
  <2>1. ReportPending(db, tx'[t], t)
    BY <1>2 DEF Elsewhere, ReportPending
  <2>2. QED BY <1>2, <2>1, AloneReport DEF Elsewhere
<1>3. ASSUME NEW t \in Sessions, Proceed(t) PROVE ReportInv'
  <2>1. insert_row(t) => At(t, "insert_row")
    BY DEF insert_row
  <2>2. tx[t].state # "done"
    BY <1>3 DEF Proceed, Disconnect
  <2>3. QED
    BY <1>2, <1>3, <2>1, <2>2, ReportForm, FindRowReport, InsertRowReport, LockRowReport,
       MergeReport, CommitReport
<1>4. ASSUME NEW t \in Sessions, DeadlockVictim(t) PROVE ReportInv'
  <2>1. Elsewhere(t)
    BY <1>4, IdleFact
       DEF DeadlockVictim, StatementFails, Elsewhere, Alone, Inv, ShapeOK, Fields
  <2>2. tx[t].state = "running"
    BY <1>4 DEF DeadlockVictim, WaitsFor, Target, Statement
  <2>3. QED BY <1>2, <2>1, <2>2
<1>5. ASSUME NEW t \in Sessions, Abandon(t) PROVE ReportInv'
  <2>1. Elsewhere(t)
    BY <1>5, IdleFact DEF Abandon, Raise, Elsewhere, Alone, Inv, ShapeOK, Fields
  <2>2. QED BY <1>2, <1>5, <2>1 DEF Abandon
<1>6. ASSUME NEW t \in Sessions, NEW kind \in Kinds, Start(t, kind) PROVE ReportInv'
  <2>1. /\ Alone(t) /\ tx'[t].state = "running" /\ tx'[t].pc = 1
        /\ tx'[t].writes = tx[t].writes
    BY <1>6 DEF Start, Alone, Inv, ShapeOK, SessionOK, Fields
  <2>2. tx[t] = Idle
    BY <1>6 DEF Start, Inv, ShapeOK, SessionOK
  <2>3. Done(tx'[t]) = {} /\ DOMAIN tx'[t].writes = {}
    BY <2>1, <2>2, IdleFact DEF Done
  <2>4. ReportPending(db, tx'[t], t)
    BY <2>3 DEF ReportPending
  <2>5. QED BY <2>1, <2>2, <2>4, AloneReport, IdleFact
<1>7. QED BY <1>1, <1>3, <1>4, <1>5, <1>6 DEF Next

LEMMA ReportInit == Init => ReportInv
<1> SUFFICES ASSUME Init PROVE ReportInv
  OBVIOUS
<1>1. db[Runtime] = None
  <2>1. Runtime \in Rows
    BY RowsFact
  <2>2. /\ Runtime \notin {Plan, StepId(1)} /\ Runtime # Revision(0) /\ Runtime # OneOpen
        /\ Runtime # Cascade(0) /\ Runtime # Ref(0)
    BY RowsDiffer
  <2>3. QED BY <2>1, <2>2 DEF Init
<1>2. \A t \in Sessions : tx[t].state = "idle"
  BY IdleFact DEF Init
<1>3. QED BY <1>1, <1>2 DEF ReportInv, ReportPending, ReportDone, TimesKept, Reported

\* Of concurrent reports about one step none is lost: the record has the
\* activation of each acknowledged report, once, and an aggregate that is not
\* older, unless one without a time was reported.
THEOREM ReportsStay == Spec => []ReportsKept
<1>1. Inv /\ ReportInv => ReportsKept
  <2> SUFFICES ASSUME ReportInv, NEW t \in Sessions, Reported(t)
               PROVE  LET data == db[Runtime]
                      IN /\ Activation[t] # None =>
                            Cardinality({i \in DOMAIN data.activations :
                                            data.activations[i] = Activation[t]}) = 1
                         /\ LinkedAt[t] # None => data.linked # None
                         /\ LinkedAt[t] \in Nat =>
                            \/ data.linked \in Nat /\ data.linked >= LinkedAt[t]
                            \/ UntimedDone
    BY DEF ReportsKept, UntimedDone
  <2> DEFINE a == db[Runtime].activations
  <2>1. ReportOK(db[Runtime]) /\ Has(db[Runtime], t)
    BY DEF ReportInv, ReportDone, Reported
  <2>2. ASSUME Activation[t] # None
        PROVE  Cardinality({j \in DOMAIN a : a[j] = Activation[t]}) = 1
    <3>1. PICK i \in DOMAIN a : a[i] = Activation[t]
      BY <2>1, <2>2 DEF Has
    <3>2. {j \in DOMAIN a : a[j] = Activation[t]} = {i}
      BY <2>1, <3>1 DEF ReportOK
    <3>3. Cardinality({i}) = 1
      BY FS_Singleton
    <3>4. QED BY <3>2, <3>3
  <2>3. Timely(db[Runtime], t) \/ UntimedDone
    BY DEF ReportInv, TimesKept
  <2>4. QED BY <2>1, <2>2, <2>3 DEF Has, Timely
<1>2. QED BY <1>1, InvHolds, ReportInit, ReportNext, PTL DEF Spec

----------------------------------------------------------------------------
(* The ledger: every commit is one entry of PlanLedger, or none            *)

\* A revision of cascade c is recorded.
RecordedIn(d, c) == \E r \in Named : d[Revision(r)] # None /\ d[Revision(r)].cascade = c

\* What a session is about to enter: the head stays the committed one unless
\* the command moves it, a recorded revision has a parent and its pointer, and
\* what a commit publishes is the tip, or the tip was edited past it.
Entering(d, x, t) ==
    x.state = "running" =>
        /\ ~Beginning(x) /\ "resolve" \in Done(x) => x.head # None
        /\ x.cascade # None /\ "get_ref" \in Done(x) => x.tip # None
        /\ Plan \in DOMAIN x.writes =>
            \/ x.writes[Plan] = d[Plan]
            \/ "record" \in Done(x) /\ x.cascade = None
            \/ "set_head" \in Done(x)
        /\ "record" \in Done(x) =>
            /\ Revision(t) \in DOMAIN x.writes /\ x.writes[Revision(t)].parent # None
            /\ x.cascade = None => Plan \in DOMAIN x.writes /\ x.writes[Plan] = t
            /\ x.cascade # None => \/ Ref(x.cascade) \in DOMAIN x.writes
                                   \/ d[Ref(x.cascade)] = None
        /\ "set_head" \in Done(x) => Plan \in DOMAIN x.writes /\ x.writes[Plan] = x.tip
        /\ x.kind = "cascade_commit" /\ "get_ref" \in Done(x) =>
            d[Ref(x.cascade)] \in {x.tip, None} \/ RecordedIn(d, x.cascade)

LedgerInv == \A t \in Sessions : Entering(db, tx[t], t)

\* Which statements a command has behind it when it records, reads and commits.
LedgerProgramOK(K, pc) ==
    LET s == Statements[K][pc]
        done == {Statements[K][i] : i \in 1 .. (pc - 1)}
    IN /\ s = "record" => {"resolve", "get_ref"} \subseteq done
       /\ s = "commit" /\ K \in {"create", "edit", "transition"} => "record" \in done
       /\ s = "commit" /\ K = "cascade_commit" => {"set_head", "get_ref"} \subseteq done
       /\ s \in {"admit", "get_open", "get_ref", "set_status"} =>
            "record" \notin done /\ "set_head" \notin done
       /\ s \in {"admit", "get_open", "set_status"} => "get_ref" \notin done
       /\ s = "record" => "set_head" \notin done
       /\ s = "set_head" => "record" \notin done
       /\ s = "get_open" /\ "resolve" \in done => K = "unfreeze"
       /\ "record" \in done => K \in {"create", "edit", "transition"}
       /\ "set_head" \in done => K = "cascade_commit"

LEMMA LedgerProgramFact ==
    ASSUME NEW K \in DOMAIN Statements, NEW pc \in DOMAIN Statements[K]
    PROVE  LedgerProgramOK(K, pc)
<1>1. CASE K = "create"
  <2>1. pc \in 1 .. 9
    BY <1>1 DEF Statements
  <2>2. QED BY <1>1, <2>1 DEF LedgerProgramOK, Statements
<1>2. CASE K = "edit"
  <2>1. pc \in 1 .. 5
    BY <1>2 DEF Statements
  <2>2. QED BY <1>2, <2>1 DEF LedgerProgramOK, Statements
<1>3. CASE K = "transition"
  <2>1. pc \in 1 .. 6
    BY <1>3 DEF Statements
  <2>2. QED BY <1>3, <2>1 DEF LedgerProgramOK, Statements
<1>4. CASE K = "begin"
  <2>1. pc \in 1 .. 6
    BY <1>4 DEF Statements
  <2>2. QED BY <1>4, <2>1 DEF LedgerProgramOK, Statements
<1>5. CASE K = "unfreeze"
  <2>1. pc \in 1 .. 9
    BY <1>5 DEF Statements
  <2>2. QED BY <1>5, <2>1 DEF LedgerProgramOK, Statements
<1>6. CASE K = "cascade_commit"
  <2>1. pc \in 1 .. 8
    BY <1>6 DEF Statements
  <2>2. QED BY <1>6, <2>1 DEF LedgerProgramOK, Statements
<1>7. CASE K = "cascade_abort"
  <2>1. pc \in 1 .. 7
    BY <1>7 DEF Statements
  <2>2. QED BY <1>7, <2>1 DEF LedgerProgramOK, Statements
<1>8. CASE K = "report"
  <2>1. pc \in 1 .. 5
    BY <1>8 DEF Statements
  <2>2. QED BY <1>8, <2>1 DEF LedgerProgramOK, Statements
<1>9. QED BY <1>1, <1>2, <1>3, <1>4, <1>5, <1>6, <1>7, <1>8 DEF Statements

LEMMA AtLedger ==
    ASSUME Inv, NEW t \in Sessions, NEW s, At(t, s), s # "none"
    PROVE  LET x == tx[t] IN
           /\ s = "record" => {"resolve", "get_ref"} \subseteq Done(x)
           /\ s = "commit" /\ x.kind \in {"create", "edit", "transition"} =>
                "record" \in Done(x)
           /\ s = "commit" /\ x.kind = "cascade_commit" =>
                {"set_head", "get_ref"} \subseteq Done(x)
           /\ s \in {"admit", "get_open", "get_ref", "set_status"} =>
                "record" \notin Done(x) /\ "set_head" \notin Done(x)
           /\ s \in {"admit", "get_open", "set_status"} => "get_ref" \notin Done(x)
           /\ s = "record" => "set_head" \notin Done(x)
           /\ s = "set_head" => "record" \notin Done(x)
           /\ s = "get_open" /\ "resolve" \in Done(x) => x.kind = "unfreeze"
           /\ "record" \in Done(x) => x.kind \in {"create", "edit", "transition"}
           /\ "set_head" \in Done(x) => x.kind = "cascade_commit"
<1>1. /\ tx[t].kind \in DOMAIN Statements
      /\ tx[t].pc \in DOMAIN Statements[tx[t].kind]
      /\ Statements[tx[t].kind][tx[t].pc] = s
  BY RunningFact DEF Inv
<1>2. LedgerProgramOK(tx[t].kind, tx[t].pc)
  BY <1>1, LedgerProgramFact
<1>3. QED BY <1>1, <1>2 DEF LedgerProgramOK, Done

\* A statement that neither reads what is recorded nor records.
Quiet(t) ==
    LET x == tx[t]
        y == tx'[t]
    IN \E s :
        /\ At(t, s) /\ s \notin {"none", "resolve", "get_ref", "record", "set_head", "commit"}
        /\ Advanced(t)
        /\ y.head = x.head \/ Beginning(x)
        /\ y.cascade = x.cascade \/ s \in {"admit", "get_open"}
        /\ y.tip = x.tip
        /\ DOMAIN x.writes \subseteq DOMAIN y.writes
        /\ Plan \in DOMAIN y.writes =>
            \/ Plan \in DOMAIN x.writes /\ y.writes[Plan] = x.writes[Plan]
            \/ s = "set_status" /\ y.writes[Plan] = db[Plan]
        /\ Plan \in DOMAIN x.writes /\ s # "set_status" => y.writes[Plan] = x.writes[Plan]
        /\ Revision(t) \in DOMAIN x.writes =>
            y.writes[Revision(t)] = x.writes[Revision(t)]

LEMMA QuietEntering ==
    ASSUME Inv, LedgerInv, NEW t \in Sessions, Quiet(t)
    PROVE  Entering(db, tx'[t], t)
<1> DEFINE x == tx[t]
           y == tx'[t]
<1>1. PICK s :
        /\ At(t, s) /\ s \notin {"none", "resolve", "get_ref", "record", "set_head", "commit"}
        /\ Advanced(t)
        /\ y.head = x.head \/ Beginning(x)
        /\ y.cascade = x.cascade \/ s \in {"admit", "get_open"}
        /\ y.tip = x.tip
        /\ DOMAIN x.writes \subseteq DOMAIN y.writes
        /\ Plan \in DOMAIN y.writes =>
            \/ Plan \in DOMAIN x.writes /\ y.writes[Plan] = x.writes[Plan]
            \/ s = "set_status" /\ y.writes[Plan] = db[Plan]
        /\ Plan \in DOMAIN x.writes /\ s # "set_status" => y.writes[Plan] = x.writes[Plan]
        /\ Revision(t) \in DOMAIN x.writes =>
            y.writes[Revision(t)] = x.writes[Revision(t)]
  BY DEF Quiet
<1>2. /\ x.state = "running" /\ y.state = "running" /\ y.kind = x.kind
      /\ Done(y) = Done(x) \cup {s} /\ Entering(db, x, t)
  BY <1>1, AdvancedFact DEF Advanced, Inv, LedgerInv
<1>3. /\ s \in {"admit", "get_open"} =>
            {"record", "set_head", "get_ref"} \cap Done(x) = {}
      /\ s = "set_status" => {"record", "set_head", "get_ref"} \cap Done(x) = {}
  BY <1>1, AtLedger
<1> HIDE DEF x, y
<1>4. Beginning(y) <=> Beginning(x)
  BY <1>2 DEF Beginning
<1>5. /\ ~Beginning(y) /\ "resolve" \in Done(y) => y.head # None
      /\ y.cascade # None /\ "get_ref" \in Done(y) => y.tip # None
  BY <1>1, <1>2, <1>3, <1>4 DEF Entering
<1>6. /\ Plan \in DOMAIN y.writes =>
            \/ y.writes[Plan] = db[Plan]
            \/ "record" \in Done(y) /\ y.cascade = None
            \/ "set_head" \in Done(y)
      /\ "set_head" \in Done(y) => Plan \in DOMAIN y.writes /\ y.writes[Plan] = y.tip
  BY <1>1, <1>2, <1>3 DEF Entering
<1>7. "record" \in Done(y) =>
            /\ Revision(t) \in DOMAIN y.writes /\ y.writes[Revision(t)].parent # None
            /\ y.cascade = None => Plan \in DOMAIN y.writes /\ y.writes[Plan] = t
            /\ y.cascade # None => \/ Ref(y.cascade) \in DOMAIN y.writes
                                   \/ db[Ref(y.cascade)] = None
  BY <1>1, <1>2, <1>3 DEF Entering
<1>8. y.kind = "cascade_commit" /\ "get_ref" \in Done(y) =>
            db[Ref(y.cascade)] \in {y.tip, None} \/ RecordedIn(db, y.cascade)
  BY <1>1, <1>2, <1>3 DEF Entering
<1>9. Entering(db, y, t)
  BY <1>5, <1>6, <1>7, <1>8 DEF Entering
<1>10. QED BY <1>9 DEF y

\* A statement that remembers something else, or writes other rows, is quiet.
LEMMA RememberQuiet ==
    ASSUME Inv, NEW t \in Sessions, NEW s, At(t, s),
           s \notin {"none", "resolve", "get_ref", "record", "set_head", "commit"},
           NEW field \in {"head", "cascade", "found"}, NEW value, Remember(t, field, value),
           field = "head" => Beginning(tx[t]),
           field = "cascade" => s \in {"admit", "get_open"}
    PROVE  Quiet(t)
<1>1. ShapeOK /\ tx[t].state = "running"
  BY AtFact
<1>2. /\ Advanced(t)
      /\ tx'[t].head = tx[t].head \/ Beginning(tx[t])
      /\ tx'[t].cascade = tx[t].cascade \/ s \in {"admit", "get_open"}
      /\ tx'[t].tip = tx[t].tip /\ tx'[t].writes = tx[t].writes
  BY <1>1, RememberForm DEF Fields
<1>3. QED BY <1>2 DEF Quiet

LEMMA WroteQuiet ==
    ASSUME Inv, NEW t \in Sessions, NEW s, At(t, s),
           s \notin {"none", "resolve", "get_ref", "record", "set_head", "commit"},
           NEW new, Wrote(t, new),
           Plan \in DOMAIN new => s = "set_status" /\ new[Plan] = db[Plan],
           Revision(t) \notin DOMAIN new
    PROVE  Quiet(t)
<1>1. /\ Advanced(t)
      /\ tx'[t].head = tx[t].head /\ tx'[t].cascade = tx[t].cascade
      /\ tx'[t].tip = tx[t].tip
      /\ DOMAIN tx'[t].writes = DOMAIN new \cup DOMAIN tx[t].writes
      /\ \A row \in DOMAIN new : tx'[t].writes[row] = new[row]
      /\ \A row \in DOMAIN tx[t].writes \ DOMAIN new :
            tx'[t].writes[row] = tx[t].writes[row]
  BY DEF Wrote
<1>2. QED BY <1>1 DEF Quiet

\* Nothing is entered by a session that has stopped, or only just started.
Stopped(t) == Alone(t) /\ tx'[t].state # "running"

LEMMA EndsStopped ==
    ASSUME Inv, NEW t \in Sessions, Raise(t) \/ StatementFails(t)
    PROVE  Stopped(t)
BY IdleFact DEF Raise, StatementFails, Stopped, Alone, Inv, ShapeOK, Fields

LEMMA ReadsQuiet ==
    ASSUME Inv, NEW t \in Sessions,
           admit(t) \/ acquire(t) \/ release(t) \/ list_ids(t) \/ get_open(t) \/ find_row(t)
    PROVE  Quiet(t) \/ Stopped(t)
<1>1. CASE admit(t)
  <2>1. At(t, "admit") /\ (Raise(t) \/ \E c : Remember(t, "cascade", c))
    BY <1>1, AdmitForm DEF admit
  <2>2. QED BY <2>1, EndsStopped, RememberQuiet
<1>2. CASE acquire(t) \/ release(t)
  <2>1. PICK s \in {"acquire", "release"} : At(t, s)
    BY <1>2 DEF acquire, release
  <2>2. tx[t].state = "running" /\ ShapeOK
    BY <2>1, AtFact
  <2>3. /\ Advanced(t)
        /\ tx'[t].head = tx[t].head /\ tx'[t].cascade = tx[t].cascade
        /\ tx'[t].tip = tx[t].tip /\ tx'[t].writes = tx[t].writes
    BY <1>2, <2>2 DEF acquire, release, ShapeOK, SessionOK, Fields, Advanced, Alone
  <2>4. QED BY <2>1, <2>3 DEF Quiet
<1>3. CASE list_ids(t) \/ find_row(t)
  <2>1. \E s \in {"list_ids", "find_row"} : At(t, s) /\ \E value : Remember(t, "found", value)
    BY <1>3 DEF list_ids, find_row
  <2>2. QED BY <2>1, RememberQuiet
<1>4. CASE get_open(t)
  <2>1. /\ At(t, "get_open")
        /\ \/ Raise(t)
           \/ Beginning(tx[t]) /\ Remember(t, "head", Seen(t, Plan))
           \/ Remember(t, "cascade", Seen(t, OneOpen))
    BY <1>4 DEF get_open, Beginning
  <2>2. QED BY <2>1, EndsStopped, RememberQuiet
<1>5. QED BY <1>1, <1>2, <1>3, <1>4

\* The plan row of a session that has not moved the head is the committed one.
LEMMA SeenHead ==
    ASSUME Inv, LedgerInv, NEW t \in Sessions, tx[t].state = "running",
           "record" \notin Done(tx[t]), "set_head" \notin Done(tx[t])
    PROVE  Seen(t, Plan) = db[Plan]
BY DEF LedgerInv, Entering, Seen, Written

LEMMA WritesQuiet ==
    ASSUME Inv, LedgerInv, NEW t \in Sessions,
           \/ insert_step(t) \/ create_ref(t) \/ insert_cascade(t) \/ set_status(t)
           \/ close(t) \/ delete_ref(t) \/ insert_row(t) \/ merge(t)
    PROVE  Quiet(t) \/ Stopped(t)
<1>1. ASSUME NEW s, At(t, s),
             s \notin {"none", "resolve", "get_ref", "record", "set_head", "commit"},
             NEW new, Write(t, new),
             Plan \in DOMAIN new => s = "set_status" /\ new[Plan] = db[Plan],
             Revision(t) \notin DOMAIN new
      PROVE  Quiet(t)
  <2>1. ShapeOK /\ tx[t].state = "running"
    BY <1>1, AtFact
  <2>2. Wrote(t, new)
    BY <1>1, <2>1, WriteForm
  <2>3. QED BY <1>1, <2>2, WroteQuiet
<1>2. CASE insert_step(t)
  <2> DEFINE new == Put(StepId(tx[t].found), t)
  <2>1. At(t, "insert_step") /\ (StatementFails(t) \/ Write(t, new))
    BY <1>2 DEF insert_step, Insert
  <2>2. Plan \notin DOMAIN new /\ Revision(t) \notin DOMAIN new
    BY RowsDiffer DEF Put
  <2>3. QED BY <1>1, <2>1, <2>2, EndsStopped
<1>3. CASE create_ref(t)
  <2> DEFINE new == Put(Ref(t), tx[t].head)
  <2>1. At(t, "create_ref") /\ Write(t, new)
    BY <1>3 DEF create_ref
  <2>2. Plan \notin DOMAIN new /\ Revision(t) \notin DOMAIN new
    BY RowsDiffer DEF Put
  <2>3. QED BY <1>1, <2>1, <2>2
<1>4. CASE insert_cascade(t)
  <2> DEFINE new == Over(Put(Cascade(t), "open"), Put(OneOpen, t))
  <2>1. At(t, "insert_cascade") /\ (StatementFails(t) \/ Write(t, new))
    BY <1>4 DEF insert_cascade, Insert
  <2>2. Plan \notin DOMAIN new /\ Revision(t) \notin DOMAIN new
    BY RowsDiffer DEF Put, Over
  <2>3. QED BY <1>1, <2>1, <2>2, EndsStopped
<1>5. CASE set_status(t)
  <2> DEFINE new == Put(Plan, Seen(t, Plan))
  <2>1. At(t, "set_status") /\ Write(t, new)
    BY <1>5 DEF set_status
  <2>2. tx[t].state = "running"
    BY <2>1, AtFact
  <2>3. "record" \notin Done(tx[t]) /\ "set_head" \notin Done(tx[t])
    BY <2>1, AtLedger
  <2>4. Seen(t, Plan) = db[Plan]
    BY <2>2, <2>3, SeenHead
  <2>5. new[Plan] = db[Plan] /\ Revision(t) \notin DOMAIN new
    BY <2>4, RowsDiffer DEF Put
  <2>6. QED BY <1>1, <2>1, <2>5
<1>6. CASE close(t)
  <2> DEFINE new == Over(Put(Cascade(tx[t].cascade), Closed(t)), Put(OneOpen, None))
  <2>1. At(t, "close") /\ (Raise(t) \/ Write(t, new))
    BY <1>6 DEF close
  <2>2. Plan \notin DOMAIN new /\ Revision(t) \notin DOMAIN new
    BY RowsDiffer DEF Put, Over
  <2>3. QED BY <1>1, <2>1, <2>2, EndsStopped
<1>7. CASE delete_ref(t)
  <2> DEFINE new == Put(Ref(tx[t].cascade), None)
  <2>1. At(t, "delete_ref") /\ Write(t, new)
    BY <1>7 DEF delete_ref
  <2>2. Plan \notin DOMAIN new /\ Revision(t) \notin DOMAIN new
    BY RowsDiffer DEF Put
  <2>3. QED BY <1>1, <2>1, <2>2
<1>8. CASE insert_row(t)
  <2> DEFINE new == Put(Runtime, NoReport)
  <2>1. At(t, "insert_row") /\ (StatementFails(t) \/ Write(t, new) \/ Skip(t))
    BY <1>8 DEF insert_row, Insert
  <2>2. Plan \notin DOMAIN new /\ Revision(t) \notin DOMAIN new
    BY RowsDiffer DEF Put
  <2>3. CASE Skip(t)
    <3>1. tx[t].state = "running" /\ ShapeOK
      BY <2>1, AtFact
    <3>2. /\ Advanced(t)
          /\ tx'[t].head = tx[t].head /\ tx'[t].cascade = tx[t].cascade
          /\ tx'[t].tip = tx[t].tip /\ tx'[t].writes = tx[t].writes
      BY <2>3, <3>1, RememberForm DEF Skip, Fields
    <3>3. QED BY <2>1, <3>2 DEF Quiet
  <2>4. QED BY <1>1, <2>1, <2>2, <2>3, EndsStopped
<1>9. CASE merge(t)
  <2> DEFINE new == Put(Runtime, Merged(tx[t].found, t))
  <2>1. At(t, "merge") /\ Write(t, new)
    BY <1>9 DEF merge
  <2>2. Plan \notin DOMAIN new /\ Revision(t) \notin DOMAIN new
    BY RowsDiffer DEF Put
  <2>3. QED BY <1>1, <2>1, <2>2
<1>10. QED BY <1>2, <1>3, <1>4, <1>5, <1>6, <1>7, <1>8, <1>9

LEMMA LockRowQuiet == ASSUME Inv, NEW t \in Sessions, lock_row(t) PROVE Quiet(t)
<1> DEFINE new == Put(Runtime, Seen(t, Runtime))
           over == Over(new, tx[t].writes)
<1>1. At(t, "lock_row")
  BY DEF lock_row
<1>2. ShapeOK /\ tx[t].state = "running"
  BY <1>1, AtFact
<1>3. /\ DOMAIN over = {Runtime} \cup DOMAIN tx[t].writes
      /\ \A row \in DOMAIN tx[t].writes \ {Runtime} : over[row] = tx[t].writes[row]
  <2>1. DOMAIN new = {Runtime}
    BY PutFact
  <2>2. /\ DOMAIN over = DOMAIN new \cup DOMAIN tx[t].writes
        /\ \A row \in DOMAIN tx[t].writes \ DOMAIN new : over[row] = tx[t].writes[row]
    BY OverFact
  <2> HIDE DEF new, over
  <2>3. QED BY <2>1, <2>2
<1>4. /\ tx' = [tx EXCEPT ![t].pc = @ + 1, ![t].found = Seen(t, Runtime),
                          ![t].writes = over]
      /\ db' = db
  BY DEF lock_row
<1> HIDE DEF over
<1>5. /\ Advanced(t) /\ tx'[t].writes = over
      /\ tx'[t].head = tx[t].head /\ tx'[t].cascade = tx[t].cascade
      /\ tx'[t].tip = tx[t].tip
  BY <1>2, <1>4 DEF ShapeOK, SessionOK, Fields, Alone, Advanced
<1>6. Plan # Runtime /\ Revision(t) # Runtime
  BY RowsDiffer
<1>7. QED BY <1>1, <1>3, <1>5, <1>6 DEF Quiet

LEMMA ResolveEntering ==
    ASSUME Inv, LedgerInv, NEW t \in Sessions, resolve(t)
    PROVE  Alone(t) /\ Entering(db, tx'[t], t)
<1>1. At(t, "resolve") /\ Remember(t, "head", db[Plan])
  BY DEF resolve
<1>2. ShapeOK /\ tx[t].state = "running" /\ db[Plan] # None
  BY <1>1, AtFact, NamedFact
<1>3. /\ Advanced(t) /\ tx'[t].head = db[Plan]
      /\ tx'[t].cascade = tx[t].cascade /\ tx'[t].tip = tx[t].tip
      /\ tx'[t].writes = tx[t].writes
  BY <1>1, <1>2, RememberForm DEF Fields
<1>4. Done(tx'[t]) = Done(tx[t]) \cup {"resolve"} /\ tx'[t].kind = tx[t].kind
  BY <1>1, <1>2, <1>3, AdvancedFact DEF Advanced
<1>5. Entering(db, tx[t], t)
  BY DEF LedgerInv
<1>6. QED BY <1>2, <1>3, <1>4, <1>5 DEF Entering, Advanced, Beginning

LEMMA GetRefEntering ==
    ASSUME Inv, LedgerInv, NEW t \in Sessions, get_ref(t)
    PROVE  Stopped(t) \/ (Alone(t) /\ Entering(db, tx'[t], t))
<1> DEFINE c == tx[t].cascade
<1>1. At(t, "get_ref")
  BY DEF get_ref
<1>2. /\ ShapeOK /\ tx[t].state = "running" /\ ProgramOK(tx[t].kind, tx[t].pc)
      /\ Statements[tx[t].kind][tx[t].pc] = "get_ref" /\ Remembered(db, tx[t])
      /\ Done(tx[t]) = {Statements[tx[t].kind][i] : i \in 1 .. (tx[t].pc - 1)}
  BY <1>1, AtFact
<1>3. /\ "record" \notin Done(tx[t]) /\ "set_head" \notin Done(tx[t])
      /\ Entering(db, tx[t], t)
  BY <1>1, AtLedger DEF LedgerInv
<1>4. ~Beginning(tx[t]) /\ (tx[t].kind = "cascade_commit" => c # None)
  BY <1>2 DEF ProgramOK, Beginning, Closing, Remembered
<1>5. CASE Raise(t)
  BY <1>5, EndsStopped
<1>6. CASE c = None /\ Skip(t)
  <2>1. /\ Advanced(t)
        /\ tx'[t].head = tx[t].head /\ tx'[t].cascade = c /\ tx'[t].writes = tx[t].writes
    BY <1>2, <1>6, RememberForm DEF Fields, Skip
  <2>2. Done(tx'[t]) = Done(tx[t]) \cup {"get_ref"} /\ tx'[t].kind = tx[t].kind
    BY <1>1, <1>2, <2>1, AdvancedFact DEF Advanced
  <2>3. QED BY <1>2, <1>3, <1>4, <1>6, <2>1, <2>2 DEF Entering, Advanced, Beginning
<1>7. CASE c # None /\ Seen(t, Ref(c)) # None /\ Remember(t, "tip", Seen(t, Ref(c)))
  <2>1. Seen(t, Ref(c)) = db[Ref(c)]
    BY <1>1, <1>3, <1>4, <1>7, SeenRefFact
  <2>2. /\ Advanced(t) /\ tx'[t].tip = db[Ref(c)] /\ tx'[t].tip # None
        /\ tx'[t].head = tx[t].head /\ tx'[t].cascade = c /\ tx'[t].writes = tx[t].writes
    BY <1>2, <1>7, <2>1, RememberForm DEF Fields
  <2>3. Done(tx'[t]) = Done(tx[t]) \cup {"get_ref"} /\ tx'[t].kind = tx[t].kind
    BY <1>1, <1>2, <2>2, AdvancedFact DEF Advanced
  <2>4. QED BY <1>2, <1>3, <1>4, <2>2, <2>3 DEF Entering, Advanced, Beginning
<1>8. QED BY <1>5, <1>6, <1>7 DEF get_ref

LEMMA SetHeadEntering ==
    ASSUME Inv, LedgerInv, NEW t \in Sessions, set_head(t)
    PROVE  Alone(t) /\ Entering(db, tx'[t], t)
<1> DEFINE new == Put(Plan, tx[t].tip)
<1>1. At(t, "set_head") /\ Write(t, new)
  BY DEF set_head
<1>2. ShapeOK /\ tx[t].state = "running" /\ "record" \notin Done(tx[t])
  BY <1>1, AtFact, AtLedger
<1>3. Wrote(t, new)
  BY <1>1, <1>2, WriteForm
<1>4. DOMAIN new = {Plan} /\ new[Plan] = tx[t].tip
  BY PutFact
<1> HIDE DEF new
<1>5. /\ Advanced(t)
      /\ tx'[t].head = tx[t].head /\ tx'[t].cascade = tx[t].cascade
      /\ tx'[t].tip = tx[t].tip
      /\ Plan \in DOMAIN tx'[t].writes /\ tx'[t].writes[Plan] = tx[t].tip
  BY <1>3, <1>4 DEF Wrote
<1>6. Done(tx'[t]) = Done(tx[t]) \cup {"set_head"} /\ tx'[t].kind = tx[t].kind
  BY <1>1, <1>2, <1>5, AdvancedFact DEF Advanced, Inv
<1>7. Entering(db, tx[t], t)
  BY DEF LedgerInv
<1>8. QED BY <1>2, <1>5, <1>6, <1>7 DEF Entering, Advanced, Beginning

\* What a session has written when it has recorded its revision.
LEMMA RecordForm ==
    ASSUME Inv, NEW t \in Sessions, record(t)
    PROVE  LET x == tx[t]
               y == tx'[t]
           IN /\ At(t, "record") /\ Advanced(t)
              /\ y.head = x.head /\ y.cascade = x.cascade /\ y.tip = x.tip
              /\ DOMAIN x.writes \subseteq DOMAIN y.writes
              /\ Revision(t) \in DOMAIN y.writes
              /\ y.writes[Revision(t)].parent = IF x.cascade = None THEN x.head ELSE x.tip
              /\ x.cascade = None => Plan \in DOMAIN y.writes /\ y.writes[Plan] = t
              /\ x.cascade # None =>
                    /\ Plan \in DOMAIN y.writes =>
                        Plan \in DOMAIN x.writes /\ y.writes[Plan] = x.writes[Plan]
                    /\ Ref(x.cascade) \in DOMAIN y.writes \/ db[Ref(x.cascade)] = None
<1> DEFINE c == tx[t].cascade
           Row(parent) == [parent |-> parent, cascade |-> c]
           Made(parent) == Put(Revision(t), Row(parent))
<1>1. At(t, "record")
  BY DEF record
<1>2. ShapeOK /\ tx[t].state = "running"
  BY <1>1, AtFact
<1>3. CASE c = None /\ Write(t, Over(Made(tx[t].head), Put(Plan, t)))
  <2> DEFINE new == Over(Made(tx[t].head), Put(Plan, t))
  <2>1. Wrote(t, new)
    BY <1>2, <1>3, WriteForm
  <2>2. /\ DOMAIN new = {Revision(t), Plan}
        /\ new[Revision(t)] = Row(tx[t].head) /\ new[Plan] = t
    BY RowsDiffer DEF Put, Over
  <2> HIDE DEF new
  <2>3. QED BY <1>1, <1>3, <2>1, <2>2 DEF Wrote
<1>4. CASE c # None /\ Seen(t, Ref(c)) = None /\ Write(t, Made(tx[t].tip))
  <2> DEFINE new == Made(tx[t].tip)
  <2>1. Wrote(t, new)
    BY <1>2, <1>4, WriteForm
  <2>2. DOMAIN new = {Revision(t)} /\ new[Revision(t)] = Row(tx[t].tip)
    BY PutFact
  <2>3. Ref(c) \in DOMAIN tx[t].writes \/ db[Ref(c)] = None
    BY <1>4 DEF Seen, Written
  <2> HIDE DEF new
  <2>4. Plan # Revision(t)
    BY RowsDiffer
  <2>5. QED BY <1>1, <1>4, <2>1, <2>2, <2>3, <2>4 DEF Wrote
<1>5. CASE c # None /\ Write(t, Over(Made(tx[t].tip), Put(Ref(c), t)))
  <2> DEFINE new == Over(Made(tx[t].tip), Put(Ref(c), t))
  <2>1. Wrote(t, new)
    BY <1>2, <1>5, WriteForm
  <2>2. DOMAIN new = {Revision(t), Ref(c)} /\ new[Revision(t)] = Row(tx[t].tip)
    BY RowsDiffer DEF Put, Over
  <2>3. Plan # Revision(t) /\ Plan # Ref(c)
    BY RowsDiffer
  <2> HIDE DEF new
  <2>4. QED BY <1>1, <1>5, <2>1, <2>2, <2>3 DEF Wrote
<1>6. QED BY <1>3, <1>4, <1>5 DEF record

LEMMA RecordEntering ==
    ASSUME Inv, LedgerInv, NEW t \in Sessions, record(t)
    PROVE  Alone(t) /\ Entering(db, tx'[t], t)
<1> DEFINE x == tx[t]
           y == tx'[t]
<1>1. /\ At(t, "record") /\ Advanced(t)
      /\ y.head = x.head /\ y.cascade = x.cascade /\ y.tip = x.tip
      /\ DOMAIN x.writes \subseteq DOMAIN y.writes
      /\ Revision(t) \in DOMAIN y.writes
      /\ y.writes[Revision(t)].parent = IF x.cascade = None THEN x.head ELSE x.tip
      /\ x.cascade = None => Plan \in DOMAIN y.writes /\ y.writes[Plan] = t
      /\ x.cascade # None =>
            /\ Plan \in DOMAIN y.writes =>
                Plan \in DOMAIN x.writes /\ y.writes[Plan] = x.writes[Plan]
            /\ Ref(x.cascade) \in DOMAIN y.writes \/ db[Ref(x.cascade)] = None
  BY RecordForm
<1>2. /\ x.state = "running" /\ y.state = "running" /\ y.kind = x.kind
      /\ Done(y) = Done(x) \cup {"record"} /\ Entering(db, x, t)
      /\ ProgramOK(x.kind, x.pc) /\ Statements[x.kind][x.pc] = "record"
  BY <1>1, AtFact, AdvancedFact DEF Advanced, Inv, LedgerInv
<1>3. /\ {"resolve", "get_ref"} \subseteq Done(x)
      /\ "set_head" \notin Done(x)
  BY <1>1, AtLedger
<1>4. x.kind \in {"create", "edit", "transition"}
  BY <1>2 DEF ProgramOK
<1>5. Alone(t)
  BY <1>1 DEF Advanced
<1> HIDE DEF x, y
<1>6. x.head # None /\ (x.cascade # None => x.tip # None)
  BY <1>2, <1>3, <1>4 DEF Entering, Beginning
<1>7. x.cascade # None /\ Plan \in DOMAIN y.writes => y.writes[Plan] = db[Plan]
  BY <1>1, <1>2, <1>3 DEF Entering
<1>8. Entering(db, y, t)
  BY <1>1, <1>2, <1>3, <1>4, <1>6, <1>7 DEF Entering
<1>9. QED BY <1>5, <1>8 DEF y

\* The tip of a cascade moves by an edit in the cascade, and goes for good.
LEMMA TipMoves ==
    ASSUME Inv, NEW t \in Sessions, commit(t), NEW c \in Named, db[Cascade(c)] # None
    PROVE  \/ db'[Ref(c)] \in {db[Ref(c)], None}
           \/ db[Ref(c)] # None /\ RecordedIn(db', c)
<1>1. /\ \A row \in Rows : db'[row] = IF row \in DOMAIN tx[t].writes
                                      THEN tx[t].writes[row] ELSE db[row]
      /\ tx[t].state = "running"
  BY CommitForm
<1>2. Unborn(db, tx[t], t) /\ Pending(db, tx[t], t)
  BY DEF Inv, Local
<1>3. c # t /\ Ref(c) \in Rows /\ Revision(t) \in Rows /\ t \in Named
  BY <1>1, <1>2, RowsFact, NamedFact DEF Unborn
<1>4. CASE Ref(c) \notin DOMAIN tx[t].writes
  BY <1>1, <1>3, <1>4
<1>5. CASE Ref(c) \in DOMAIN tx[t].writes
  <2>1. RefWrite(db, tx[t], t, Ref(c)) /\ db'[Ref(c)] = tx[t].writes[Ref(c)]
    BY <1>1, <1>2, <1>3, <1>5, RowsDiffer
       DEF Pending, RowWrite, StepWrite, CascadeWrite, RevisionWrite
  <2>2. CASE tx[t].writes[Ref(c)] = None
    BY <2>1, <2>2
  <2>3. CASE /\ "record" \in Done(tx[t]) /\ tx[t].cascade # None /\ Ref(c) = Ref(tx[t].cascade)
             /\ db[Ref(c)] # None /\ Revision(t) \in DOMAIN tx[t].writes
    <3>1. c = tx[t].cascade
      BY <2>3, RowsDiffer
    <3>2. RevisionWrite(db, tx[t], t, Revision(t))
      BY <1>2, <2>3, RowsDiffer DEF Pending, RowWrite, StepWrite, CascadeWrite, RefWrite
    <3>3. db'[Revision(t)] # None /\ db'[Revision(t)].cascade = c
      BY <1>1, <1>3, <2>3, <3>1, <3>2, NamedFact DEF RevisionWrite
    <3>4. QED BY <1>3, <2>3, <3>3 DEF RecordedIn
  <2>4. QED BY <1>3, <2>1, <2>2, <2>3, RowsDiffer DEF RefWrite
<1>6. QED BY <1>4, <1>5

LEMMA OthersEntering ==
    ASSUME Inv, LedgerInv, NEW t \in Sessions, commit(t), NEW u \in Sessions, u # t
    PROVE  Entering(db', tx[u], u)
<1> DEFINE x == tx[u]
           c == x.cascade
<1>1. \A row \in Rows : db'[row] = IF row \in DOMAIN tx[t].writes
                                   THEN tx[t].writes[row] ELSE db[row]
  BY CommitForm
<1>2. /\ Entering(db, x, u) /\ Remembered(db, x) /\ Performed(x, u)
      /\ Exclusive(tx[t].writes, x.writes)
  BY DEF LedgerInv, Inv, Local
<1>3. SUFFICES ASSUME x.state = "running" PROVE Entering(db', x, u)
  BY DEF Entering
<1>4. Plan \in DOMAIN x.writes => db'[Plan] = db[Plan]
  BY <1>1, <1>2, RowsFact DEF Exclusive
<1>5. c # None => /\ c \in Named
                  /\ \/ db'[Ref(c)] \in {db[Ref(c)], None}
                     \/ db[Ref(c)] # None /\ RecordedIn(db', c)
  BY <1>2, <1>3, TipMoves DEF Remembered
<1>6. x.kind = "cascade_commit" /\ "get_ref" \in Done(x) => c # None
  BY <1>2, <1>3, NamedFact DEF Remembered
<1>7. RecordedIn(db, c) => RecordedIn(db', c)
  BY FinalFact DEF RecordedIn
<1> HIDE DEF x, c
<1>8. QED
  BY <1>2, <1>3, <1>4, <1>5, <1>6, <1>7 DEF Entering, c

LEMMA LedgerNext == Inv /\ LedgerInv /\ [Next]_vars => LedgerInv'
<1> SUFFICES ASSUME Inv, LedgerInv, [Next]_vars PROVE LedgerInv'
  OBVIOUS
<1>1. CASE UNCHANGED vars
  BY <1>1 DEF vars, LedgerInv
<1>2. ASSUME NEW t \in Sessions, Alone(t), Entering(db, tx'[t], t)
      PROVE  LedgerInv'
  BY <1>2 DEF Alone, LedgerInv
<1>3. ASSUME NEW t \in Sessions, Quiet(t) \/ Stopped(t)
      PROVE  LedgerInv'
  <2>1. Alone(t)
    BY <1>3 DEF Quiet, Stopped, Advanced
  <2>2. Entering(db, tx'[t], t)
    BY <1>3, QuietEntering DEF Stopped, Entering
  <2>3. QED BY <1>2, <2>1, <2>2
<1>4. ASSUME NEW t \in Sessions, commit(t) PROVE LedgerInv'
  <2>1. tx'[t].state = "done" /\ \A u \in Sessions : u # t => tx'[u] = tx[u]
    BY <1>4, CommitForm
  <2>2. \A u \in Sessions : Entering(db', tx'[u], u)
    BY <1>4, <2>1, OthersEntering DEF Entering
  <2>3. QED BY <2>2 DEF LedgerInv
<1>5. ASSUME NEW t \in Sessions, Proceed(t) PROVE LedgerInv'
  <2>1. CASE Disconnect(t)
    BY <1>3, <2>1, EndsStopped DEF Disconnect
  <2>2. CASE \/ admit(t) \/ acquire(t) \/ release(t) \/ list_ids(t) \/ get_open(t)
             \/ find_row(t)
    BY <1>3, <2>2, ReadsQuiet
  <2>3. CASE \/ insert_step(t) \/ create_ref(t) \/ insert_cascade(t) \/ set_status(t)
             \/ close(t) \/ delete_ref(t) \/ insert_row(t) \/ merge(t)
    BY <1>3, <2>3, WritesQuiet
  <2>4. CASE lock_row(t)
    BY <1>3, <2>4, LockRowQuiet
  <2>5. CASE resolve(t) \/ set_head(t) \/ record(t)
    BY <1>2, <2>5, ResolveEntering, SetHeadEntering, RecordEntering
  <2>6. CASE get_ref(t)
    BY <1>2, <1>3, <2>6, GetRefEntering
  <2>7. CASE commit(t)
    BY <1>4, <2>7
  <2>8. QED BY <1>5, <2>1, <2>2, <2>3, <2>4, <2>5, <2>6, <2>7 DEF Proceed
<1>6. ASSUME NEW t \in Sessions, DeadlockVictim(t) \/ Abandon(t) PROVE LedgerInv'
  BY <1>3, <1>6, EndsStopped DEF DeadlockVictim, Abandon
<1>7. ASSUME NEW t \in Sessions, NEW kind \in Kinds, Start(t, kind) PROVE LedgerInv'
  <2>1. /\ Alone(t) /\ tx'[t].state = "running" /\ tx'[t].pc = 1
        /\ tx'[t].writes = tx[t].writes
    BY <1>7 DEF Start, Alone, Inv, ShapeOK, SessionOK, Fields
  <2>2. tx[t] = Idle
    BY <1>7 DEF Start, Inv, ShapeOK, SessionOK
  <2>3. Done(tx'[t]) = {} /\ DOMAIN tx'[t].writes = {}
    BY <2>1, <2>2, IdleFact DEF Done
  <2>4. Entering(db, tx'[t], t)
    BY <2>3 DEF Entering
  <2>5. QED BY <1>2, <2>1, <2>4
<1>8. QED BY <1>1, <1>5, <1>6, <1>7 DEF Next

LEMMA LedgerInit == Init => LedgerInv
BY IdleFact DEF Init, LedgerInv, Entering

LEMMA Excepted ==
    ASSUME NEW S, NEW f, NEW g, f = [e \in S |-> f[e]], g = [e \in S |-> g[e]],
           NEW k \in S, \A e \in S \ {k} : f[e] = g[e]
    PROVE  f = [g EXCEPT ![k] = f[k]]
OBVIOUS

LEMMA ReadableFact ==
    ASSUME Inv, NEW r, NEW c \in Named \cup {None}, Belongs(db, r, c)
    PROVE  /\ r \in Named
           /\ c = None => Ledger!Published(r)
           /\ Ledger!Readable(r, c)
<1>1. /\ r \in Named /\ db[Revision(r)] # None
      /\ \/ db[Revision(r)].cascade \in {None, c}
         \/ db[Cascade(db[Revision(r)].cascade)] = "committed"
  BY DEF Belongs
<1>2. db[Revision(r)] \in RevisionRows
  BY <1>1 DEF Inv, Committed, HistoryAgrees
<1>3. db[Revision(r)].cascade \in Named \cup {None}
  BY <1>2 DEF RevisionRows
<1>4. CASE db[Revision(r)].cascade = None
  BY <1>1, <1>4 DEF Ledger!Readable, Ledger!Published
<1>5. CASE /\ db[Revision(r)].cascade \in Named
           /\ db[Cascade(db[Revision(r)].cascade)] = "committed"
  BY <1>1, <1>5 DEF Ledger!Readable, Ledger!Published
<1>6. CASE db[Revision(r)].cascade \in Named /\ db[Revision(r)].cascade = c
  BY <1>1, <1>6, NamedFact DEF Ledger!Readable
<1>7. QED BY <1>1, <1>3, <1>4, <1>5, <1>6

\* The rows of revisions, cascades and refs that the commit of t leaves alone.
LEMMA CommitKeeps ==
    ASSUME Inv, NEW t \in Sessions, commit(t)
    PROVE  LET x == tx[t] IN
           /\ \A r \in Named : r # t \/ "record" \notin Done(x) =>
                db'[Revision(r)] = db[Revision(r)]
           /\ \A c \in Named : \/ Beginning(x) /\ c = t
                               \/ Closing(x) /\ c = x.cascade
                               \/ db'[Cascade(c)] = db[Cascade(c)]
           /\ \A c \in Named : \/ Beginning(x) /\ c = t
                               \/ Closing(x) /\ c = x.cascade
                               \/ "record" \in Done(x) /\ c = x.cascade
                               \/ db'[Ref(c)] = db[Ref(c)]
<1>1. /\ \A row \in Rows : db'[row] = IF row \in DOMAIN tx[t].writes
                                      THEN tx[t].writes[row] ELSE db[row]
      /\ tx[t].state = "running"
  BY CommitForm
<1>2. Pending(db, tx[t], t)
  BY DEF Inv, Local
<1>3. ASSUME NEW r \in Named, r # t \/ "record" \notin Done(tx[t])
      PROVE  db'[Revision(r)] = db[Revision(r)]
  <2>1. Revision(r) \notin DOMAIN tx[t].writes
    BY <1>2, <1>3, RowsDiffer
       DEF Pending, RowWrite, StepWrite, CascadeWrite, RefWrite, RevisionWrite
  <2>2. QED BY <1>1, <2>1, RowsFact
<1>4. ASSUME NEW c \in Named, db'[Cascade(c)] # db[Cascade(c)]
      PROVE  \/ Beginning(tx[t]) /\ c = t
             \/ Closing(tx[t]) /\ c = tx[t].cascade
  <2>1. Cascade(c) \in DOMAIN tx[t].writes
    BY <1>1, <1>4, RowsFact
  <2>2. CascadeWrite(db, tx[t], t, Cascade(c))
    BY <1>2, <2>1, RowsDiffer DEF Pending, RowWrite, StepWrite, RefWrite, RevisionWrite
  <2>3. QED BY <2>2, RowsDiffer DEF CascadeWrite
<1>5. ASSUME NEW c \in Named, db'[Ref(c)] # db[Ref(c)]
      PROVE  \/ Beginning(tx[t]) /\ c = t
             \/ Closing(tx[t]) /\ c = tx[t].cascade
             \/ "record" \in Done(tx[t]) /\ c = tx[t].cascade
  <2>1. Ref(c) \in DOMAIN tx[t].writes
    BY <1>1, <1>5, RowsFact
  <2>2. RefWrite(db, tx[t], t, Ref(c))
    BY <1>2, <2>1, RowsDiffer DEF Pending, RowWrite, StepWrite, CascadeWrite, RevisionWrite
  <2>3. QED BY <2>2, RowsDiffer DEF RefWrite
<1>6. QED BY <1>3, <1>4, <1>5

\* The head is what the command makes of it.
LEMMA CommitHead ==
    ASSUME Inv, LedgerInv, NEW t \in Sessions, commit(t)
    PROVE  LET x == tx[t] IN
           /\ "record" \in Done(x) /\ x.cascade = None => db'[Plan] = t
           /\ "set_head" \in Done(x) => db'[Plan] = x.tip
           /\ ("record" \notin Done(x) \/ x.cascade # None) /\ "set_head" \notin Done(x) =>
                db'[Plan] = db[Plan]
<1>1. /\ \A row \in Rows : db'[row] = IF row \in DOMAIN tx[t].writes
                                      THEN tx[t].writes[row] ELSE db[row]
      /\ tx[t].state = "running"
  BY CommitForm
<1>2. Entering(db, tx[t], t)
  BY DEF LedgerInv
<1>3. QED BY <1>1, <1>2, RowsFact DEF Entering

\* An edit is one entry.
LEMMA RecordEntry ==
    ASSUME Inv, LedgerInv, NEW t \in Sessions, commit(t),
           tx[t].kind \in {"create", "edit", "transition"}
    PROVE  Ledger!Next
<1> DEFINE x == tx[t]
           c == x.cascade
           row == x.writes[Revision(t)]
           p == row.parent
           old == [r \in Named |-> db[Revision(r)]]
           new == [r \in Named |-> db'[Revision(r)]]
           tipOld == [e \in Named |-> db[Ref(e)]]
           tipNew == [e \in Named |-> db'[Ref(e)]]
<1>1. /\ \A r \in Rows : db'[r] = IF r \in DOMAIN x.writes THEN x.writes[r] ELSE db[r]
      /\ x.state = "running" /\ At(t, "commit")
  BY CommitForm
<1>2. /\ "record" \in Done(x) /\ "set_head" \notin Done(x)
      /\ ~Beginning(x) /\ ~Closing(x) /\ t \in Named
  BY <1>1, AtLedger, NamedFact DEF Beginning, Closing
<1>3. /\ Entering(db, x, t) /\ Remembered(db, x) /\ Pending(db, x, t) /\ Unborn(db, x, t)
      /\ OpenAgrees(db)
  BY DEF LedgerInv, Inv, Local, Committed
<1>4. /\ Revision(t) \in DOMAIN x.writes /\ p # None
      /\ c # None => Ref(c) \in DOMAIN x.writes \/ db[Ref(c)] = None
  BY <1>1, <1>2, <1>3 DEF Entering
<1>5. /\ row \in RevisionRows /\ row.cascade = c /\ Belongs(db, p, c)
  <2>1. RevisionWrite(db, x, t, Revision(t))
    BY <1>3, <1>4, RowsDiffer DEF Pending, RowWrite, StepWrite, CascadeWrite, RefWrite
  <2>2. QED BY <1>4, <2>1 DEF RevisionWrite
<1>6. row = [parent |-> p, cascade |-> c]
  BY <1>5 DEF RevisionRows
<1>7. c \in Named \cup {None} /\ (c # None => db[Cascade(c)] # None)
  BY <1>1, <1>3 DEF Remembered
<1>8. p \in Named /\ (c = None => Ledger!Published(p)) /\ Ledger!Readable(p, c)
  BY <1>5, <1>7, ReadableFact
<1>9. new = [old EXCEPT ![t] = [parent |-> p, cascade |-> c]] /\ old[t] = None
  <2>1. db'[Revision(t)] = row /\ db[Revision(t)] = None
    BY <1>1, <1>2, <1>3, <1>4, RowsFact DEF Unborn
  <2>2. \A r \in Named \ {t} : db'[Revision(r)] = db[Revision(r)]
    BY CommitKeeps
  <2>3. new = [old EXCEPT ![t] = new[t]]
    BY <1>2, <2>2, Excepted
  <2>4. QED BY <1>2, <1>6, <2>1, <2>3
<1>10. \A e \in Named : db'[Cascade(e)] = db[Cascade(e)]
  BY <1>2, CommitKeeps
<1>11. CASE c = None
  <2>1. db'[Plan] = t
    BY <1>2, <1>11, CommitHead
  <2>2. \A e \in Named : db'[Ref(e)] = db[Ref(e)]
    BY <1>2, <1>11, CommitKeeps, NamedFact
  <2>3. Ledger!RecordPublished(t, p)
    BY <1>8, <1>9, <1>10, <1>11, <2>1, <2>2 DEF Ledger!RecordPublished
  <2>4. QED BY <1>2, <1>8, <2>3 DEF Ledger!Next
<1>12. CASE c # None
  <2>1. db'[Plan] = db[Plan]
    BY <1>2, <1>12, CommitHead
  <2>2. \A e \in Named \ {c} : db'[Ref(e)] = db[Ref(e)]
    BY <1>2, CommitKeeps
  <2>3. db'[Ref(c)] = IF db[Cascade(c)] = "open" THEN t ELSE db[Ref(c)]
    <3>1. Ref(c) \in DOMAIN x.writes =>
             db[Ref(c)] # None /\ x.writes[Ref(c)] = t
      BY <1>2, <1>3, RowsDiffer
         DEF Pending, RowWrite, StepWrite, CascadeWrite, RefWrite, RevisionWrite
    <3>2. db[Ref(c)] # None <=> db[Cascade(c)] = "open"
      BY <1>3, <1>7, <1>12 DEF OpenAgrees
    <3>3. QED BY <1>1, <1>4, <1>7, <1>12, <3>1, <3>2, RowsFact
  <2>4. tipNew = IF db[Cascade(c)] = "open" THEN [tipOld EXCEPT ![c] = t] ELSE tipOld
    <3>1. tipNew = [tipOld EXCEPT ![c] = tipNew[c]]
      BY <1>7, <1>12, <2>2, Excepted
    <3>2. QED BY <1>7, <1>12, <2>2, <2>3, <3>1
  <2>5. Ledger!RecordInCascade(t, p, c)
    BY <1>7, <1>8, <1>9, <1>10, <1>12, <2>1, <2>4 DEF Ledger!RecordInCascade
  <2>6. QED BY <1>2, <1>7, <1>8, <1>12, <2>5 DEF Ledger!Next
<1>13. QED BY <1>11, <1>12

\* A cascade that begins is one entry.
LEMMA BeginEntry ==
    ASSUME Inv, LedgerInv, NEW t \in Sessions, commit(t), Beginning(tx[t])
    PROVE  Ledger!Next
<1> DEFINE x == tx[t]
           base == x.writes[Ref(t)]
           old == [e \in Named |-> db[Cascade(e)]]
           new == [e \in Named |-> db'[Cascade(e)]]
           tipOld == [e \in Named |-> db[Ref(e)]]
           tipNew == [e \in Named |-> db'[Ref(e)]]
<1>1. /\ \A r \in Rows : db'[r] = IF r \in DOMAIN x.writes THEN x.writes[r] ELSE db[r]
      /\ x.state = "running" /\ At(t, "commit")
  BY CommitForm
<1>2. /\ "record" \notin Done(x) /\ "set_head" \notin Done(x) /\ ~Closing(x) /\ t \in Named
  BY <1>1, AtLedger, NamedFact DEF Beginning, Closing
<1>3. /\ Performed(x, t) /\ Pending(db, x, t) /\ Unborn(db, x, t) /\ OpenAgrees(db)
      /\ ProgramOK(x.kind, x.pc) /\ Statements[x.kind][x.pc] = "commit"
      /\ Done(x) = {Statements[x.kind][i] : i \in 1 .. (x.pc - 1)}
  BY <1>1, AtFact DEF Inv, Local, Committed
<1>4. {"create_ref", "insert_cascade"} \subseteq Done(x)
  BY <1>3 DEF ProgramOK, Beginning
<1>5. Ref(t) \in DOMAIN x.writes /\ Cascade(t) \in DOMAIN x.writes
  BY <1>1, <1>3, <1>4 DEF Performed
<1>6. Belongs(db, base, None)
  <2>1. RefWrite(db, x, t, Ref(t))
    BY <1>3, <1>5, RowsDiffer DEF Pending, RowWrite, StepWrite, CascadeWrite, RevisionWrite
  <2>2. QED BY <1>2, <2>1 DEF RefWrite
<1>7. x.writes[Cascade(t)] = "open" /\ db[OneOpen] = None
  <2>1. CascadeWrite(db, x, t, Cascade(t))
    BY <1>3, <1>5, RowsDiffer DEF Pending, RowWrite, StepWrite, RefWrite, RevisionWrite
  <2>2. QED BY <1>2, <2>1 DEF CascadeWrite
<1>8. base \in Named /\ Ledger!Published(base)
  BY <1>6, ReadableFact
<1>9. new = [old EXCEPT ![t] = "open"] /\ old[t] = None
  <2>1. db'[Cascade(t)] = "open" /\ db[Cascade(t)] = None
    BY <1>1, <1>2, <1>3, <1>5, <1>7, RowsFact DEF Unborn
  <2>2. \A e \in Named \ {t} : db'[Cascade(e)] = db[Cascade(e)]
    BY <1>2, CommitKeeps
  <2>3. new = [old EXCEPT ![t] = new[t]]
    BY <1>2, <2>2, Excepted
  <2>4. QED BY <1>2, <2>1, <2>3
<1>10. tipNew = [tipOld EXCEPT ![t] = base]
  <2>1. db'[Ref(t)] = base
    BY <1>1, <1>2, <1>5, RowsFact
  <2>2. \A e \in Named \ {t} : db'[Ref(e)] = db[Ref(e)]
    BY <1>2, CommitKeeps
  <2>3. tipNew = [tipOld EXCEPT ![t] = tipNew[t]]
    BY <1>2, <2>2, Excepted
  <2>4. QED BY <1>2, <2>1, <2>3
<1>11. \A d \in Named : old[d] # "open"
  BY <1>3, <1>7 DEF OpenAgrees
<1>12. db'[Plan] = db[Plan] /\ \A r \in Named : db'[Revision(r)] = db[Revision(r)]
  BY <1>2, CommitHead, CommitKeeps
<1>13. Ledger!Begin(t, base)
  BY <1>8, <1>9, <1>10, <1>11, <1>12 DEF Ledger!Begin
<1>14. QED BY <1>2, <1>8, <1>13 DEF Ledger!Next

\* A cascade that is committed, or aborted, is one entry.
LEMMA CloseEntry ==
    ASSUME Inv, LedgerInv, NEW t \in Sessions, commit(t), Closing(tx[t])
    PROVE  Ledger!Next
<1> DEFINE x == tx[t]
           c == x.cascade
           closed == IF x.kind = "cascade_commit" THEN "committed" ELSE "aborted"
           old == [e \in Named |-> db[Cascade(e)]]
           new == [e \in Named |-> db'[Cascade(e)]]
           tipOld == [e \in Named |-> db[Ref(e)]]
           tipNew == [e \in Named |-> db'[Ref(e)]]
<1>1. /\ \A r \in Rows : db'[r] = IF r \in DOMAIN x.writes THEN x.writes[r] ELSE db[r]
      /\ x.state = "running" /\ At(t, "commit")
  BY CommitForm
<1>2. /\ "record" \notin Done(x) /\ ~Beginning(x) /\ t \in Named
      /\ "set_head" \in Done(x) => x.kind = "cascade_commit"
      /\ x.kind = "cascade_commit" => {"set_head", "get_ref"} \subseteq Done(x)
  BY <1>1, AtLedger, NamedFact DEF Beginning, Closing
<1>3. /\ Performed(x, t) /\ Pending(db, x, t) /\ Remembered(db, x) /\ OpenAgrees(db)
      /\ ProgramOK(x.kind, x.pc) /\ Statements[x.kind][x.pc] = "commit"
      /\ Done(x) = {Statements[x.kind][i] : i \in 1 .. (x.pc - 1)}
      /\ Entering(db, x, t)
  BY <1>1, AtFact DEF Inv, Local, Committed, LedgerInv
<1>4. {"get_open", "close", "delete_ref"} \subseteq Done(x)
  BY <1>3 DEF ProgramOK, Closing
<1>5. /\ Ref(c) \in DOMAIN x.writes /\ Cascade(c) \in DOMAIN x.writes
      /\ c \in Named
  BY <1>1, <1>3, <1>4 DEF Performed, Remembered
<1>6. x.writes[Cascade(c)] = closed /\ db[Cascade(c)] = "open"
  <2>1. CascadeWrite(db, x, t, Cascade(c))
    BY <1>3, <1>5, RowsDiffer DEF Pending, RowWrite, StepWrite, RefWrite, RevisionWrite
  <2>2. QED BY <1>2, <2>1 DEF CascadeWrite
<1>7. x.writes[Ref(c)] = None
  <2>1. RefWrite(db, x, t, Ref(c))
    BY <1>3, <1>5, RowsDiffer DEF Pending, RowWrite, StepWrite, CascadeWrite, RevisionWrite
  <2>2. QED BY <1>2, <2>1 DEF RefWrite
<1>8. new = [old EXCEPT ![c] = closed] /\ old[c] = "open"
  <2>1. db'[Cascade(c)] = closed
    BY <1>1, <1>5, <1>6, RowsFact
  <2>2. \A e \in Named \ {c} : db'[Cascade(e)] = db[Cascade(e)]
    BY <1>2, CommitKeeps
  <2>3. new = [old EXCEPT ![c] = new[c]]
    BY <1>5, <2>2, Excepted
  <2>4. QED BY <1>5, <1>6, <2>1, <2>3
<1>9. tipNew = [tipOld EXCEPT ![c] = None]
  <2>1. db'[Ref(c)] = None
    BY <1>1, <1>5, <1>7, RowsFact
  <2>2. \A e \in Named \ {c} : db'[Ref(e)] = db[Ref(e)]
    BY <1>2, CommitKeeps
  <2>3. tipNew = [tipOld EXCEPT ![c] = tipNew[c]]
    BY <1>5, <2>2, Excepted
  <2>4. QED BY <1>5, <2>1, <2>3
<1>10. \A r \in Named : db'[Revision(r)] = db[Revision(r)]
  BY <1>2, CommitKeeps
<1>11. CASE x.kind = "cascade_commit"
  <2>1. db'[Plan] = x.tip
    BY <1>2, <1>11, CommitHead
  <2>2. Belongs(db, x.tip, c)
    BY <1>1, <1>2, <1>3, <1>11 DEF Remembered
  <2>3. x.tip \in Named /\ Ledger!Readable(x.tip, c)
    BY <1>5, <2>2, ReadableFact
  <2>4. db[Ref(c)] # None
    BY <1>3, <1>5, <1>6 DEF OpenAgrees
  <2>5. x.tip = tipOld[c] \/ Ledger!Edited(c)
    <3>1. db[Ref(c)] = x.tip \/ RecordedIn(db, c)
      BY <1>1, <1>2, <1>3, <1>11, <2>4 DEF Entering
    <3>2. QED BY <1>5, <3>1 DEF RecordedIn, Ledger!Edited
  <2>6. Ledger!Commit(c, x.tip)
    BY <1>8, <1>9, <1>10, <1>11, <2>1, <2>3, <2>5 DEF Ledger!Commit
  <2>7. QED BY <1>5, <2>3, <2>6 DEF Ledger!Next
<1>12. CASE x.kind = "cascade_abort"
  <2>1. db'[Plan] = db[Plan]
    BY <1>2, <1>12, CommitHead
  <2>2. Ledger!Abort(c)
    BY <1>8, <1>9, <1>10, <1>12, <2>1 DEF Ledger!Abort
  <2>3. QED BY <1>5, <2>2 DEF Ledger!Next
<1>13. QED BY <1>11, <1>12 DEF Closing

\* A report is no entry.
LEMMA ReportNoEntry ==
    ASSUME Inv, LedgerInv, NEW t \in Sessions, commit(t), tx[t].kind = "report"
    PROVE  UNCHANGED Ledger!vars
<1>1. At(t, "commit")
  BY CommitForm
<1>2. /\ "record" \notin Done(tx[t]) /\ "set_head" \notin Done(tx[t])
      /\ ~Beginning(tx[t]) /\ ~Closing(tx[t])
  BY <1>1, AtLedger DEF Beginning, Closing
<1>3. db'[Plan] = db[Plan]
  BY <1>2, CommitHead
<1>4. \A e \in Named : /\ db'[Revision(e)] = db[Revision(e)]
                       /\ db'[Cascade(e)] = db[Cascade(e)]
                       /\ db'[Ref(e)] = db[Ref(e)]
  BY <1>2, CommitKeeps
<1>5. QED BY <1>3, <1>4 DEF Ledger!vars

\* What is committed changes with a commit only.
LEMMA OnlyCommits ==
    ASSUME NEW t \in Sessions, Proceed(t), ~commit(t)
    PROVE  db' = db
<1>1. CASE Disconnect(t)
  BY <1>1 DEF Disconnect, Raise
<1>2. CASE resolve(t) \/ admit(t) \/ acquire(t) \/ release(t) \/ list_ids(t)
  BY <1>2 DEF resolve, admit, acquire, release, list_ids, Remember, Raise
<1>3. CASE insert_step(t) \/ insert_cascade(t) \/ insert_row(t)
  BY <1>3 DEF insert_step, insert_cascade, insert_row, Insert, StatementFails, Write, Skip,
              Remember
<1>4. CASE get_open(t) \/ get_ref(t)
  BY <1>4 DEF get_open, get_ref, Remember, Raise, Skip
<1>5. CASE create_ref(t) \/ set_status(t) \/ set_head(t) \/ delete_ref(t) \/ merge(t)
  BY <1>5 DEF create_ref, set_status, set_head, delete_ref, merge, Write, Remember
<1>6. CASE record(t) \/ close(t)
  BY <1>6 DEF record, close, Write, Remember, Raise
<1>7. CASE find_row(t) \/ lock_row(t)
  BY <1>7 DEF find_row, lock_row, Remember
<1>8. QED BY <1>1, <1>2, <1>3, <1>4, <1>5, <1>6, <1>7 DEF Proceed

LEMMA LedgerStep == Inv /\ LedgerInv /\ [Next]_vars => [Ledger!Next]_(Ledger!vars)
<1> SUFFICES ASSUME Inv, LedgerInv, [Next]_vars
             PROVE  Ledger!Next \/ UNCHANGED Ledger!vars
  OBVIOUS
<1>1. ASSUME db' = db PROVE UNCHANGED Ledger!vars
  BY <1>1 DEF Ledger!vars
<1>2. CASE UNCHANGED vars
  BY <1>1, <1>2 DEF vars
<1>3. ASSUME NEW t \in Sessions, commit(t)
      PROVE  Ledger!Next \/ UNCHANGED Ledger!vars
  <2>1. tx[t].kind \in DOMAIN Statements
    BY <1>3, CommitForm, RunningFact DEF Inv
  <2>2. \/ tx[t].kind \in {"create", "edit", "transition"} \/ Beginning(tx[t])
        \/ Closing(tx[t]) \/ tx[t].kind = "report"
    BY <2>1 DEF Statements, Beginning, Closing
  <2>3. QED BY <1>3, <2>2, RecordEntry, BeginEntry, CloseEntry, ReportNoEntry
<1>4. ASSUME NEW t \in Sessions, Proceed(t)
      PROVE  Ledger!Next \/ UNCHANGED Ledger!vars
  BY <1>1, <1>3, <1>4, OnlyCommits
<1>5. ASSUME NEW t \in Sessions, DeadlockVictim(t) \/ Abandon(t)
      PROVE  UNCHANGED Ledger!vars
  BY <1>1, <1>5 DEF DeadlockVictim, Abandon, StatementFails, Raise
<1>6. ASSUME NEW t \in Sessions, NEW kind \in Kinds, Start(t, kind)
      PROVE  UNCHANGED Ledger!vars
  BY <1>1, <1>6 DEF Start
<1>7. QED BY <1>2, <1>4, <1>5, <1>6 DEF Next

LEMMA LedgerBegins == Init => Ledger!Init
<1> SUFFICES ASSUME Init PROVE Ledger!Init
  OBVIOUS
<1>1. PICK open \in {None, 0} :
         db = [row \in Rows |->
                CASE row \in {Plan, StepId(1)} -> 0
                  [] row = Revision(0) -> [parent |-> None, cascade |-> None]
                  [] row = OneOpen -> open
                  [] row = Cascade(0) /\ open = 0 -> "open"
                  [] row = Ref(0) /\ open = 0 -> 0
                  [] OTHER -> None]
  BY DEF Init
<1> DEFINE opened == IF open = 0 THEN {0} ELSE {}
<1>2. db[Plan] = 0
  BY <1>1, RowsDiffer, RowsFact
<1>3. \A r \in Named : db[Revision(r)] = IF r = 0 THEN [parent |-> None, cascade |-> None]
                                                  ELSE None
  BY <1>1, RowsDiffer, RowsFact
<1>4. \A c \in Named : db[Cascade(c)] = IF c \in opened THEN "open" ELSE None
  BY <1>1, RowsDiffer, RowsFact
<1>5. \A c \in Named : db[Ref(c)] = IF c \in opened THEN 0 ELSE None
  BY <1>1, RowsDiffer, RowsFact
<1>6. opened \in SUBSET {0}
  OBVIOUS
<1> HIDE DEF opened
<1>7. QED BY <1>2, <1>3, <1>4, <1>5, <1>6 DEF Ledger!Init

\* However the statements of the commands interleave, fail and deadlock, every
\* transaction is one entry of the ledger or none: a revision on a published
\* one or in its cascade, a cascade opened where none is open, a cascade closed
\* once, with the head at its tip or at a revision of it.
THEOREM LedgerImplemented == Spec => ImplementsPlanLedger
<1>1. Spec => Ledger!Init
  BY LedgerBegins, PTL DEF Spec
<1>2. Spec => [][Ledger!Next]_(Ledger!vars)
  BY InitInv, NextInv, LedgerInit, LedgerNext, LedgerStep, PTL DEF Spec
<1>3. QED BY <1>1, <1>2, PTL DEF ImplementsPlanLedger, Ledger!Spec

\* What is recorded is final: a revision, the outcome of a closed cascade, and
\* so what was published once.
EntriesKept ==
    /\ \A r \in Named : db[Revision(r)] # None =>
        /\ db'[Revision(r)] = db[Revision(r)]
        /\ Published(r) => Published(r)'
    /\ \A c \in Named : db[Cascade(c)] \in {"committed", "aborted"} =>
        db'[Cascade(c)] = db[Cascade(c)]

EntriesFinal == [][EntriesKept]_vars

LEMMA CommitKeepsEntries == ASSUME Inv, NEW t \in Sessions, commit(t) PROVE EntriesKept
<1>1. /\ \A r \in Named : db[Revision(r)] # None => db'[Revision(r)] = db[Revision(r)]
      /\ \A c \in Named : db[Cascade(c)] \notin {None, "open"} =>
           db'[Cascade(c)] = db[Cascade(c)]
  BY FinalFact
<1>2. \A c \in Named : db[Cascade(c)] \in {"committed", "aborted"} =>
         db'[Cascade(c)] = db[Cascade(c)]
  BY <1>1, NamedFact
<1>3. ASSUME NEW r \in Named, db[Revision(r)] # None, Published(r) PROVE Published(r)'
  <2>1. db'[Revision(r)] = db[Revision(r)]
    BY <1>1, <1>3
  <2>2. db[Revision(r)] \in RevisionRows
    BY <1>3 DEF Inv, Committed, HistoryAgrees
  <2>3. db[Revision(r)].cascade \in Named \cup {None}
    BY <2>2 DEF RevisionRows
  <2>4. QED BY <1>2, <1>3, <2>1, <2>3 DEF Published
<1>4. QED BY <1>1, <1>2, <1>3 DEF EntriesKept

LEMMA StepKeepsEntries == Inv /\ [Next]_vars => [EntriesKept]_vars
<1> SUFFICES ASSUME Inv, Next PROVE EntriesKept
  OBVIOUS
<1>1. ASSUME db' = db PROVE EntriesKept
  BY <1>1 DEF EntriesKept, Published
<1>2. ASSUME NEW t \in Sessions, Proceed(t) PROVE EntriesKept
  BY <1>1, <1>2, CommitKeepsEntries, OnlyCommits
<1>3. ASSUME NEW t \in Sessions,
             DeadlockVictim(t) \/ Abandon(t) \/ \E kind \in Kinds : Start(t, kind)
      PROVE  EntriesKept
  <2>1. db' = db
    BY <1>3, ZenonT(30) DEF DeadlockVictim, Abandon, StatementFails, Raise, Start
  <2>2. QED BY <1>1, <2>1
<1>4. QED BY <1>2, <1>3 DEF Next

\* No command, however late it acts on what it read, rewrites a revision, takes
\* a published one back or reopens a cascade.
THEOREM EntriesStay == Spec => EntriesFinal
BY StepKeepsEntries, InvHolds, PTL DEF Spec, EntriesFinal

----------------------------------------------------------------------------
(* Work comes to an end                                                    *)

\* Sessions that wait for each other in circles: the guard of DeadlockVictim.
Deadlocked(S) ==
    /\ S # {}
    /\ \A u \in S : /\ \E v \in S : WaitsFor(u, v)
                    /\ \E v \in S : WaitsFor(v, u)

\* While a command is under way, its connection is about to be closed, or some
\* statement waits for nobody, or there is a deadlock for PostgreSQL to break.
SomebodyGoesOn ==
    (\E t \in Sessions : tx[t].state \in {"running", "broken"}) =>
        \/ \E t \in Sessions : tx[t].state = "broken"
        \/ \E t \in Sessions :
            tx[t].state = "running" /\ \A u \in Sessions : ~WaitsFor(t, u)
        \/ \E S \in SUBSET Sessions : Deadlocked(S)

\* Nobody waits for a session that has ended, or has not begun.
LEMMA WaitedForIsActive ==
    ASSUME Inv, LockExcludes, NEW t \in Sessions, NEW u \in Sessions, WaitsFor(t, u)
    PROVE  tx[u].state \in {"running", "broken"}
<1>1. CASE holder = u
  BY <1>1 DEF LockExcludes, InSection
<1>2. CASE Target(t) \cap Written(u) # {}
  BY <1>2 DEF Inv, ShapeOK, SessionOK, Written
<1>3. QED BY <1>1, <1>2 DEF WaitsFor

\* Of finitely many sessions that all wait for one of them, some wait for each
\* other: the fewest that all wait for one of them.
LEMMA WaitingMakesCircles ==
    ASSUME IsFiniteSet(Sessions), NEW W \in SUBSET Sessions, W # {},
           \A t \in W : \E u \in W : WaitsFor(t, u)
    PROVE  \E S \in SUBSET Sessions : Deadlocked(S)
<1> DEFINE F == {S \in SUBSET Sessions : S # {} /\ \A t \in S : \E u \in S : WaitsFor(t, u)}
<1>1. W \in F /\ F \subseteq SUBSET Sessions
  OBVIOUS
<1>2. FiniteSubsetsOf(Sessions) = SUBSET Sessions
  BY FS_FiniteSubsetsOfFinite
<1>3. IsWellFoundedOn(StrictSubsetOrdering(Sessions), SUBSET Sessions)
  BY <1>2, FS_StrictSubsetOrderingWellFounded
<1>4. PICK S \in F : \A B \in F : <<B, S>> \notin StrictSubsetOrdering(Sessions)
  <2> HIDE DEF F
  <2>1. QED BY <1>1, <1>3, WFMin
<1>5. \A B \in F : B \subseteq S => B = S
  BY <1>4 DEF StrictSubsetOrdering
<1>6. S \in SUBSET Sessions /\ S # {} /\ \A t \in S : \E u \in S : WaitsFor(t, u)
  OBVIOUS
<1>7. ASSUME NEW v \in S PROVE \E u \in S : WaitsFor(u, v)
  <2>1. SUFFICES ASSUME \A u \in S : ~WaitsFor(u, v) PROVE FALSE
    OBVIOUS
  <2>2. PICK w \in S : WaitsFor(v, w)
    BY <1>6
  <2>3. w # v
    BY <2>2 DEF WaitsFor
  <2>4. S \ {v} \in F
    <3>1. \A t \in S \ {v} : \E u \in S \ {v} : WaitsFor(t, u)
      BY <1>6, <2>1
    <3>2. QED BY <1>6, <2>3, <3>1
  <2>5. QED BY <1>5, <2>4
<1>8. QED BY <1>6, <1>7 DEF Deadlocked

\* The advisory lock and the rows together stop nobody for good: whoever waits,
\* waits for a session that is under way, and if all of them wait, some wait in
\* circles.
THEOREM NobodyIsStuck ==
    ASSUME IsFiniteSet(Sessions)
    PROVE  Spec => []SomebodyGoesOn
<1>1. ASSUME Inv, LockExcludes PROVE SomebodyGoesOn
  <2>1. SUFFICES ASSUME NEW t0 \in Sessions, tx[t0].state \in {"running", "broken"},
                        \A t \in Sessions : tx[t].state # "broken",
                        \A t \in Sessions : tx[t].state = "running" =>
                            \E u \in Sessions : WaitsFor(t, u)
                 PROVE  \E S \in SUBSET Sessions : Deadlocked(S)
    BY DEF SomebodyGoesOn
  <2> DEFINE W == {t \in Sessions : tx[t].state = "running"}
  <2>2. W \in SUBSET Sessions /\ W # {}
    BY <2>1
  <2>3. \A t \in W : \E u \in W : WaitsFor(t, u)
    BY <1>1, <2>1, WaitedForIsActive
  <2> HIDE DEF W
  <2>4. QED BY <2>2, <2>3, WaitingMakesCircles
<1>2. Init => LockExcludes
  BY NamedFact, IdleFact DEF Init, LockExcludes, InSection
<1>3. QED BY <1>1, <1>2, LockNext, InvHolds, PTL DEF Spec

\* The steps a session can still take.
Left(x) ==
    CASE x.state = "idle" -> 11
      [] x.state = "running" -> Len(Statements[x.kind]) - x.pc + 2
      [] x.state = "broken" -> 1
      [] OTHER -> 0

\* One session has fewer steps left, the others as many as before.
Spends(t) ==
    /\ DOMAIN tx' = Sessions
    /\ \A u \in Sessions : u # t => tx'[u] = tx[u]
    /\ Left(tx'[t]) < Left(tx[t])

EveryStepIsSpent ==
    [][/\ \A t \in Sessions : Left(tx[t]) \in 0 .. 11 /\ Left(tx'[t]) \in 0 .. 11
       /\ \E t \in Sessions : Spends(t)]_vars

LEMMA ProgramsAreShort ==
    ASSUME NEW K \in DOMAIN Statements
    PROVE  Len(Statements[K]) \in 1 .. 9 /\ DOMAIN Statements[K] = 1 .. Len(Statements[K])
BY DEF Statements

LEMMA LeftFact ==
    ASSUME NEW x, SessionOK(x)
    PROVE  /\ Left(x) \in 0 .. 11
           /\ x.state = "running" => Left(x) \in 2 .. 10
           /\ x.state \in {"done", "failed"} => Left(x) = 0
           /\ x.state = "broken" => Left(x) = 1
           /\ x.state = "idle" => Left(x) = 11
<1>1. CASE x.state = "running"
  <2>1. x.kind \in DOMAIN Statements /\ x.pc \in DOMAIN Statements[x.kind]
    BY <1>1, KindsAssumption DEF SessionOK
  <2>2. Len(Statements[x.kind]) \in 1 .. 9 /\ x.pc \in 1 .. Len(Statements[x.kind])
    BY <2>1, ProgramsAreShort
  <2>3. Left(x) = Len(Statements[x.kind]) - x.pc + 2
    BY <1>1 DEF Left
  <2>4. Left(x) \in 2 .. 10
    <3> DEFINE n == Len(Statements[x.kind])
    <3>1. n \in 1 .. 9 /\ x.pc \in 1 .. n /\ Left(x) = n - x.pc + 2
      BY <2>2, <2>3
    <3> HIDE DEF n
    <3>2. QED BY <3>1
  <2>5. QED BY <1>1, <2>4
<1>2. CASE x.state # "running"
  BY <1>2 DEF SessionOK, States, Left
<1>3. QED BY <1>1, <1>2

LEMMA AdvancedSpends ==
    ASSUME Inv, Inv', NEW t \in Sessions, Advanced(t)
    PROVE  Spends(t)
<1>1. /\ tx[t].state = "running" /\ tx'[t].state = "running"
      /\ tx'[t].kind = tx[t].kind /\ tx'[t].pc = tx[t].pc + 1
      /\ DOMAIN tx' = Sessions /\ \A u \in Sessions : u # t => tx'[u] = tx[u]
  BY DEF Advanced, Alone, Inv, ShapeOK
<1>2. tx[t].kind \in DOMAIN Statements /\ tx[t].pc \in DOMAIN Statements[tx[t].kind]
  BY <1>1, KindsAssumption DEF Inv, ShapeOK, SessionOK
<1>3. Len(Statements[tx[t].kind]) \in Nat /\ tx[t].pc \in Nat
  BY <1>2, ProgramsAreShort
<1>4. /\ Left(tx[t]) = Len(Statements[tx[t].kind]) - tx[t].pc + 2
      /\ Left(tx'[t]) = Len(Statements[tx[t].kind]) - (tx[t].pc + 1) + 2
  BY <1>1 DEF Left
<1>5. QED BY <1>1, <1>3, <1>4 DEF Spends

LEMMA SpendsNext ==
    ASSUME Inv, Inv', Next
    PROVE  \E t \in Sessions : Spends(t)
<1>1. \A t \in Sessions : SessionOK(tx[t]) /\ SessionOK(tx'[t])
  BY DEF Inv, ShapeOK
<1>2. DOMAIN tx = Sessions /\ DOMAIN tx' = Sessions
  BY DEF Inv, ShapeOK
<1>3. ASSUME NEW t \in Sessions, Raise(t), tx[t].state \in {"running", "broken"} PROVE Spends(t)
  <2>1. tx'[t].state = "failed" /\ \A u \in Sessions : u # t => tx'[u] = tx[u]
    BY <1>2, <1>3, IdleFact DEF Raise, Fields
  <2>2. Left(tx'[t]) = 0 /\ Left(tx[t]) \in 1 .. 10
    BY <1>1, <1>3, <2>1, LeftFact
  <2>3. QED BY <1>2, <2>1, <2>2 DEF Spends
<1>4. ASSUME NEW t \in Sessions, StatementFails(t), tx[t].state = "running" PROVE Spends(t)
  <2>1. tx'[t].state = "broken" /\ \A u \in Sessions : u # t => tx'[u] = tx[u]
    BY <1>2, <1>4, IdleFact DEF StatementFails, Fields
  <2>2. Left(tx'[t]) = 1 /\ Left(tx[t]) \in 2 .. 10
    BY <1>1, <1>4, <2>1, LeftFact
  <2>3. QED BY <1>2, <2>1, <2>2 DEF Spends
<1>5. ASSUME NEW t \in Sessions, Proceed(t), tx[t].state = "running" PROVE Spends(t)
  <2>1. CASE Advanced(t)
    BY <2>1, AdvancedSpends
  <2>2. CASE /\ \A u \in Sessions : u # t => tx'[u] = tx[u]
             /\ tx'[t].state \in {"broken", "done", "failed"}
    <3>1. Left(tx'[t]) \in 0 .. 1
      BY <1>1, <2>2, LeftFact
    <3>2. Left(tx[t]) \in 2 .. 10
      BY <1>1, <1>5, LeftFact
    <3>3. QED BY <1>2, <2>2, <3>1, <3>2 DEF Spends
  <2>3. QED BY <1>5, <2>1, <2>2, ProceedForm DEF LockStep
<1>6. ASSUME NEW t \in Sessions, NEW kind \in Kinds, Start(t, kind) PROVE Spends(t)
  <2>1. /\ tx[t].state = "idle" /\ tx'[t].state = "running"
        /\ \A u \in Sessions : u # t => tx'[u] = tx[u]
    BY <1>1, <1>2, <1>6 DEF Start, SessionOK, Fields
  <2>2. Left(tx[t]) = 11 /\ Left(tx'[t]) \in 2 .. 10
    BY <1>1, <2>1, LeftFact
  <2>3. QED BY <1>2, <2>1, <2>2 DEF Spends
<1>7. ASSUME NEW t \in Sessions, DeadlockVictim(t) PROVE Spends(t)
  <2>1. tx[t].state = "running"
    BY <1>7 DEF DeadlockVictim, WaitsFor, Target, Statement
  <2>2. QED BY <1>4, <1>7, <2>1 DEF DeadlockVictim
<1>8. ASSUME NEW t \in Sessions, Disconnect(t) \/ Abandon(t) PROVE Spends(t)
  BY <1>3, <1>8 DEF Disconnect, Abandon
<1>9. QED BY <1>5, <1>6, <1>7, <1>8 DEF Next, Proceed

\* Every step, failed ones included, is one of at most eleven that its session
\* has; the others do not get any back.  So all commands together end after
\* finitely many steps.
THEOREM StepsAreSpent == Spec => EveryStepIsSpent
<1>1. ASSUME Inv, [Next]_vars
      PROVE  [/\ \A t \in Sessions : Left(tx[t]) \in 0 .. 11 /\ Left(tx'[t]) \in 0 .. 11
              /\ \E t \in Sessions : Spends(t)]_vars
  <2>1. Inv'
    BY <1>1, NextInv
  <2>2. \A t \in Sessions : Left(tx[t]) \in 0 .. 11 /\ Left(tx'[t]) \in 0 .. 11
    BY <1>1, <2>1, LeftFact DEF Inv, ShapeOK
  <2>3. QED BY <1>1, <2>1, <2>2, SpendsNext
<1>2. QED BY <1>1, InvHolds, PTL DEF Spec, EveryStepIsSpent
=============================================================================
