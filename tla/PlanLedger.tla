----------------------------- MODULE PlanLedger -----------------------------
(***************************************************************************)
(* What the transactions on one plan promise together, however their       *)
(* statements interleave: each of them is one entry in a ledger.  Entries  *)
(* record a revision, or open a cascade, or close it for good.             *)
(*                                                                         *)
(* What is not promised: two revisions may have one parent, and then one   *)
(* of them is reached by nothing; a commit may miss an edit; and an edit   *)
(* outside of cascades may be published while one is open, whose commit    *)
(* then puts its own tip in the place of it.                               *)
(***************************************************************************)
CONSTANTS Names,   \* of revisions and of cascades
          Root,    \* the one that names the first revision
          None

VARIABLES head,       \* the published revision
          revision,   \* revision -> its parent and its cascade, None before it is recorded
          outcome,    \* cascade -> "open", "committed", "aborted", None before it is opened
          tip         \* cascade -> its revision while it is open, else None

vars == <<head, revision, outcome, tip>>

Published(r) ==
    /\ revision[r] # None
    /\ \/ revision[r].cascade = None
       \/ outcome[revision[r].cascade] = "committed"

\* What a command of cascade c (None: of no cascade) may build upon.
Readable(r, c) ==
    \/ Published(r)
    \/ revision[r] # None /\ revision[r].cascade = c

Edited(c) == \E r \in Names : revision[r] # None /\ revision[r].cascade = c

Init ==
    /\ head = Root
    /\ revision = [r \in Names |-> IF r = Root THEN [parent |-> None, cascade |-> None]
                                               ELSE None]
    /\ \E opened \in SUBSET {Root} :
        /\ outcome = [c \in Names |-> IF c \in opened THEN "open" ELSE None]
        /\ tip = [c \in Names |-> IF c \in opened THEN Root ELSE None]

\* An edit outside of cascades is published at once.
RecordPublished(r, parent) ==
    /\ revision[r] = None /\ Published(parent)
    /\ revision' = [revision EXCEPT ![r] = [parent |-> parent, cascade |-> None]]
    /\ head' = r
    /\ UNCHANGED <<outcome, tip>>

\* An edit in a cascade is its tip; of a cascade closed meanwhile it is the tip
\* no more.
RecordInCascade(r, parent, c) ==
    /\ revision[r] = None /\ Readable(parent, c)
    /\ outcome[c] # None
    /\ revision' = [revision EXCEPT ![r] = [parent |-> parent, cascade |-> c]]
    /\ tip' = IF outcome[c] = "open" THEN [tip EXCEPT ![c] = r] ELSE tip
    /\ UNCHANGED <<head, outcome>>

Begin(c, base) ==
    /\ outcome[c] = None
    /\ \A d \in Names : outcome[d] # "open"
    /\ Published(base)
    /\ outcome' = [outcome EXCEPT ![c] = "open"]
    /\ tip' = [tip EXCEPT ![c] = base]
    /\ UNCHANGED <<head, revision>>

Commit(c, published) ==
    /\ outcome[c] = "open"
    /\ Readable(published, c)
    /\ published = tip[c] \/ Edited(c)
    /\ head' = published
    /\ outcome' = [outcome EXCEPT ![c] = "committed"]
    /\ tip' = [tip EXCEPT ![c] = None]
    /\ UNCHANGED revision

Abort(c) ==
    /\ outcome[c] = "open"
    /\ outcome' = [outcome EXCEPT ![c] = "aborted"]
    /\ tip' = [tip EXCEPT ![c] = None]
    /\ UNCHANGED <<head, revision>>

Next ==
    \E c, r \in Names :
        \/ Begin(c, r) \/ Commit(c, r) \/ Abort(c)
        \/ \E n \in Names : RecordPublished(n, r) \/ RecordInCascade(n, r, c)

Spec == Init /\ [][Next]_vars
=============================================================================
