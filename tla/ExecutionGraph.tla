--------------------------- MODULE ExecutionGraph ---------------------------
(***************************************************************************)
(* The order in which the steps of a plan may run: the edges built from    *)
(* declared dependencies, from the priorities of atomic steps that write   *)
(* one file, and from the order of the branches such writers lie on        *)
(* (views/dependency_graph.py, views/same_file_order.py).                  *)
(*                                                                         *)
(* An edge is a pair <<prerequisite, dependent>>.  The rows are loaded     *)
(* without ORDER BY, and derive_cross_branch_edges and the sort by priority*)
(* go through them as they come: order is a sequence of the ranked writers *)
(* in which the database may return them.                                  *)
(***************************************************************************)
EXTENDS StepTree, Functions

CONSTANT TargetOf  \* target_file and priority of the contents that name a file

NoPriority == 0

ASSUME TargetAssumption ==
    /\ DOMAIN TargetOf \subseteq Contents
    /\ \A content \in DOMAIN TargetOf : TargetOf[content].priority \in Int

Writers(rows) ==
    {s \in Present(rows) : LevelOf[s] = AtomicLevel /\ rows[s].content \in DOMAIN TargetOf}

File(rows, s)     == TargetOf[rows[s].content].file
Priority(rows, s) == TargetOf[rows[s].content].priority

Ranked(rows) == {s \in Writers(rows) : Priority(rows, s) # NoPriority}

RowOrders(rows) == Bijection(1..Cardinality(Ranked(rows)), Ranked(rows))

SameFile(rows, s, t)   == File(rows, s) = File(rows, t)
SameParent(rows, s, t) == rows[s].parent = rows[t].parent

----------------------------------------------------------------------------
(* Edges                                                                   *)

\* Every reference names a step; build_edges raises otherwise.
AllResolve(rows) ==
    \A s \in Present(rows) : \A ref \in rows[s].deps : Named(rows, s, ref) # {}

DeclaredEdges(rows) ==
    UNION {{<<t, s>> : t \in UNION {Named(rows, s, ref) : ref \in rows[s].deps}} :
              s \in Present(rows)}

\* Mutant: the sort has no key.
AsTheyCame(rows, order, s, t) ==
    \E i, j \in DOMAIN order : i < j /\ order[i] = s /\ order[j] = t

\* Writers of one file under one parent, sorted by priority: Python's sort
\* leaves equal ones as the rows came.
SortedBefore(rows, order, s, t) ==
    \/ Priority(rows, s) < Priority(rows, t)
    \/ /\ Priority(rows, s) = Priority(rows, t)
       /\ \E i, j \in DOMAIN order : i < j /\ order[i] = s /\ order[j] = t

PriorityEdges(rows, order) ==
    LET behind(s) == {t \in Ranked(rows) : /\ SameFile(rows, s, t) /\ SameParent(rows, s, t)
                                           /\ SortedBefore(rows, order, s, t)}
        next(s)   == {t \in behind(s) : ~\E u \in behind(s) : t \in behind(u)}
    IN  UNION {{<<s, t>> : t \in next(s)} : s \in Ranked(rows)}

\* The steps one edge behind those of a set.
Onward(edges, from) == {e[2] : e \in {x \in edges : x[1] \in from}}

\* reachable: the steps behind s, by one edge or more.
Reached(edges, s) ==
    LET grow[near \in SUBSET {e[2] : e \in edges}] ==
            IF Onward(edges, near) \subseteq near THEN near
            ELSE grow[near \cup Onward(edges, near)]
    IN  grow[Onward(edges, {s})]

\* ancestors: a step and the resolvable parents up to its root.
Branch(rows, s) ==
    LET up == {s, rows[s].parent} \cap Present(rows)
    IN  up \cup ({rows[a].parent : a \in up} \cap Present(rows))

\* A step of the one set comes before another one of the other.
Leads(edges, from, to) == \E a \in from : Reached(edges, a) \cap (to \ {a}) # {}

\* branch_order: a step on the branch of s comes before one on that of t, and
\* none the other way.
BranchBefore(rows, edges, s, t) ==
    /\ Leads(edges, Branch(rows, s), Branch(rows, t))
    /\ ~Leads(edges, Branch(rows, t), Branch(rows, s))

CrossBranchEdges(rows, edges, s, t) ==
    IF SameParent(rows, s, t) \/ t \in Reached(edges, s) \/ s \in Reached(edges, t)
    THEN {}
    ELSE {e \in {<<s, t>>, <<t, s>>} : BranchBefore(rows, edges, e[1], e[2])}

\* The pairs of writers of one file, as places in the order.
WriterPairs(rows, order) ==
    {p \in (DOMAIN order) \X (DOMAIN order) :
        p[1] < p[2] /\ SameFile(rows, order[p[1]], order[p[2]])}

\* by_file keeps the files as it met them, and the writers of each.
Earlier(rows, order, p, q) ==
    LET met(i) == CHOOSE k \in DOMAIN order :
            /\ SameFile(rows, order[k], order[i])
            /\ \A j \in DOMAIN order : SameFile(rows, order[j], order[i]) => k <= j
    IN  \/ met(p[1]) < met(q[1])
        \/ /\ met(p[1]) = met(q[1])
           /\ p[1] < q[1] \/ (p[1] = q[1] /\ p[2] < q[2])

\* build_edges, with the edges derived for the first i pairs
DerivedEdges(rows, order) ==
    LET pairs == WriterPairs(rows, order)
        at(i) == CHOOSE p \in pairs :
                    Cardinality({q \in pairs : Earlier(rows, order, q, p)}) = i - 1
        built[i \in 0..Cardinality(pairs)] ==
            IF i = 0 THEN DeclaredEdges(rows) \cup PriorityEdges(rows, order)
            ELSE LET edges == built[i - 1]
                     pair  == at(i)
                 IN  edges \cup CrossBranchEdges(rows, edges, order[pair[1]], order[pair[2]])
    IN  built

BuildEdges(rows, order) ==
    DerivedEdges(rows, order)[Cardinality(WriterPairs(rows, order))]

----------------------------------------------------------------------------
(* What the commands decide on them                                        *)

\* The steps of left that wait for one of left.
Waiting(edges, left) == {e[2] : e \in {x \in edges : x[1] \in left /\ x[2] \in left}}

\* The residual of topological_order: what is left when the steps that wait
\* for none of the others have been extracted, again and again.
Residual(edges) ==
    LET targets == {e[2] : e \in edges}
        extract[left \in SUBSET targets] ==
            LET waiting == Waiting(edges, left)
            IN  IF waiting = left THEN left ELSE extract[waiting]
    IN  extract[targets]

HasCycle(edges) == Residual(edges) # {}

\* same_file_order_conflicts: writers of one file that no edges order.
Conflicts(rows, edges) ==
    {{e[1], e[2]} : e \in
        {p \in Writers(rows) \X Writers(rows) :
            /\ p[1] # p[2] /\ SameFile(rows, p[1], p[2])
            /\ p[2] \notin Reached(edges, p[1]) /\ p[1] \notin Reached(edges, p[2])}}

\* The checks of the dependency commands: detect_cycle and
\* same_file_admission, on one reading of the rows.
OrderAdmits(before, after) ==
    /\ AllResolve(after) /\ AllResolve(before)
    /\ \E order \in RowOrders(before) :
          LET old == BuildEdges(before, order)
              new == BuildEdges(after, order)
          IN  ~HasCycle(new) /\ Conflicts(after, new) \subseteq Conflicts(before, old)
=============================================================================
