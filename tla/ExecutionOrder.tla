--------------------------- MODULE ExecutionOrder ---------------------------
(***************************************************************************)
(* What an executor of the plan relies on: the parallel waves computed from*)
(* the execution graph (waves, dependency_graph.py), and that the graph    *)
(* keeps its order while the plan is edited.                               *)
(***************************************************************************)
EXTENDS PlanCascadeProps

Nodes == Present(rows)

\* Mutant: a prerequisite stands for itself only.
BareOwn(edges, s) == {e[1] : e \in {x \in edges : x[2] = s}}

\* explicit_prereqs_of, closed under the subtrees of the prerequisites.
Own(edges, s) == UNION {Subtree(rows, e[1]) : e \in {x \in edges : x[2] = s}}

\* _effective_prereqs
EffectivePrereqs(edges) ==
    LET eff[s \in Nodes] ==
            (Own(edges, s) \cup (IF rows[s].parent \in Nodes THEN eff[rows[s].parent] ELSE {}))
                \ {s}
    IN  eff

\* The steps that the first n waves assign: a wave is all steps whose
\* prerequisites are assigned, and there are at most as many as steps.
Assigned(edges) ==
    LET prereqs == {<<s, EffectivePrereqs(edges)[s]>> : s \in Nodes}
        upto[n \in 0..Cardinality(Nodes)] ==
            IF n = 0 THEN {}
            ELSE LET before == upto[n - 1]
                 IN  before \cup {p[1] : p \in {q \in prereqs : q[2] \subseteq before}}
    IN  upto

\* The number of the wave of each step; waves raises if some step has none.
WavesOf(edges) ==
    LET upto  == Assigned(edges)
        waves == {<<n, upto[n] \ upto[n - 1]>> : n \in 1..Cardinality(Nodes)}
    IN  [s \in Nodes |-> {w[1] : w \in {v \in waves : s \in v[2]}}]

----------------------------------------------------------------------------
(* Properties                                                              *)

\* Priorities tell apart the writers of one file under one parent.
PrioritiesUnique(table) ==
    \A s, t \in Ranked(table) :
        s # t /\ SameFile(table, s, t) /\ SameParent(table, s, t)
        => Priority(table, s) # Priority(table, t)

\* The graphs that the orders of the rows lead to.
Graphs == {BuildEdges(rows, order) : order \in RowOrders(rows)}

\* Only atomic steps depend on others by their paths.
PathsOfAtoms(table) ==
    \A s \in Present(table) : table[s].deps \cap PathRefs # {} => LevelOf[s] = AtomicLevel

\* The steps above s come before those above t.
BranchFirst(table, edges, s, t) ==
    LET above(x) == Branch(table, x) \ {x}
    IN  Leads(edges, above(s), above(t)) /\ ~Leads(edges, above(t), above(s))

\* No writer comes before another of its file whose branch comes first.
BranchesRespected(table, edges) ==
    \A s, t \in Ranked(table) :
        SameFile(table, s, t) /\ BranchFirst(table, edges, s, t) => s \notin Reached(edges, t)

\* The rows come in any order, and the edges derived across branches depend on
\* it; the verdicts do not: either every order has a cycle or none has, and all
\* report the same ambiguous writers, unless the writers of some file are
\* ordered against their branches.  What a dependency command admits, the next
\* reader of the rows finds as it was.
VerdictsAgree ==
    AllResolve(rows) /\ PrioritiesUnique(rows) =>
        \A g, h \in Graphs :
            /\ HasCycle(g) <=> HasCycle(h)
            /\ PathsOfAtoms(rows) /\ BranchesRespected(rows, g)
               => Conflicts(rows, g) = Conflicts(rows, h)

\* y waits for x: an edge leads from a step at or above x to one at or above y.
Waits(edges) ==
    UNION {{<<x, y>> : x \in Subtree(rows, e[1]), y \in Subtree(rows, e[2])} : e \in edges}

\* No step waits for one below it; no command makes it, but a file may.
NoneWaitsBelow(table) == \A e \in DeclaredEdges(table) : e[1] \notin Below(table, e[2])

\* When the edges have no cycle, waves assigns every step if and only if the
\* plan can be run subtree after subtree, and then each step comes in a later
\* wave than the steps it waits for.
WavesSound ==
    AllResolve(rows) /\ NoneWaitsBelow(rows) =>
        \A edges \in {g \in Graphs : ~HasCycle(g)} :
            LET wave     == WavesOf(edges)
                complete == \A s \in Nodes : wave[s] # {}
            IN  /\ complete <=> ~HasCycle(Waits(edges))
                /\ complete => \A w \in Waits(edges) :
                      \A i \in wave[w[1]], j \in wave[w[2]] : i < j

\* A graph in order stays so under the commands that change dependencies and
\* nothing else, those that only take some away check nothing, and under
\* deletions, which do not check either.  An abort gives back the dependencies
\* of the base, which an import may have put in a circle.
OrderKept ==
    [][LET kept(s) == /\ rows'[s].parent = rows[s].parent
                      /\ rows'[s].content = rows[s].content
                      /\ rows'[s].status = rows[s].status
           ordered(table) == \A order \in RowOrders(table) : ~HasCycle(BuildEdges(table, order))
       IN  /\ Present(rows') \subseteq Present(rows)
           /\ \A s \in Present(rows') : kept(s)
           /\ rows' # rows
           /\ ParentsThere(rows) /\ PrioritiesUnique(rows)
           /\ AllResolve(rows) /\ AllResolve(rows')
           /\ ordered(rows) /\ ~Aborts
           => ordered(rows')]_vars
=============================================================================
