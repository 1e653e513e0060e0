-------------------------- MODULE PlanOrder_proofs --------------------------
(***************************************************************************)
(* Proofs about the order of the steps: when a set of edges has a cycle,   *)
(* what the edges of a plan are, that the verdicts on them do not depend on*)
(* the order in which the rows come, and that the commands keep the steps  *)
(* from waiting for each other in a circle.                                *)
(***************************************************************************)
EXTENDS ExecutionOrder, PlanCascade_proofs

----------------------------------------------------------------------------
(* When a set of edges has a cycle                                         *)

EdgeSets == SUBSET (Steps \X Steps)

\* Every step of the set waits for another of the set.
Stuck(edges, set) == set # {} /\ set \subseteq Waiting(edges, set)

LEMMA WaitingFact ==
    ASSUME NEW edges, NEW left, NEW s
    PROVE  /\ s \in Waiting(edges, left) <=>
                 \E e \in edges : e[1] \in left /\ e[2] \in left /\ e[2] = s
           /\ Waiting(edges, left) \subseteq left
           /\ Waiting(edges, left) \subseteq {e[2] : e \in edges}
BY DEF Waiting

\* A larger set of edges, and a larger set of steps, have more steps waiting.
LEMMA WaitingGrows ==
    ASSUME NEW edges, NEW more, edges \subseteq more,
           NEW left, NEW wide, left \subseteq wide
    PROVE  Waiting(edges, left) \subseteq Waiting(more, wide)
BY DEF Waiting

LEMMA TargetsFinite ==
    ASSUME NEW edges \in EdgeSets
    PROVE  /\ IsFiniteSet({e[2] : e \in edges})
           /\ {e[2] : e \in edges} \subseteq Steps
<1>1. {e[2] : e \in edges} \subseteq Steps
  BY DEF EdgeSets
<1>2. QED BY <1>1, FiniteStepsAssumption, FS_Subset

\* The extraction of topological_order leaves the largest set in which every
\* step waits for another.
LEMMA ResidualIsLargest ==
    ASSUME NEW edges \in EdgeSets
    PROVE  Residual(edges) = UNION {set \in SUBSET {e[2] : e \in edges} :
                                       set \subseteq Waiting(edges, set)}
<1> DEFINE T == {e[2] : e \in edges}
           Best(left) == UNION {set \in SUBSET left : set \subseteq Waiting(edges, set)}
           Def(f) == [left \in SUBSET T |->
                         LET waiting == Waiting(edges, left)
                         IN  IF waiting = left THEN left ELSE f[waiting]]
           extract == CHOOSE f : f = Def(f)
           best == [left \in SUBSET T |-> Best(left)]
<1>1. Residual(edges) = extract[T]
  BY DEF Residual
<1>2. ASSUME NEW left \in SUBSET T
      PROVE  /\ Waiting(edges, left) \in SUBSET T
             /\ Waiting(edges, left) \subseteq left
             /\ Waiting(edges, left) = left => Best(left) = left
             /\ Best(left) = Best(Waiting(edges, left))
  <2>1. Waiting(edges, left) \subseteq left
    BY WaitingFact
  <2>2. ASSUME NEW set \in SUBSET left, set \subseteq Waiting(edges, set)
        PROVE  set \in SUBSET Waiting(edges, left)
    BY <2>2, WaitingGrows
  <2>3. QED BY <2>1, <2>2
<1>3. best = Def(best)
  <2> HIDE DEF Best
  <2>1. ASSUME NEW left \in SUBSET T
        PROVE  best[left] = IF Waiting(edges, left) = left THEN left
                            ELSE best[Waiting(edges, left)]
    BY <1>2
  <2>2. QED BY <2>1
<1>4. extract = Def(extract)
  <2> HIDE DEF best, Def
  <2>1. QED BY <1>3
<1>5. ASSUME NEW left \in SUBSET T
      PROVE  extract[left] = IF Waiting(edges, left) = left THEN left
                             ELSE extract[Waiting(edges, left)]
  <2> HIDE DEF extract
  <2>1. QED BY <1>4
<1> DEFINE Bad == {left \in SUBSET T : extract[left] # Best(left)}
<1>6. Bad = {}
  <2> HIDE DEF extract, Best
  <2>1. SUFFICES ASSUME Bad # {} PROVE FALSE
    OBVIOUS
  <2>2. PICK left \in Bad : \A m \in Bad : m \subseteq left => m = left
    <3>1. Bad \subseteq SUBSET T /\ IsFiniteSet(T)
      BY TargetsFinite
    <3> HIDE DEF Bad, T
    <3>2. QED BY <2>1, <3>1, LeastSet
  <2>3. left \in SUBSET T /\ extract[left] # Best(left)
    OBVIOUS
  <2>4. Waiting(edges, left) # left
    BY <1>2, <1>5, <2>3
  <2>5. extract[Waiting(edges, left)] = Best(Waiting(edges, left))
    BY <1>2, <2>2, <2>3, <2>4
  <2>6. QED BY <1>2, <1>5, <2>3, <2>4, <2>5
<1>7. extract[T] = Best(T)
  <2> HIDE DEF extract, Best, T
  <2>1. QED BY <1>6
<1>8. QED BY <1>1, <1>7

\* The edges have a cycle if and only if some steps wait for each other.
LEMMA CycleIsStuck ==
    ASSUME NEW edges \in EdgeSets
    PROVE  HasCycle(edges) <=> \E set : Stuck(edges, set)
<1>1. ASSUME NEW set, Stuck(edges, set) PROVE HasCycle(edges)
  <2>1. set \in SUBSET {e[2] : e \in edges}
    BY <1>1, WaitingFact DEF Stuck
  <2>2. QED BY <1>1, <2>1, ResidualIsLargest DEF Stuck, HasCycle
<1>2. ASSUME HasCycle(edges) PROVE \E set : Stuck(edges, set)
  BY <1>2, ResidualIsLargest DEF Stuck, HasCycle
<1>3. QED BY <1>1, <1>2

----------------------------------------------------------------------------
(* Which steps are reached from a step                                     *)

\* No edge leads out of the set.
Closed(edges, set) == Onward(edges, set) \subseteq set

\* reachable finds the steps in every closed set that holds those one edge
\* behind.
LEMMA ReachedIsLeast ==
    ASSUME NEW edges \in EdgeSets, NEW s
    PROVE  Reached(edges, s) =
              {x \in {e[2] : e \in edges} :
                  \A set \in SUBSET {e[2] : e \in edges} :
                     Onward(edges, {s}) \subseteq set /\ Closed(edges, set) => x \in set}
<1> DEFINE T == {e[2] : e \in edges}
           Holds(near, set) == near \subseteq set /\ Closed(edges, set)
           Best(near) == {x \in T : \A set \in SUBSET T : Holds(near, set) => x \in set}
           Def(f) == [near \in SUBSET T |->
                         IF Onward(edges, near) \subseteq near THEN near
                         ELSE f[near \cup Onward(edges, near)]]
           grow == CHOOSE f : f = Def(f)
           best == [near \in SUBSET T |-> Best(near)]
           First == Onward(edges, {s})
<1>1. Reached(edges, s) = grow[First]
  BY DEF Reached
<1>2. ASSUME NEW near PROVE Onward(edges, near) \in SUBSET T
  BY DEF Onward
<1>3. ASSUME NEW near \in SUBSET T
      PROVE  /\ near \cup Onward(edges, near) \in SUBSET T
             /\ Closed(edges, near) => Best(near) = near
             /\ Best(near) = Best(near \cup Onward(edges, near))
  <2>1. near \cup Onward(edges, near) \in SUBSET T
    BY <1>2
  <2>2. ASSUME NEW set \in SUBSET T
        PROVE  Holds(near, set) <=> Holds(near \cup Onward(edges, near), set)
    <3>1. near \subseteq set => Onward(edges, near) \subseteq Onward(edges, set)
      BY DEF Onward
    <3>2. QED BY <3>1 DEF Closed
  <2>3. QED BY <2>1, <2>2
<1>4. best = Def(best)
  <2> HIDE DEF Best
  <2>1. ASSUME NEW near \in SUBSET T
        PROVE  best[near] = IF Onward(edges, near) \subseteq near THEN near
                            ELSE best[near \cup Onward(edges, near)]
    BY <1>3 DEF Closed
  <2>2. QED BY <2>1
<1>5. grow = Def(grow)
  <2> HIDE DEF best, Def
  <2>1. QED BY <1>4
<1>6. ASSUME NEW near \in SUBSET T
      PROVE  grow[near] = IF Onward(edges, near) \subseteq near THEN near
                          ELSE grow[near \cup Onward(edges, near)]
  <2> HIDE DEF grow
  <2>1. QED BY <1>5
<1> DEFINE Rest == {T \ near : near \in {set \in SUBSET T : grow[set] # Best(set)}}
<1>7. Rest = {}
  <2> HIDE DEF grow, Best
  <2>1. SUFFICES ASSUME Rest # {} PROVE FALSE
    OBVIOUS
  <2>2. PICK left \in Rest : \A m \in Rest : m \subseteq left => m = left
    <3>1. Rest \subseteq SUBSET T /\ IsFiniteSet(T)
      BY TargetsFinite
    <3> HIDE DEF Rest, T
    <3>2. QED BY <2>1, <3>1, LeastSet
  <2>3. PICK near \in SUBSET T : grow[near] # Best(near) /\ left = T \ near
    OBVIOUS
  <2>4. ~(Onward(edges, near) \subseteq near)
    BY <1>3, <1>6, <2>3 DEF Closed
  <2> DEFINE next == near \cup Onward(edges, near)
  <2>5. next \in SUBSET T /\ T \ next \subseteq left /\ T \ next # left
    BY <1>2, <2>3, <2>4
  <2>6. grow[next] = Best(next)
    BY <2>2, <2>5
  <2>7. QED BY <1>3, <1>6, <2>3, <2>4, <2>6
<1>8. grow[First] = Best(First)
  <2>1. First \in SUBSET T
    BY <1>2
  <2> HIDE DEF grow, Best, T, First
  <2>2. QED BY <1>7, <2>1
<1>9. QED BY <1>1, <1>8

LEMMA ReachedFact ==
    ASSUME NEW edges \in EdgeSets, NEW s
    PROVE  /\ Reached(edges, s) \subseteq {e[2] : e \in edges}
           /\ Onward(edges, {s}) \subseteq Reached(edges, s)
           /\ Closed(edges, Reached(edges, s))
           /\ \A set : Onward(edges, {s}) \subseteq set /\ Closed(edges, set)
                       => Reached(edges, s) \subseteq set
<1> DEFINE T == {e[2] : e \in edges}
           R == Reached(edges, s)
           Above(set) == Onward(edges, {s}) \subseteq set /\ Closed(edges, set)
<1>1. R = {x \in T : \A set \in SUBSET T : Above(set) => x \in set}
  BY ReachedIsLeast
<1>2. \A near : Onward(edges, near) \subseteq T
  BY DEF Onward
<1> HIDE DEF R, T
<1>3. R \subseteq T /\ Onward(edges, {s}) \subseteq R
  BY <1>1, <1>2
<1>4. Closed(edges, R)
  <2>1. ASSUME NEW set \in SUBSET T, Above(set) PROVE Onward(edges, R) \subseteq set
    <3>1. R \subseteq set
      BY <1>1, <2>1
    <3>2. QED BY <2>1, <3>1 DEF Closed, Onward
  <2>2. QED BY <1>1, <1>2, <2>1 DEF Closed
<1>5. ASSUME NEW set, Above(set) PROVE R \subseteq set
  <2>1. Above(set \cap T)
    <3>1. Onward(edges, set \cap T) \subseteq Onward(edges, set)
      BY DEF Onward
    <3>2. QED BY <1>2, <1>5, <3>1 DEF Closed
  <2>2. set \cap T \in SUBSET T
    OBVIOUS
  <2>3. QED BY <1>1, <2>1, <2>2
<1>6. QED BY <1>3, <1>4, <1>5 DEF R, T

\* Reaching goes on: from a step one edge behind, and from a step reached.
LEMMA ReachedSteps ==
    ASSUME NEW edges \in EdgeSets, NEW s
    PROVE  /\ \A t : <<s, t>> \in edges => t \in Reached(edges, s)
           /\ \A t \in Reached(edges, s) : \A u : <<t, u>> \in edges => u \in Reached(edges, s)
           /\ \A t \in Reached(edges, s) : Reached(edges, t) \subseteq Reached(edges, s)
<1>1. /\ Onward(edges, {s}) \subseteq Reached(edges, s)
      /\ Onward(edges, Reached(edges, s)) \subseteq Reached(edges, s)
  BY ReachedFact DEF Closed
<1>2. ASSUME NEW t \in Reached(edges, s) PROVE Reached(edges, t) \subseteq Reached(edges, s)
  <2>1. Onward(edges, {t}) \subseteq Onward(edges, Reached(edges, s))
    BY DEF Onward
  <2>2. QED BY <1>1, <2>1, ReachedFact DEF Closed
<1>3. ASSUME NEW t, <<s, t>> \in edges PROVE t \in Reached(edges, s)
  BY <1>1, <1>3 DEF Onward
<1>4. ASSUME NEW t \in Reached(edges, s), NEW u, <<t, u>> \in edges
      PROVE  u \in Reached(edges, s)
  BY <1>1, <1>4 DEF Onward
<1>5. QED BY <1>2, <1>3, <1>4

\* If every edge of one graph is a path of another, so is every path.
LEMMA ReachedWithin ==
    ASSUME NEW edges \in EdgeSets, NEW more \in EdgeSets,
           \A e \in edges : e[2] \in Reached(more, e[1]), NEW s
    PROVE  Reached(edges, s) \subseteq Reached(more, s)
<1>1. Onward(edges, {s}) \subseteq Reached(more, s)
  BY DEF Onward
<1>2. Closed(edges, Reached(more, s))
  BY ReachedSteps DEF Closed, Onward
<1>3. QED BY <1>1, <1>2, ReachedFact

LEMMA ReachedGrows ==
    ASSUME NEW edges \in EdgeSets, NEW more \in EdgeSets, edges \subseteq more, NEW s
    PROVE  Reached(edges, s) \subseteq Reached(more, s)
<1>1. \A e \in edges : e[2] \in Reached(more, e[1])
  BY ReachedSteps DEF EdgeSets
<1>2. QED BY <1>1, ReachedWithin

\* An edge that no path leads back along closes no cycle.
LEMMA EdgeKeepsOrder ==
    ASSUME NEW edges \in EdgeSets, NEW s \in Steps, NEW t \in Steps, s # t,
           s \notin Reached(edges, t), HasCycle(edges \cup {<<s, t>>})
    PROVE  HasCycle(edges)
<1> DEFINE more == edges \cup {<<s, t>>}
           behind == {t} \cup Reached(edges, t)
<1>1. more \in EdgeSets
  BY DEF EdgeSets
<1>2. PICK set : Stuck(more, set)
  BY <1>1, CycleIsStuck
<1>3. CASE Stuck(edges, set)
  BY <1>3, CycleIsStuck
<1>4. CASE ~Stuck(edges, set)
  <2>1. \A x \in set : \E e \in more : e[1] \in set /\ e[2] = x
    BY <1>2, WaitingFact DEF Stuck
  <2>2. s \in set \ behind
    <3>1. s \in set
      BY <1>2, <1>4, <2>1, WaitingFact DEF Stuck
    <3>2. QED BY <3>1
  <2>3. ASSUME NEW x \in set \ behind
        PROVE  \E e \in edges : e[1] \in set \ behind /\ e[2] = x
    <3>1. PICK e \in more : e[1] \in set /\ e[2] = x
      BY <2>1
    <3>2. e \in edges
      BY <3>1
    <3>3. e = <<e[1], e[2]>>
      BY <3>2 DEF EdgeSets
    <3>4. e[1] \notin behind
      BY <3>1, <3>2, <3>3, ReachedSteps
    <3>5. QED BY <3>1, <3>2, <3>4
  <2>4. Stuck(edges, set \ behind)
    BY <2>2, <2>3, WaitingFact DEF Stuck
  <2>5. QED BY <2>4, CycleIsStuck
<1>5. QED BY <1>3, <1>4

LEMMA CycleGrows ==
    ASSUME NEW edges \in EdgeSets, NEW more \in EdgeSets, edges \subseteq more,
           HasCycle(edges)
    PROVE  HasCycle(more)
<1>1. PICK set : Stuck(edges, set)
  BY CycleIsStuck
<1>2. Stuck(more, set)
  BY <1>1, WaitingGrows DEF Stuck
<1>3. QED BY <1>2, CycleIsStuck

----------------------------------------------------------------------------
(* The pairs of writers, numbered in the order in which they are visited   *)

Preceding(P, R, p) == {q \in P : <<q, p>> \in R}

\* The members of a finite set, strictly ordered, have the numbers of their
\* places.
LEMMA NumbersInOrder ==
    ASSUME NEW P, IsFiniteSet(P), NEW R,
           \A p, q, r \in P : <<p, q>> \in R /\ <<q, r>> \in R => <<p, r>> \in R,
           \A p \in P : <<p, p>> \notin R,
           \A p, q \in P : p = q \/ <<p, q>> \in R \/ <<q, p>> \in R
    PROVE  /\ Cardinality(P) \in Nat
           /\ \A p \in P : \E i \in 1..Cardinality(P) :
                 Cardinality(Preceding(P, R, p)) = i - 1
           /\ \A p, q \in P : Cardinality(Preceding(P, R, p))
                                 = Cardinality(Preceding(P, R, q)) => p = q
           /\ \A i \in 1..Cardinality(P) : \E p \in P :
                 Cardinality(Preceding(P, R, p)) = i - 1
<1> DEFINE N == Cardinality(P)
           Before(p) == Preceding(P, R, p)
           number == [p \in P |-> Cardinality(Before(p)) + 1]
<1>1. N \in Nat
  BY FS_CardinalityType
<1>2. ASSUME NEW p \in P
      PROVE  /\ IsFiniteSet(Before(p)) /\ Cardinality(Before(p)) \in Nat
             /\ Cardinality(Before(p)) < N
  <2>1. IsFiniteSet(Before(p)) /\ Before(p) # P /\ Before(p) \in SUBSET P
    BY FS_Subset DEF Preceding
  <2>2. Cardinality(Before(p)) <= N /\ Cardinality(Before(p)) # N
    <3> HIDE DEF Before
    <3>1. QED BY <2>1, FS_Subset
  <2>3. Cardinality(Before(p)) \in Nat
    <3> HIDE DEF Before
    <3>1. QED BY <2>1, FS_CardinalityType
  <2>4. QED BY <1>1, <2>1, <2>2, <2>3
<1>3. ASSUME NEW p \in P, NEW q \in P, <<p, q>> \in R
      PROVE  Cardinality(Before(p)) < Cardinality(Before(q))
  <2>1. Before(p) \in SUBSET Before(q) /\ p \in Before(q) /\ p \notin Before(p)
    BY <1>3 DEF Preceding
  <2> HIDE DEF Before
  <2>2. Cardinality(Before(p)) <= Cardinality(Before(q))
    BY <1>2, <2>1, FS_Subset
  <2>3. Cardinality(Before(p)) # Cardinality(Before(q))
    BY <1>2, <2>1, FS_Subset
  <2>4. QED BY <1>2, <2>2, <2>3
<1>4. ASSUME NEW p \in P, NEW q \in P, p # q
      PROVE  Cardinality(Before(p)) # Cardinality(Before(q))
  <2> HIDE DEF Before
  <2>1. <<p, q>> \in R \/ <<q, p>> \in R
    BY <1>4
  <2>2. QED BY <1>2, <1>3, <2>1
<1> HIDE DEF Before
<1>5. number \in [P -> 1..N]
  BY <1>1, <1>2
<1>6. number \in Injection(P, 1..N)
  <2>1. ASSUME NEW p \in P, NEW q \in P, number[p] = number[q] PROVE p = q
    BY <1>2, <1>4, <2>1
  <2>2. QED BY <1>5, <2>1 DEF Injection, IsInjective
<1>7. number \in Surjection(P, 1..N)
  <2>1. IsFiniteSet(1..N) /\ Cardinality(1..N) = N
    BY <1>1, FS_Interval
  <2> HIDE DEF number
  <2>2. QED BY <1>6, <2>1, FS_Injection
<1>8. ASSUME NEW i \in 1..N PROVE \E p \in P : Cardinality(Before(p)) = i - 1
  <2>1. PICK p \in P : number[p] = i
    BY <1>7 DEF Surjection
  <2>2. QED BY <1>2, <2>1
<1>9. ASSUME NEW p \in P PROVE \E i \in 1..N : Cardinality(Before(p)) = i - 1
  <2>1. Cardinality(Before(p)) + 1 \in 1..N
    BY <1>1, <1>2
  <2>2. QED BY <1>2, <2>1
<1>10. QED BY <1>1, <1>4, <1>8, <1>9 DEF Before

LEMMA RowOrderFact ==
    ASSUME NEW table, NEW order \in RowOrders(table)
    PROVE  /\ Cardinality(Ranked(table)) \in Nat
           /\ DOMAIN order = 1..Cardinality(Ranked(table))
           /\ DOMAIN order \subseteq Nat
           /\ IsFiniteSet(DOMAIN order)
           /\ \A i \in DOMAIN order : order[i] \in Ranked(table)
           /\ \A i, j \in DOMAIN order : order[i] = order[j] => i = j
           /\ \A s \in Ranked(table) : \E i \in DOMAIN order : order[i] = s
<1>1. Ranked(table) \subseteq Steps
  BY DEF Ranked, Writers, Present
<1>2. Cardinality(Ranked(table)) \in Nat
  BY <1>1, FiniteStepsAssumption, FS_Subset, FS_CardinalityType
<1>3. order \in [1..Cardinality(Ranked(table)) -> Ranked(table)]
  BY DEF RowOrders, Bijection, Injection
<1>4. IsFiniteSet(1..Cardinality(Ranked(table)))
  BY <1>2, FS_Interval
<1>5. \A s \in Ranked(table) : \E i \in 1..Cardinality(Ranked(table)) : order[i] = s
  BY DEF RowOrders, Bijection, Surjection
<1>6. \A i, j \in DOMAIN order : order[i] = order[j] => i = j
  BY DEF RowOrders, Bijection, Injection, IsInjective
<1>7. QED BY <1>2, <1>3, <1>4, <1>5, <1>6

LEMMA EarlierOrders ==
    ASSUME NEW table, NEW order \in RowOrders(table)
    PROVE  LET P == WriterPairs(table, order)
           IN  /\ IsFiniteSet(P)
               /\ \A p, q, r \in P : Earlier(table, order, p, q) /\ Earlier(table, order, q, r)
                                     => Earlier(table, order, p, r)
               /\ \A p \in P : ~Earlier(table, order, p, p)
               /\ \A p, q \in P : p = q \/ Earlier(table, order, p, q)
                                        \/ Earlier(table, order, q, p)
<1> DEFINE D == DOMAIN order
           P == WriterPairs(table, order)
           Same(i) == {k \in D : SameFile(table, order[k], order[i])}
           met(i) == CHOOSE k \in D :
                        /\ SameFile(table, order[k], order[i])
                        /\ \A j \in D : SameFile(table, order[j], order[i]) => k <= j
<1>1. D \subseteq Nat /\ IsFiniteSet(D)
  BY RowOrderFact
<1>2. P \subseteq D \X D
  BY DEF WriterPairs
<1>3. IsFiniteSet(P)
  <2> HIDE DEF D, P
  <2>1. IsFiniteSet(D \X D)
    BY <1>1, FS_Product
  <2>2. QED BY <1>2, <2>1, FS_Subset
<1>4. ASSUME NEW i \in D PROVE met(i) \in Nat
  <2>1. Same(i) \subseteq Nat /\ i \in Same(i)
    BY <1>1 DEF SameFile
  <2>2. \E k \in Same(i) : \A j \in Same(i) : k <= j
    <3> HIDE DEF Same
    <3>1. QED BY <2>1, LeastNumber
  <2>3. \E k \in D : /\ SameFile(table, order[k], order[i])
                     /\ \A j \in D : SameFile(table, order[j], order[i]) => k <= j
    BY <2>2
  <2>4. QED BY <1>1, <2>3
<1>5. ASSUME NEW p \in P, NEW q \in P
      PROVE  /\ Earlier(table, order, p, q) <=>
                    \/ met(p[1]) < met(q[1])
                    \/ /\ met(p[1]) = met(q[1])
                       /\ p[1] < q[1] \/ (p[1] = q[1] /\ p[2] < q[2])
             /\ p[1] \in Nat /\ p[2] \in Nat /\ met(p[1]) \in Nat
             /\ p[1] = q[1] /\ p[2] = q[2] => p = q
  <2>1. p[1] \in D /\ p[2] \in D /\ p = <<p[1], p[2]>> /\ q = <<q[1], q[2]>>
    BY <1>2
  <2>2. met(p[1]) \in Nat
    <3> HIDE DEF met
    <3>1. QED BY <1>4, <2>1
  <2>3. QED BY <1>1, <2>1, <2>2 DEF Earlier
<1> HIDE DEF met, P
<1>6. ASSUME NEW p \in P, NEW q \in P, NEW r \in P,
             Earlier(table, order, p, q), Earlier(table, order, q, r)
      PROVE  Earlier(table, order, p, r)
  BY <1>5, <1>6
<1>7. ASSUME NEW p \in P PROVE ~Earlier(table, order, p, p)
  BY <1>5
<1>8. ASSUME NEW p \in P, NEW q \in P
      PROVE  p = q \/ Earlier(table, order, p, q) \/ Earlier(table, order, q, p)
  BY <1>5
<1>9. QED BY <1>3, <1>6, <1>7, <1>8 DEF P

\* Each pair of writers has the number under which build_edges visits it.
PairAt(table, order, i) ==
    CHOOSE p \in WriterPairs(table, order) :
        Cardinality({q \in WriterPairs(table, order) : Earlier(table, order, q, p)}) = i - 1

LEMMA PairsNumbered ==
    ASSUME NEW table, NEW order \in RowOrders(table)
    PROVE  LET P == WriterPairs(table, order)
           IN  /\ Cardinality(P) \in Nat
               /\ \A i \in 1..Cardinality(P) : PairAt(table, order, i) \in P
               /\ \A p \in P : \E i \in 1..Cardinality(P) : PairAt(table, order, i) = p
<1> DEFINE P == WriterPairs(table, order)
           R == {pq \in P \X P : Earlier(table, order, pq[1], pq[2])}
           count(p) == Cardinality({q \in P : Earlier(table, order, q, p)})
<1>1. \A p, q \in P : <<p, q>> \in R <=> Earlier(table, order, p, q)
  OBVIOUS
<1>2. ASSUME NEW p \in P PROVE count(p) = Cardinality(Preceding(P, R, p))
  <2>1. {q \in P : Earlier(table, order, q, p)} = Preceding(P, R, p)
    BY <1>1 DEF Preceding
  <2>2. QED BY <2>1
<1>3. /\ IsFiniteSet(P)
      /\ \A p, q, r \in P : <<p, q>> \in R /\ <<q, r>> \in R => <<p, r>> \in R
      /\ \A p \in P : <<p, p>> \notin R
      /\ \A p, q \in P : p = q \/ <<p, q>> \in R \/ <<q, p>> \in R
  <2> HIDE DEF R
  <2>1. QED BY <1>1, EarlierOrders
<1>4. /\ Cardinality(P) \in Nat
      /\ \A p \in P : \E i \in 1..Cardinality(P) : count(p) = i - 1
      /\ \A p, q \in P : count(p) = count(q) => p = q
      /\ \A i \in 1..Cardinality(P) : \E p \in P : count(p) = i - 1
  <2> HIDE DEF P, R, count
  <2>1. /\ Cardinality(P) \in Nat
        /\ \A p \in P : \E i \in 1..Cardinality(P) : Cardinality(Preceding(P, R, p)) = i - 1
        /\ \A p, q \in P : Cardinality(Preceding(P, R, p))
                              = Cardinality(Preceding(P, R, q)) => p = q
        /\ \A i \in 1..Cardinality(P) : \E p \in P : Cardinality(Preceding(P, R, p)) = i - 1
    BY <1>3, NumbersInOrder
  <2>2. QED BY <1>2, <2>1
<1>5. \A i : PairAt(table, order, i) = CHOOSE p \in P : count(p) = i - 1
  BY DEF PairAt
<1> HIDE DEF P, count
<1>6. ASSUME NEW i \in 1..Cardinality(P) PROVE PairAt(table, order, i) \in P
  BY <1>4, <1>5
<1>7. ASSUME NEW p \in P PROVE \E i \in 1..Cardinality(P) : PairAt(table, order, i) = p
  BY <1>4, <1>5
<1>8. QED BY <1>4, <1>6, <1>7 DEF P

----------------------------------------------------------------------------
(* The edges of a plan                                                     *)

LEMMA NamedPresent ==
    ASSUME NEW table, NEW s, NEW ref
    PROVE  Named(table, s, ref) \subseteq Present(table)
BY DEF Named, Scope, Children

LEMMA DeclaredFact ==
    ASSUME NEW table
    PROVE  /\ \A s, t : <<t, s>> \in DeclaredEdges(table) <=>
                           /\ s \in Present(table)
                           /\ \E ref \in table[s].deps : t \in Named(table, s, ref)
           /\ \A e \in DeclaredEdges(table) :
                 e = <<e[1], e[2]>> /\ e[1] \in Present(table) /\ e[2] \in Present(table)
           /\ DeclaredEdges(table) \in EdgeSets
<1>1. \A s, t : <<t, s>> \in DeclaredEdges(table) <=>
                   /\ s \in Present(table)
                   /\ \E ref \in table[s].deps : t \in Named(table, s, ref)
  BY DEF DeclaredEdges
<1>2. \A e \in DeclaredEdges(table) :
         e = <<e[1], e[2]>> /\ e[1] \in Present(table) /\ e[2] \in Present(table)
  BY NamedPresent DEF DeclaredEdges
<1>3. QED BY <1>1, <1>2 DEF EdgeSets, Present

RankedFirst(table, order, s) ==
    {t \in Ranked(table) : /\ SameFile(table, s, t) /\ SameParent(table, s, t)
                           /\ SortedBefore(table, order, s, t)}

LEMMA PriorityFact ==
    ASSUME NEW table, NEW order
    PROVE  /\ \A s, t : <<s, t>> \in PriorityEdges(table, order) <=>
                 /\ s \in Ranked(table)
                 /\ t \in RankedFirst(table, order, s)
                 /\ ~\E u \in RankedFirst(table, order, s) :
                       t \in RankedFirst(table, order, u)
           /\ \A e \in PriorityEdges(table, order) :
                 e = <<e[1], e[2]>> /\ e[1] \in Ranked(table) /\ e[2] \in Ranked(table)
           /\ PriorityEdges(table, order) \in EdgeSets
<1>1. \A s, t : <<s, t>> \in PriorityEdges(table, order) <=>
         /\ s \in Ranked(table)
         /\ t \in RankedFirst(table, order, s)
         /\ ~\E u \in RankedFirst(table, order, s) : t \in RankedFirst(table, order, u)
  BY DEF PriorityEdges, RankedFirst
<1>2. \A e \in PriorityEdges(table, order) :
         e = <<e[1], e[2]>> /\ e[1] \in Ranked(table) /\ e[2] \in Ranked(table)
  BY DEF PriorityEdges
<1>3. QED BY <1>1, <1>2 DEF EdgeSets, Ranked, Writers, Present

\* The edges from which build_edges derives the others.
BaseEdges(table, order) == DeclaredEdges(table) \cup PriorityEdges(table, order)

LEMMA BaseTyped ==
    ASSUME NEW table, NEW order
    PROVE  BaseEdges(table, order) \in EdgeSets
BY DeclaredFact, PriorityFact DEF EdgeSets, BaseEdges

LEMMA CrossTyped ==
    ASSUME NEW table, NEW order \in RowOrders(table), NEW edges \in EdgeSets,
           NEW p \in WriterPairs(table, order)
    PROVE  /\ order[p[1]] \in Ranked(table) /\ order[p[2]] \in Ranked(table)
           /\ edges \cup CrossBranchEdges(table, edges, order[p[1]], order[p[2]]) \in EdgeSets
<1>1. p[1] \in DOMAIN order /\ p[2] \in DOMAIN order
  BY DEF WriterPairs
<1>2. order[p[1]] \in Ranked(table) /\ order[p[2]] \in Ranked(table)
  BY <1>1, RowOrderFact
<1>3. order[p[1]] \in Steps /\ order[p[2]] \in Steps
  BY <1>2 DEF Ranked, Writers, Present
<1>4. QED BY <1>2, <1>3 DEF CrossBranchEdges, EdgeSets

LEMMA DerivedFact ==
    ASSUME NEW table, NEW order \in RowOrders(table)
    PROVE  LET N == Cardinality(WriterPairs(table, order))
               D == DerivedEdges(table, order)
           IN  /\ N \in Nat
               /\ D \in [0..N -> EdgeSets]
               /\ D[0] = BaseEdges(table, order)
               /\ \A i \in 1..N :
                     LET p == PairAt(table, order, i)
                     IN  D[i] = D[i - 1] \cup
                            CrossBranchEdges(table, D[i - 1], order[p[1]], order[p[2]])
               /\ BuildEdges(table, order) = D[N]
<1> DEFINE N == Cardinality(WriterPairs(table, order))
           D == DerivedEdges(table, order)
           Cross(i, edges) == CrossBranchEdges(table, edges, order[PairAt(table, order, i)[1]],
                                                             order[PairAt(table, order, i)[2]])
           step == [ie \in (1..N) \X EdgeSets |-> ie[2] \cup Cross(ie[1], ie[2])]
           Def(f) == [i \in 0..N |-> IF i = 0 THEN BaseEdges(table, order)
                                     ELSE f[i - 1] \cup Cross(i, f[i - 1])]
<1>1. N \in Nat
  BY PairsNumbered
<1>2. step \in [(1..N) \X EdgeSets -> EdgeSets]
  <2>1. ASSUME NEW i \in 1..N, NEW edges \in EdgeSets
        PROVE  edges \cup Cross(i, edges) \in EdgeSets
    <3>1. PairAt(table, order, i) \in WriterPairs(table, order)
      BY PairsNumbered
    <3>2. QED BY <3>1, CrossTyped
  <2> HIDE DEF Cross, N
  <2>2. QED BY <2>1
<1>3. PICK f \in [0..N -> EdgeSets] :
         f[0] = BaseEdges(table, order) /\ \A i \in 1..N : f[i] = step[<<i, f[i - 1]>>]
  <2>1. BaseEdges(table, order) \in EdgeSets
    BY BaseTyped
  <2> DEFINE base == BaseEdges(table, order)
             sets == EdgeSets
  <2>2. base \in sets /\ step \in [(1..N) \X sets -> sets]
    BY <1>2, <2>1
  <2> HIDE DEF N, step, base, sets
  <2>3. \E f \in [0..N -> sets] : Recurs(f, N, base, step)
    BY <1>1, <2>2, IntervalRecursion
  <2>4. QED BY <2>3 DEF base, sets, Recurs
<1>4. f = Def(f)
  <2>1. ASSUME NEW i \in 0..N, i # 0 PROVE f[i] = f[i - 1] \cup Cross(i, f[i - 1])
    <3>1. i \in 1..N /\ i - 1 \in 0..N
      BY <1>1, <2>1
    <3> HIDE DEF N, Cross
    <3>2. f[i] = step[<<i, f[i - 1]>>] /\ f[i - 1] \in EdgeSets
      BY <1>3, <3>1
    <3>3. QED BY <3>1, <3>2
  <2> HIDE DEF N, Cross
  <2>2. QED BY <1>3, <2>1
<1>5. D = CHOOSE g : g = Def(g)
  BY DEF DerivedEdges, PairAt, BaseEdges
<1>6. D = Def(D)
  <2> HIDE DEF Def, D
  <2>1. QED BY <1>4, <1>5
<1>7. D[0] = BaseEdges(table, order) /\ \A i \in 1..N : D[i] = D[i - 1] \cup Cross(i, D[i - 1])
  <2> HIDE DEF N, Cross, D
  <2>1. QED BY <1>1, <1>6
<1>8. D \in [0..N -> EdgeSets]
  <2> DEFINE Bad == {i \in 0..N : D[i] \notin EdgeSets}
  <2>1. Bad = {}
    <3>1. SUFFICES ASSUME Bad # {} PROVE FALSE
      OBVIOUS
    <3>2. PICK i \in Bad : \A m \in Bad : i <= m
      <4>1. Bad \subseteq Nat
        BY <1>1
      <4> HIDE DEF Bad
      <4>2. QED BY <3>1, <4>1, LeastNumber
    <3> HIDE DEF N, D, Cross
    <3>3. i # 0
      BY <1>7, BaseTyped
    <3>4. i \in 1..N /\ i - 1 \in 0..N /\ ~(i <= i - 1)
      BY <1>1, <3>3
    <3>5. D[i - 1] \in EdgeSets
      BY <3>2, <3>4
    <3>6. step[<<i, D[i - 1]>>] \in EdgeSets
      <4> HIDE DEF step
      <4>1. QED BY <1>2, <3>4, <3>5
    <3>7. D[i] \in EdgeSets
      BY <1>7, <3>4, <3>5, <3>6
    <3>8. QED BY <3>7
  <2>2. DOMAIN D = 0..N /\ D = [i \in 0..N |-> D[i]]
    <3> HIDE DEF D, N, Cross
    <3>1. QED BY <1>6
  <2> HIDE DEF D, N
  <2>3. QED BY <2>1, <2>2
<1>9. QED BY <1>1, <1>7, <1>8 DEF BuildEdges

\* The graph grows with every pair visited.
LEMMA DerivedGrows ==
    ASSUME NEW table, NEW order \in RowOrders(table),
           NEW i \in 0..Cardinality(WriterPairs(table, order))
    PROVE  /\ BaseEdges(table, order) \subseteq DerivedEdges(table, order)[i]
           /\ DerivedEdges(table, order)[i] \subseteq BuildEdges(table, order)
<1> DEFINE N == Cardinality(WriterPairs(table, order))
           D == DerivedEdges(table, order)
           Bad == {k \in 0..N : ~(BaseEdges(table, order) \subseteq D[k])}
           Lost == {k \in 0..N : ~(D[N - k] \subseteq D[N])}
<1>1. /\ N \in Nat
      /\ D[0] = BaseEdges(table, order)
      /\ \A k \in 1..N : D[k - 1] \subseteq D[k]
      /\ BuildEdges(table, order) = D[N]
  BY DerivedFact
<1> HIDE DEF D, N
<1>2. Bad = {}
  <2>1. SUFFICES ASSUME Bad # {} PROVE FALSE
    OBVIOUS
  <2>2. PICK k \in Bad : \A m \in Bad : k <= m
    <3>1. Bad \subseteq Nat
      BY <1>1
    <3> HIDE DEF Bad
    <3>2. QED BY <2>1, <3>1, LeastNumber
  <2>3. k \in 1..N /\ k - 1 \in 0..N /\ ~(k <= k - 1)
    BY <1>1
  <2>4. QED BY <1>1, <2>2, <2>3
<1>3. Lost = {}
  <2>1. SUFFICES ASSUME Lost # {} PROVE FALSE
    OBVIOUS
  <2>2. PICK k \in Lost : \A m \in Lost : k <= m
    <3>1. Lost \subseteq Nat
      BY <1>1
    <3> HIDE DEF Lost
    <3>2. QED BY <2>1, <3>1, LeastNumber
  <2>3. k # 0
    BY <1>1
  <2>4. k - 1 \in 0..N /\ ~(k <= k - 1) /\ N - k + 1 \in 1..N
        /\ N - (k - 1) = N - k + 1 /\ (N - k + 1) - 1 = N - k
    BY <1>1, <2>3
  <2>5. D[N - k] \subseteq D[N - k + 1]
    BY <1>1, <2>4
  <2>6. D[N - (k - 1)] \subseteq D[N]
    BY <2>2, <2>4
  <2>7. QED BY <2>2, <2>4, <2>5, <2>6
<1>4. i \in 0..N /\ N - i \in 0..N /\ N - (N - i) = i
  BY <1>1 DEF N
<1>5. BaseEdges(table, order) \subseteq D[i]
  BY <1>2, <1>4
<1>6. D[i] \subseteq D[N]
  BY <1>3, <1>4
<1>7. QED BY <1>1, <1>5, <1>6 DEF D

LEMMA CrossKeepsOrder ==
    ASSUME NEW table, NEW edges \in EdgeSets, NEW s \in Steps, NEW t \in Steps,
           HasCycle(edges \cup CrossBranchEdges(table, edges, s, t))
    PROVE  HasCycle(edges)
<1>1. CASE SameParent(table, s, t) \/ t \in Reached(edges, s) \/ s \in Reached(edges, t)
  <2>1. edges \cup CrossBranchEdges(table, edges, s, t) = edges
    BY <1>1 DEF CrossBranchEdges
  <2>2. QED BY <2>1
<1>2. CASE ~(SameParent(table, s, t) \/ t \in Reached(edges, s) \/ s \in Reached(edges, t))
  <2>1. s # t
    BY <1>2 DEF SameParent
  <2>2. CrossBranchEdges(table, edges, s, t) \in {{}, {<<s, t>>}, {<<t, s>>}}
    BY <1>2 DEF CrossBranchEdges, BranchBefore
  <2>3. CASE CrossBranchEdges(table, edges, s, t) = {}
    BY <2>3
  <2>4. CASE CrossBranchEdges(table, edges, s, t) = {<<s, t>>}
    BY <1>2, <2>1, <2>4, EdgeKeepsOrder
  <2>5. CASE CrossBranchEdges(table, edges, s, t) = {<<t, s>>}
    BY <1>2, <2>1, <2>5, EdgeKeepsOrder
  <2>6. QED BY <2>2, <2>3, <2>4, <2>5
<1>3. QED BY <1>1, <1>2

LEMMA BuildTyped ==
    ASSUME NEW table, NEW order \in RowOrders(table)
    PROVE  BuildEdges(table, order) \in EdgeSets
<1> DEFINE N == Cardinality(WriterPairs(table, order))
<1>1. N \in Nat /\ DerivedEdges(table, order) \in [0..N -> EdgeSets]
      /\ BuildEdges(table, order) = DerivedEdges(table, order)[N]
  BY DerivedFact
<1> HIDE DEF N
<1>2. QED BY <1>1

\* What is derived closes no cycle.
LEMMA DerivedKeepsOrder ==
    ASSUME NEW table, NEW order \in RowOrders(table)
    PROVE  HasCycle(BuildEdges(table, order)) <=> HasCycle(BaseEdges(table, order))
<1> DEFINE N == Cardinality(WriterPairs(table, order))
           D == DerivedEdges(table, order)
           pair(i) == PairAt(table, order, i)
           Bad == {k \in 0..N : HasCycle(D[k])}
<1>1. /\ N \in Nat
      /\ D \in [0..N -> EdgeSets]
      /\ D[0] = BaseEdges(table, order)
      /\ \A i \in 1..N : D[i] = D[i - 1] \cup
            CrossBranchEdges(table, D[i - 1], order[pair(i)[1]], order[pair(i)[2]])
      /\ BuildEdges(table, order) = D[N]
  BY DerivedFact
<1>2. \A i \in 1..N : order[pair(i)[1]] \in Steps /\ order[pair(i)[2]] \in Steps
  <2>1. \A i \in 1..N : pair(i) \in WriterPairs(table, order)
    BY PairsNumbered
  <2>2. \A p \in WriterPairs(table, order) :
           order[p[1]] \in Ranked(table) /\ order[p[2]] \in Ranked(table)
    BY CrossTyped, BaseTyped
  <2>3. QED BY <2>1, <2>2 DEF Ranked, Writers, Present
<1>3. BaseEdges(table, order) \subseteq BuildEdges(table, order)
  <2>1. 0 \in 0..N
    BY <1>1
  <2>2. QED BY <2>1, DerivedGrows
<1>4. ASSUME HasCycle(BaseEdges(table, order)) PROVE HasCycle(BuildEdges(table, order))
  BY <1>3, <1>4, BaseTyped, BuildTyped, CycleGrows
<1> HIDE DEF D, N, pair
<1>5. ASSUME HasCycle(BuildEdges(table, order)) PROVE HasCycle(BaseEdges(table, order))
  <2>1. N \in Bad /\ Bad \subseteq Nat
    BY <1>1, <1>5
  <2>2. PICK k \in Bad : \A m \in Bad : k <= m
    <3> HIDE DEF Bad
    <3>1. QED BY <2>1, LeastNumber
  <2>3. CASE k = 0
    BY <1>1, <2>2, <2>3
  <2>4. CASE k # 0
    <3>1. k \in 1..N /\ k - 1 \in 0..N /\ ~(k <= k - 1)
      BY <1>1, <2>4
    <3>2. D[k - 1] \in EdgeSets /\ ~HasCycle(D[k - 1])
      BY <1>1, <2>2, <3>1
    <3>3. HasCycle(D[k - 1] \cup
             CrossBranchEdges(table, D[k - 1], order[pair(k)[1]], order[pair(k)[2]]))
      BY <1>1, <2>2, <3>1
    <3>4. QED BY <1>2, <3>1, <3>2, <3>3, CrossKeepsOrder
  <2>5. QED BY <2>3, <2>4
<1>6. QED BY <1>4, <1>5

\* Where priorities tell the writers apart, the order of the rows does not
\* matter to the edges between the writers under one parent.
LEMMA PriorityTyped ==
    ASSUME NEW table, NEW s \in Ranked(table)
    PROVE  Priority(table, s) \in Int
BY TargetAssumption DEF Ranked, Writers, Priority

LEMMA SortedByPriority ==
    ASSUME NEW table, PrioritiesUnique(table), NEW order \in RowOrders(table),
           NEW s \in Ranked(table)
    PROVE  RankedFirst(table, order, s) =
              {t \in Ranked(table) : /\ SameFile(table, s, t) /\ SameParent(table, s, t)
                                     /\ Priority(table, s) < Priority(table, t)}
<1>1. ASSUME NEW t \in Ranked(table), SameFile(table, s, t), SameParent(table, s, t)
      PROVE  SortedBefore(table, order, s, t) <=> Priority(table, s) < Priority(table, t)
  <2>1. CASE s = t
    <3>1. ~\E i, j \in DOMAIN order : i < j /\ order[i] = s /\ order[j] = t
      BY <2>1, RowOrderFact
    <3>2. ~(Priority(table, s) < Priority(table, t))
      BY <2>1, PriorityTyped
    <3>3. QED BY <3>1, <3>2 DEF SortedBefore
  <2>2. CASE s # t
    BY <1>1, <2>2 DEF PrioritiesUnique, SortedBefore
  <2>3. QED BY <2>1, <2>2
<1>2. QED BY <1>1 DEF RankedFirst

LEMMA PrioritiesOrderFree ==
    ASSUME NEW table, PrioritiesUnique(table),
           NEW o \in RowOrders(table), NEW p \in RowOrders(table)
    PROVE  BaseEdges(table, o) = BaseEdges(table, p)
<1>1. \A s \in Ranked(table) : RankedFirst(table, o, s) = RankedFirst(table, p, s)
  BY SortedByPriority
<1>2. \A s, t : <<s, t>> \in PriorityEdges(table, o) <=> <<s, t>> \in PriorityEdges(table, p)
  <2>1. \A s : RankedFirst(table, o, s) \subseteq Ranked(table)
    BY DEF RankedFirst
  <2>2. ASSUME NEW s \in Ranked(table), NEW t
        PROVE  <<s, t>> \in PriorityEdges(table, o) <=> <<s, t>> \in PriorityEdges(table, p)
    <3>1. RankedFirst(table, o, s) = RankedFirst(table, p, s)
      BY <1>1
    <3>2. \A u \in RankedFirst(table, o, s) :
             RankedFirst(table, o, u) = RankedFirst(table, p, u)
      BY <1>1, <2>1
    <3>3. /\ <<s, t>> \in PriorityEdges(table, o) <=>
                /\ t \in RankedFirst(table, o, s)
                /\ ~\E u \in RankedFirst(table, o, s) : t \in RankedFirst(table, o, u)
          /\ <<s, t>> \in PriorityEdges(table, p) <=>
                /\ t \in RankedFirst(table, p, s)
                /\ ~\E u \in RankedFirst(table, p, s) : t \in RankedFirst(table, p, u)
      BY PriorityFact
    <3>4. QED BY <3>1, <3>2, <3>3
  <2>3. \A s, t : s \notin Ranked(table) =>
           /\ <<s, t>> \notin PriorityEdges(table, o)
           /\ <<s, t>> \notin PriorityEdges(table, p)
    BY PriorityFact
  <2>4. QED BY <2>2, <2>3
<1>3. PriorityEdges(table, o) = PriorityEdges(table, p)
  <2>1. ASSUME NEW e \in PriorityEdges(table, o) PROVE e \in PriorityEdges(table, p)
    <3>1. e = <<e[1], e[2]>>
      BY PriorityFact
    <3>2. QED BY <1>2, <3>1
  <2>2. ASSUME NEW e \in PriorityEdges(table, p) PROVE e \in PriorityEdges(table, o)
    <3>1. e = <<e[1], e[2]>>
      BY PriorityFact
    <3>2. QED BY <1>2, <3>1
  <2>3. QED BY <2>1, <2>2
<1>4. QED BY <1>3 DEF BaseEdges

\* Either every order of the rows leads to a cycle or none does.
LEMMA CyclesOrderFree ==
    ASSUME NEW table, PrioritiesUnique(table),
           NEW o \in RowOrders(table), NEW p \in RowOrders(table)
    PROVE  HasCycle(BuildEdges(table, o)) <=> HasCycle(BuildEdges(table, p))
BY DerivedKeepsOrder, PrioritiesOrderFree

----------------------------------------------------------------------------
(* The order of the branches                                               *)

Atoms == {s \in Steps : LevelOf[s] = AtomicLevel}

\* Edges of a plan, with whatever has been derived so far.
Extends(table, edges) ==
    /\ edges \in EdgeSets
    /\ DeclaredEdges(table) \subseteq edges
    /\ \A e \in edges \ DeclaredEdges(table) : e[1] \in Ranked(table) /\ e[2] \in Ranked(table)

LEMMA RankedAtoms ==
    ASSUME NEW table
    PROVE  /\ Ranked(table) \subseteq Atoms
           /\ Ranked(table) \subseteq Present(table)
BY DEF Ranked, Writers, Atoms, Present

\* An edge joins two atomic steps or two others.
LEMMA EdgesJoinLevels ==
    ASSUME NEW table \in Tables, PathsOfAtoms(table), NEW edges, Extends(table, edges)
    PROVE  /\ \A e \in edges : e[1] \in Atoms <=> e[2] \in Atoms
           /\ \A e \in edges : e[1] \notin Atoms => e \in DeclaredEdges(table)
<1>1. ASSUME NEW e \in DeclaredEdges(table) PROVE e[1] \in Atoms <=> e[2] \in Atoms
  <2>1. <<e[1], e[2]>> \in DeclaredEdges(table) /\ e[1] \in Present(table)
    BY DeclaredFact
  <2>2. PICK ref \in table[e[2]].deps : e[1] \in Named(table, e[2], ref)
    BY <2>1, DeclaredFact
  <2>3. e[2] \in Present(table) /\ e[2] \in Steps /\ e[1] \in Steps
    BY <2>1, DeclaredFact DEF Present
  <2>4. ref \in Refs
    BY <2>2, <2>3, PresentFact DEF StepRow
  <2>5. CASE Len(ref) = 1
    BY <2>2, <2>3, <2>5 DEF Named, Scope, Atoms
  <2>6. CASE Len(ref) # 1
    <3>1. ref \in PathRefs
      BY <2>4, <2>6 DEF Refs, SiblingRefs
    <3>2. LevelOf[e[2]] = AtomicLevel
      BY <2>2, <2>3, <3>1 DEF PathsOfAtoms
    <3>3. LevelOf[e[1]] = AtomicLevel
      BY <2>2, <2>6 DEF Named
    <3>4. QED BY <2>3, <3>2, <3>3 DEF Atoms
  <2>7. QED BY <2>5, <2>6
<1>2. QED BY <1>1, RankedAtoms DEF Extends

\* From an atomic step only atomic steps are reached; from another one only
\* others, and by declared edges.
LEMMA ReachedOnLevel ==
    ASSUME NEW table \in Tables, PathsOfAtoms(table), NEW edges, Extends(table, edges), NEW s
    PROVE  /\ s \in Atoms => Reached(edges, s) \subseteq Atoms
           /\ s \notin Atoms => /\ Reached(edges, s) \cap Atoms = {}
                                /\ Reached(edges, s) = Reached(DeclaredEdges(table), s)
<1>1. edges \in EdgeSets /\ DeclaredEdges(table) \in EdgeSets
      /\ DeclaredEdges(table) \subseteq edges
  BY DeclaredFact DEF Extends
<1>2. /\ \A e \in edges : e[1] \in Atoms <=> e[2] \in Atoms
      /\ \A e \in edges : e[1] \notin Atoms => e \in DeclaredEdges(table)
  BY EdgesJoinLevels
<1>3. ASSUME s \in Atoms PROVE Reached(edges, s) \subseteq Atoms
  <2>1. Onward(edges, {s}) \subseteq Atoms /\ Closed(edges, Atoms)
    BY <1>2, <1>3 DEF Onward, Closed
  <2>2. QED BY <1>1, <2>1, ReachedFact
<1>4. ASSUME s \notin Atoms
      PROVE  /\ Reached(edges, s) \cap Atoms = {}
             /\ Reached(edges, s) = Reached(DeclaredEdges(table), s)
  <2> DEFINE R == Reached(DeclaredEdges(table), s)
  <2>1. R \cap Atoms = {}
    <3> DEFINE others == {e[2] : e \in DeclaredEdges(table)} \ Atoms
    <3>1. Onward(DeclaredEdges(table), {s}) \subseteq others /\ Closed(DeclaredEdges(table), others)
      BY <1>1, <1>2, <1>4 DEF Onward, Closed
    <3>2. R \subseteq others
      BY <1>1, <3>1, ReachedFact
    <3>3. QED BY <3>2
  <2>2. Onward(edges, {s}) \subseteq R
    <3>1. Onward(edges, {s}) \subseteq Onward(DeclaredEdges(table), {s})
      BY <1>2, <1>4 DEF Onward
    <3>2. QED BY <1>1, <3>1, ReachedFact
  <2>3. Closed(edges, R)
    <3>1. Onward(edges, R) \subseteq Onward(DeclaredEdges(table), R)
      BY <1>2, <2>1 DEF Onward
    <3>2. QED BY <1>1, <3>1, ReachedFact DEF Closed
  <2>4. Reached(edges, s) \subseteq R
    BY <1>1, <2>2, <2>3, ReachedFact
  <2>5. R \subseteq Reached(edges, s)
    BY <1>1, ReachedGrows
  <2>6. QED BY <2>1, <2>4, <2>5
<1>5. QED BY <1>3, <1>4

Above(table, s) == Branch(table, s) \ {s}

LEMMA AboveFact ==
    ASSUME NEW table, LevelsFit(table), NEW s \in Present(table)
    PROVE  /\ Above(table, s) \cap Atoms = {}
           /\ Branch(table, s) = {s} \cup Above(table, s)
<1>1. s \in Branch(table, s)
  BY DEF Branch
<1>2. ASSUME NEW a \in Present(table), NEW p \in Present(table), p = table[a].parent
      PROVE  LevelOf[p] = LevelOf[a] - 1 /\ LevelOf[p] \in Int /\ LevelOf[a] \in Levels
  <2>1. a \in Steps /\ p \in Steps /\ p # NoParent
    BY StepsAssumption DEF Present
  <2>2. LevelOf[a] \in Levels /\ LevelOf[p] \in Levels
    BY <2>1, LevelOfAssumption
  <2>3. LevelOf[p] = LevelOf[a] - 1
    BY <1>2, <2>1 DEF LevelsFit
  <2>4. QED BY <2>2, <2>3 DEF Levels, GlobalLevel, TacticalLevel, AtomicLevel
<1>3. ASSUME NEW a \in Above(table, s) PROVE a \notin Atoms
  <2>1. \/ a = table[s].parent /\ a \in Present(table)
        \/ \E p \in {s, table[s].parent} \cap Present(table) :
              a = table[p].parent /\ a \in Present(table)
    BY DEF Above, Branch
  <2>2. \E p \in Present(table) : a = table[p].parent /\ a \in Present(table)
    BY <2>1
  <2>3. PICK p \in Present(table) : a = table[p].parent /\ a \in Present(table)
    BY <2>2
  <2>4. LevelOf[a] = LevelOf[p] - 1 /\ LevelOf[p] \in Levels
    BY <1>2, <2>3
  <2>5. QED BY <2>4 DEF Atoms, Levels, GlobalLevel, TacticalLevel, AtomicLevel
<1>4. QED BY <1>1, <1>3 DEF Above

\* Whatever has been derived, the steps above two writers are in the order
\* that is declared; and as long as the writers are not ordered themselves,
\* this is the order of their branches.
LEMMA BranchOrderDeclared ==
    ASSUME NEW table \in Tables, LevelsFit(table), PathsOfAtoms(table),
           NEW edges, Extends(table, edges),
           NEW s \in Ranked(table), NEW t \in Ranked(table)
    PROVE  /\ Leads(edges, Above(table, s), Above(table, t))
                 <=> Leads(DeclaredEdges(table), Above(table, s), Above(table, t))
           /\ s # t /\ t \notin Reached(edges, s) =>
                 (Leads(edges, Branch(table, s), Branch(table, t))
                     <=> Leads(DeclaredEdges(table), Above(table, s), Above(table, t)))
<1>1. s \in Atoms /\ t \in Atoms /\ s \in Present(table) /\ t \in Present(table)
  BY RankedAtoms
<1>2. /\ Above(table, s) \cap Atoms = {} /\ Branch(table, s) = {s} \cup Above(table, s)
      /\ Above(table, t) \cap Atoms = {} /\ Branch(table, t) = {t} \cup Above(table, t)
  BY <1>1, AboveFact
<1>3. /\ Reached(edges, s) \subseteq Atoms
      /\ \A a \in Above(table, s) : /\ Reached(edges, a) \cap Atoms = {}
                                    /\ Reached(edges, a) = Reached(DeclaredEdges(table), a)
  BY <1>1, <1>2, ReachedOnLevel
<1>4. Leads(edges, Above(table, s), Above(table, t))
         <=> Leads(DeclaredEdges(table), Above(table, s), Above(table, t))
  BY <1>3 DEF Leads
<1>5. ASSUME s # t, t \notin Reached(edges, s)
      PROVE  Leads(edges, Branch(table, s), Branch(table, t))
                <=> Leads(edges, Above(table, s), Above(table, t))
  <2>1. Reached(edges, s) \cap (Branch(table, t) \ {s}) = {}
    BY <1>2, <1>3, <1>5
  <2>2. \A a \in Above(table, s) :
           Reached(edges, a) \cap (Branch(table, t) \ {a})
              = Reached(edges, a) \cap (Above(table, t) \ {a})
    BY <1>1, <1>2, <1>3
  <2>3. QED BY <1>2, <2>1, <2>2 DEF Leads
<1>6. QED BY <1>4, <1>5

\* The steps above s are declared to come before those above t.
Directed(table, s, t) ==
    /\ Leads(DeclaredEdges(table), Above(table, s), Above(table, t))
    /\ ~Leads(DeclaredEdges(table), Above(table, t), Above(table, s))

LEMMA BranchFirstIsDirected ==
    ASSUME NEW table \in Tables, LevelsFit(table), PathsOfAtoms(table),
           NEW edges, Extends(table, edges),
           NEW s \in Ranked(table), NEW t \in Ranked(table)
    PROVE  BranchFirst(table, edges, s, t) <=> Directed(table, s, t)
BY BranchOrderDeclared DEF BranchFirst, Directed, Above

LEMMA CrossIsDirected ==
    ASSUME NEW table \in Tables, LevelsFit(table), PathsOfAtoms(table),
           NEW edges, Extends(table, edges),
           NEW s \in Ranked(table), NEW t \in Ranked(table), s # t,
           ~SameParent(table, s, t), t \notin Reached(edges, s), s \notin Reached(edges, t)
    PROVE  CrossBranchEdges(table, edges, s, t) =
              {e \in {<<s, t>>, <<t, s>>} : Directed(table, e[1], e[2])}
<1>1. BranchBefore(table, edges, s, t) <=> Directed(table, s, t)
  BY BranchOrderDeclared DEF BranchBefore, Directed
<1>2. BranchBefore(table, edges, t, s) <=> Directed(table, t, s)
  BY BranchOrderDeclared DEF BranchBefore, Directed
<1>3. CrossBranchEdges(table, edges, s, t) =
         {e \in {<<s, t>>, <<t, s>>} : BranchBefore(table, edges, e[1], e[2])}
  BY DEF CrossBranchEdges
<1>4. QED BY <1>1, <1>2, <1>3

\* Writers of one file that are declared to be in this order by their branches.
DirectedWriters(table, s, t) ==
    /\ s \in Ranked(table) /\ t \in Ranked(table)
    /\ SameFile(table, s, t)
    /\ Directed(table, s, t)

LEMMA WriterPairFact ==
    ASSUME NEW table, NEW order \in RowOrders(table), NEW p \in WriterPairs(table, order)
    PROVE  /\ order[p[1]] \in Ranked(table) /\ order[p[2]] \in Ranked(table)
           /\ order[p[1]] # order[p[2]]
           /\ SameFile(table, order[p[1]], order[p[2]])
<1>1. p[1] \in DOMAIN order /\ p[2] \in DOMAIN order /\ p[1] < p[2]
      /\ SameFile(table, order[p[1]], order[p[2]])
  BY DEF WriterPairs
<1>2. p[1] # p[2]
  BY <1>1, RowOrderFact
<1>3. QED BY <1>1, <1>2, RowOrderFact

\* Every edge that is derived follows the declared order of two branches.
LEMMA DerivedAreDirected ==
    ASSUME NEW table \in Tables, LevelsFit(table), PathsOfAtoms(table),
           NEW order \in RowOrders(table),
           NEW i \in 0..Cardinality(WriterPairs(table, order))
    PROVE  /\ Extends(table, DerivedEdges(table, order)[i])
           /\ \A e \in DerivedEdges(table, order)[i] \ BaseEdges(table, order) :
                 DirectedWriters(table, e[1], e[2])
<1> DEFINE N == Cardinality(WriterPairs(table, order))
           D == DerivedEdges(table, order)
           base == BaseEdges(table, order)
           s(k) == order[PairAt(table, order, k)[1]]
           t(k) == order[PairAt(table, order, k)[2]]
           Sound(edges) == /\ Extends(table, edges)
                           /\ \A e \in edges \ base : DirectedWriters(table, e[1], e[2])
           Bad == {k \in 0..N : ~Sound(D[k])}
<1>1. /\ N \in Nat
      /\ D \in [0..N -> EdgeSets]
      /\ D[0] = base
      /\ \A k \in 1..N : D[k] = D[k - 1] \cup CrossBranchEdges(table, D[k - 1], s(k), t(k))
  BY DerivedFact
<1>2. \A k \in 1..N : /\ s(k) \in Ranked(table) /\ t(k) \in Ranked(table)
                      /\ s(k) # t(k) /\ SameFile(table, s(k), t(k))
  <2>1. \A k \in 1..N : PairAt(table, order, k) \in WriterPairs(table, order)
    BY PairsNumbered
  <2>2. QED BY <2>1, WriterPairFact
<1>3. Extends(table, base)
  BY BaseTyped, PriorityFact DEF Extends, BaseEdges
<1> HIDE DEF N, D, s, t, base
<1>4. ASSUME NEW k \in 1..N, Sound(D[k - 1]), D[k - 1] \in EdgeSets, D[k] \in EdgeSets
      PROVE  Sound(D[k])
  <2> DEFINE new == CrossBranchEdges(table, D[k - 1], s(k), t(k))
  <2>1. \A e \in new : DirectedWriters(table, e[1], e[2])
    <3>1. CASE \/ SameParent(table, s(k), t(k))
               \/ t(k) \in Reached(D[k - 1], s(k)) \/ s(k) \in Reached(D[k - 1], t(k))
      BY <3>1 DEF CrossBranchEdges
    <3>2. CASE ~(\/ SameParent(table, s(k), t(k))
                 \/ t(k) \in Reached(D[k - 1], s(k)) \/ s(k) \in Reached(D[k - 1], t(k)))
      <4>1. new = {e \in {<<s(k), t(k)>>, <<t(k), s(k)>>} : Directed(table, e[1], e[2])}
        BY <1>2, <1>4, <3>2, CrossIsDirected
      <4>2. QED BY <1>2, <4>1 DEF DirectedWriters, SameFile
    <3>3. QED BY <3>1, <3>2
  <2>2. D[k] = D[k - 1] \cup new
    BY <1>1
  <2> HIDE DEF new
  <2>3. Extends(table, D[k])
    BY <1>4, <2>1, <2>2 DEF Extends, DirectedWriters
  <2>4. QED BY <1>4, <2>1, <2>2, <2>3
<1>5. Bad = {}
  <2>1. SUFFICES ASSUME Bad # {} PROVE FALSE
    OBVIOUS
  <2>2. PICK k \in Bad : \A m \in Bad : k <= m
    <3>1. Bad \subseteq Nat
      BY <1>1
    <3> HIDE DEF Bad
    <3>2. QED BY <2>1, <3>1, LeastNumber
  <2> HIDE DEF Sound
  <2>3. k # 0
    BY <1>1, <1>3 DEF Sound
  <2>4. k \in 1..N /\ k - 1 \in 0..N /\ ~(k <= k - 1)
    BY <1>1, <2>3
  <2>5. Sound(D[k - 1]) /\ D[k - 1] \in EdgeSets /\ D[k] \in EdgeSets
    BY <1>1, <2>2, <2>4
  <2>6. QED BY <1>4, <2>4, <2>5
<1>6. Sound(D[i])
  BY <1>5 DEF N
<1>7. QED BY <1>6 DEF D, base

\* Writers whose branches are declared to be in an order are ordered.
LEMMA DirectedAreOrdered ==
    ASSUME NEW table \in Tables, LevelsFit(table), PathsOfAtoms(table),
           NEW order \in RowOrders(table), NEW a, NEW b, DirectedWriters(table, a, b)
    PROVE  \/ b \in Reached(BuildEdges(table, order), a)
           \/ a \in Reached(BuildEdges(table, order), b)
<1> DEFINE N == Cardinality(WriterPairs(table, order))
           D == DerivedEdges(table, order)
           G == BuildEdges(table, order)
<1>1. ~SameParent(table, a, b) /\ a # b
  <2>1. a = b => FALSE
    BY DEF DirectedWriters, Directed
  <2>2. ASSUME SameParent(table, a, b) PROVE Above(table, a) = Above(table, b)
    <3>1. a \in Present(table) /\ b \in Present(table)
      BY RankedAtoms DEF DirectedWriters
    <3>2. a \in Atoms /\ b \in Atoms
      BY RankedAtoms DEF DirectedWriters
    <3>3. /\ Above(table, a) \cap Atoms = {} /\ Above(table, b) \cap Atoms = {}
          /\ Branch(table, a) = {a} \cup Above(table, a)
          /\ Branch(table, b) = {b} \cup Above(table, b)
      BY <3>1, AboveFact
    <3>4. /\ Branch(table, a) = {a} \cup (({table[a].parent} \cup
                                    {table[x].parent : x \in {table[a].parent} \cap Present(table)})
                                 \cap Present(table))
          /\ Branch(table, b) = {b} \cup (({table[b].parent} \cup
                                    {table[x].parent : x \in {table[b].parent} \cap Present(table)})
                                 \cap Present(table))
      BY <3>1 DEF Branch
    <3>5. table[a].parent = table[b].parent
      BY <2>2 DEF SameParent
    <3>6. Above(table, a) = Branch(table, a) \ Atoms /\ Above(table, b) = Branch(table, b) \ Atoms
      BY <3>2, <3>3
    <3>7. QED BY <3>2, <3>4, <3>5, <3>6
  <2>3. QED BY <2>1, <2>2 DEF DirectedWriters, Directed
<1>2. PICK p \in WriterPairs(table, order) :
         {order[p[1]], order[p[2]]} = {a, b}
  <2>1. PICK i \in DOMAIN order, j \in DOMAIN order : order[i] = a /\ order[j] = b
    BY RowOrderFact DEF DirectedWriters
  <2>2. i \in Nat /\ j \in Nat /\ i # j
    BY <1>1, <2>1, RowOrderFact
  <2>3. CASE i < j
    <3>1. <<i, j>> \in WriterPairs(table, order)
      BY <2>1, <2>3 DEF WriterPairs, DirectedWriters
    <3>2. QED BY <2>1, <3>1
  <2>4. CASE j < i
    <3>1. <<j, i>> \in WriterPairs(table, order)
      BY <2>1, <2>4 DEF WriterPairs, DirectedWriters, SameFile
    <3>2. QED BY <2>1, <3>1
  <2>5. QED BY <2>2, <2>3, <2>4
<1>3. PICK k \in 1..N : PairAt(table, order, k) = p
  BY PairsNumbered
<1> DEFINE edges == D[k - 1]
           s == order[p[1]]
           t == order[p[2]]
<1>4. /\ N \in Nat /\ D \in [0..N -> EdgeSets]
      /\ D[k] = edges \cup CrossBranchEdges(table, edges, s, t)
  BY <1>3, DerivedFact
<1>5. k \in 0..N /\ k - 1 \in 0..N
  BY <1>4
<1>6. Extends(table, edges) /\ edges \subseteq G /\ D[k] \subseteq G
  BY <1>5, DerivedAreDirected, DerivedGrows
<1>7. edges \in EdgeSets /\ G \in EdgeSets
  BY <1>6, BuildTyped DEF Extends
<1>8. s \in Ranked(table) /\ t \in Ranked(table) /\ s # t /\ ~SameParent(table, s, t)
  BY <1>1, <1>2, WriterPairFact DEF SameParent
<1> HIDE DEF edges, s, t, D, G, N
<1>9. CASE t \in Reached(edges, s) \/ s \in Reached(edges, t)
  <2>1. t \in Reached(G, s) \/ s \in Reached(G, t)
    BY <1>6, <1>7, <1>9, ReachedGrows
  <2>2. QED BY <1>2, <2>1 DEF s, t, G
<1>10. CASE ~(t \in Reached(edges, s) \/ s \in Reached(edges, t))
  <2>1. CrossBranchEdges(table, edges, s, t) =
           {e \in {<<s, t>>, <<t, s>>} : Directed(table, e[1], e[2])}
    BY <1>6, <1>8, <1>10, CrossIsDirected
  <2>2. <<a, b>> \in {<<s, t>>, <<t, s>>} /\ Directed(table, a, b)
    BY <1>2, <1>8 DEF s, t, DirectedWriters
  <2>3. <<a, b>> \in CrossBranchEdges(table, edges, s, t)
    BY <2>1, <2>2
  <2>4. <<a, b>> \in G
    BY <1>4, <1>6, <2>3
  <2>5. QED BY <1>7, <2>4, ReachedSteps DEF G
<1>11. QED BY <1>9, <1>10

----------------------------------------------------------------------------
(* The verdicts                                                            *)

\* If one graph respects the order of the branches, every path of another is
\* a path of it.
LEMMA PathsAgree ==
    ASSUME NEW table \in Tables, LevelsFit(table), PathsOfAtoms(table),
           PrioritiesUnique(table),
           NEW o \in RowOrders(table), NEW p \in RowOrders(table),
           BranchesRespected(table, BuildEdges(table, o)), NEW x
    PROVE  Reached(BuildEdges(table, p), x) \subseteq Reached(BuildEdges(table, o), x)
<1> DEFINE G == BuildEdges(table, o)
           H == BuildEdges(table, p)
<1>1. G \in EdgeSets /\ H \in EdgeSets
  BY BuildTyped
<1>2. Extends(table, G) /\ BaseEdges(table, o) \subseteq G
  <2>1. Cardinality(WriterPairs(table, o)) \in 0..Cardinality(WriterPairs(table, o))
    BY PairsNumbered
  <2>2. QED BY <2>1, DerivedAreDirected, DerivedGrows DEF BuildEdges
<1>3. ASSUME NEW e \in H PROVE e[2] \in Reached(G, e[1])
  <2>1. CASE e \in BaseEdges(table, p)
    <3>1. e \in G /\ e = <<e[1], e[2]>>
      BY <1>1, <1>2, <2>1, PrioritiesOrderFree DEF EdgeSets
    <3>2. QED BY <1>1, <3>1, ReachedSteps
  <2>2. CASE e \notin BaseEdges(table, p)
    <3>1. DirectedWriters(table, e[1], e[2])
      <4>1. Cardinality(WriterPairs(table, p)) \in 0..Cardinality(WriterPairs(table, p))
        BY PairsNumbered
      <4>2. QED BY <2>2, <4>1, DerivedAreDirected DEF BuildEdges
    <3>2. e[2] \in Reached(G, e[1]) \/ e[1] \in Reached(G, e[2])
      BY <3>1, DirectedAreOrdered
    <3>3. e[1] \notin Reached(G, e[2])
      BY <1>2, <3>1, BranchFirstIsDirected DEF BranchesRespected, DirectedWriters
    <3>4. QED BY <3>2, <3>3
  <2>3. QED BY <2>1, <2>2
<1> HIDE DEF G, H
<1>4. Reached(H, x) \subseteq Reached(G, x)
  BY <1>1, <1>3, ReachedWithin
<1>5. QED BY <1>4 DEF G, H

LEMMA RespectAgrees ==
    ASSUME NEW table \in Tables, LevelsFit(table), PathsOfAtoms(table),
           PrioritiesUnique(table),
           NEW o \in RowOrders(table), NEW p \in RowOrders(table),
           BranchesRespected(table, BuildEdges(table, o))
    PROVE  BranchesRespected(table, BuildEdges(table, p))
<1>1. Extends(table, BuildEdges(table, o)) /\ Extends(table, BuildEdges(table, p))
  <2>1. /\ Cardinality(WriterPairs(table, o)) \in 0..Cardinality(WriterPairs(table, o))
        /\ Cardinality(WriterPairs(table, p)) \in 0..Cardinality(WriterPairs(table, p))
    BY PairsNumbered
  <2>2. QED BY <2>1, DerivedAreDirected DEF BuildEdges
<1>2. ASSUME NEW s \in Ranked(table), NEW t \in Ranked(table), SameFile(table, s, t),
             BranchFirst(table, BuildEdges(table, p), s, t)
      PROVE  s \notin Reached(BuildEdges(table, p), t)
  <2>1. BranchFirst(table, BuildEdges(table, o), s, t)
    BY <1>1, <1>2, BranchFirstIsDirected
  <2>2. s \notin Reached(BuildEdges(table, o), t)
    BY <1>2, <2>1 DEF BranchesRespected
  <2>3. QED BY <2>2, PathsAgree
<1>3. QED BY <1>2 DEF BranchesRespected

LEMMA VerdictsOrderFree ==
    ASSUME Inv, TreeInv PROVE VerdictsAgree
<1>1. rows \in Tables /\ LevelsFit(rows)
  BY DEF Inv, StoreInv, TypeOK, TreeInv
<1>2. ASSUME PrioritiesUnique(rows), NEW g \in Graphs, NEW h \in Graphs
      PROVE  /\ HasCycle(g) <=> HasCycle(h)
             /\ PathsOfAtoms(rows) /\ BranchesRespected(rows, g)
                => Conflicts(rows, g) = Conflicts(rows, h)
  <2>1. PICK o \in RowOrders(rows), p \in RowOrders(rows) :
           g = BuildEdges(rows, o) /\ h = BuildEdges(rows, p)
    BY DEF Graphs
  <2>2. HasCycle(g) <=> HasCycle(h)
    BY <1>2, <2>1, CyclesOrderFree
  <2>3. ASSUME PathsOfAtoms(rows), BranchesRespected(rows, g)
        PROVE  Conflicts(rows, g) = Conflicts(rows, h)
    <3>1. BranchesRespected(rows, h)
      BY <1>1, <1>2, <2>1, <2>3, RespectAgrees
    <3>2. \A x : Reached(h, x) \subseteq Reached(g, x)
      BY <1>1, <1>2, <2>1, <2>3, PathsAgree
    <3>3. \A x : Reached(g, x) \subseteq Reached(h, x)
      BY <1>1, <1>2, <2>1, <2>3, <3>1, PathsAgree
    <3>4. \A x : Reached(g, x) = Reached(h, x)
      BY <3>2, <3>3
    <3>5. QED BY <3>4 DEF Conflicts
  <2>4. QED BY <2>2, <2>3
<1>3. QED BY <1>2 DEF VerdictsAgree

\* The order in which the database returns the rows decides neither whether
\* the execution graph has a cycle nor which writers of one file it leaves
\* ambiguous, unless writers are ordered against their branches (build_edges
\* reads the rows without ORDER BY and derives edges as it goes).
THEOREM VerdictsDoNotDepend == Spec => []VerdictsAgree
<1>1. Inv /\ TreeInv => VerdictsAgree
  BY VerdictsOrderFree
<1>2. QED BY <1>1, TreeInvariant, PTL

----------------------------------------------------------------------------
(* Steps do not come to wait for each other in a circle                    *)

\* A step that depends on nothing is in no circle, so only the references
\* between steps that depend on something matter.
LEMMA FewerWait ==
    ASSUME NEW t, NEW u,
           \A d \in Present(t) : t[d].deps # {} =>
              d \in Present(u) /\ t[d].deps \subseteq u[d].deps,
           \A d \in Present(t) : \A ref \in t[d].deps : \A e \in Named(t, d, ref) :
              t[e].deps # {} => e \in Named(u, d, ref),
           HasCycle(DeclaredEdges(t))
    PROVE  HasCycle(DeclaredEdges(u))
<1>1. DeclaredEdges(t) \in EdgeSets /\ DeclaredEdges(u) \in EdgeSets
  BY DeclaredFact
<1>2. PICK set : Stuck(DeclaredEdges(t), set)
  BY <1>1, CycleIsStuck
<1>3. ASSUME NEW x \in set
      PROVE  \E y \in set : <<y, x>> \in DeclaredEdges(t)
  <2>1. PICK e \in DeclaredEdges(t) : e[1] \in set /\ e[2] = x
    BY <1>2, WaitingFact DEF Stuck
  <2>2. e = <<e[1], e[2]>>
    BY DeclaredFact
  <2>3. QED BY <2>1, <2>2
<1>4. \A x \in set : x \in Present(t) /\ t[x].deps # {}
  BY <1>3, DeclaredFact
<1>5. ASSUME NEW x \in set
      PROVE  \E y \in set : <<y, x>> \in DeclaredEdges(u)
  <2>1. PICK y \in set : <<y, x>> \in DeclaredEdges(t)
    BY <1>3
  <2>2. PICK ref \in t[x].deps : y \in Named(t, x, ref)
    BY <2>1, DeclaredFact
  <2>3. y \in Named(u, x, ref) /\ x \in Present(u) /\ ref \in u[x].deps
    BY <1>4, <2>2
  <2>4. QED BY <2>3, DeclaredFact
<1>6. Stuck(DeclaredEdges(u), set)
  <2>1. set \subseteq Waiting(DeclaredEdges(u), set)
    <3>1. ASSUME NEW x \in set PROVE x \in Waiting(DeclaredEdges(u), set)
      <4>1. PICK y \in set : <<y, x>> \in DeclaredEdges(u)
        BY <1>5
      <4>2. <<y, x>>[1] = y /\ <<y, x>>[2] = x
        OBVIOUS
      <4>3. QED BY <4>1, <4>2, WaitingFact
    <3>2. QED BY <3>1
  <2>2. QED BY <1>2, <2>1 DEF Stuck
<1>7. QED BY <1>1, <1>6, CycleIsStuck

\* The three steps on the path of an atomic step.
LEMMA PathFact ==
    ASSUME NEW t, LevelsFit(t), ParentsThere(t), NEW a \in Present(t), LevelOf[a] = AtomicLevel
    PROVE  /\ t[a].parent \in Present(t) /\ LevelOf[t[a].parent] = TacticalLevel
           /\ t[t[a].parent].parent \in Present(t)
           /\ LevelOf[t[t[a].parent].parent] = GlobalLevel
<1>1. ASSUME NEW s \in Present(t), LevelOf[s] # GlobalLevel
      PROVE  t[s].parent \in Present(t) /\ LevelOf[t[s].parent] = LevelOf[s] - 1
  BY <1>1 DEF LevelsFit, ParentsThere
<1>2. t[a].parent \in Present(t) /\ LevelOf[t[a].parent] = TacticalLevel
  BY <1>1 DEF GlobalLevel, TacticalLevel, AtomicLevel
<1>3. QED BY <1>1, <1>2 DEF GlobalLevel, TacticalLevel

\* A reference by number and one by path.
LEMMA RefFact ==
    ASSUME NEW t \in Tables, NEW s \in Present(t), NEW ref \in t[s].deps
    PROVE  ref \in SiblingRefs \/ (ref \in PathRefs /\ Len(ref) # 1)
<1>1. ref \in Refs
  BY PresentFact DEF StepRow
<1>2. QED BY <1>1 DEF Refs, PathRefs

LEMMA NamedByNumber ==
    ASSUME NEW t, NEW s, NEW ref \in SiblingRefs
    PROVE  Named(t, s, ref) =
              {e \in Present(t) : /\ t[e].parent = t[s].parent /\ LevelOf[e] = LevelOf[s]
                                  /\ <<t[e].id>> = ref}
BY DEF Named, SiblingRefs, Scope, Children

LEMMA NamedByPath ==
    ASSUME NEW t, NEW s, NEW ref, Len(ref) # 1
    PROVE  Named(t, s, ref) =
              {e \in Present(t) : LevelOf[e] = AtomicLevel /\ PathOf(t, e) = ref}
BY DEF Named

\* If a reference names the same steps in both tables, and what is depended on
\* is no more, circles and dangling numbers are no more either.
LEMMA SamePlacesSameNames ==
    ASSUME NEW t \in Tables, NEW u \in Tables, SamePlaces(t, u), LevelsFit(u), ParentsThere(u),
           NEW s \in Present(t), NEW ref, ref \in SiblingRefs \/ Len(ref) # 1
    PROVE  Named(t, s, ref) = Named(u, s, ref)
<1>1. Present(t) = Present(u) /\ \A d \in Present(u) : Placed(t, u, d)
  BY DEF SamePlaces
<1>2. CASE ref \in SiblingRefs
  <2>1. Named(t, s, ref) = {e \in Present(t) : /\ t[e].parent = t[s].parent
                                                 /\ LevelOf[e] = LevelOf[s]
                                                 /\ <<t[e].id>> = ref}
    BY <1>2, NamedByNumber
  <2>2. Named(u, s, ref) = {e \in Present(u) : /\ u[e].parent = u[s].parent
                                                 /\ LevelOf[e] = LevelOf[s]
                                                 /\ <<u[e].id>> = ref}
    BY <1>2, NamedByNumber
  <2>3. QED BY <1>1, <2>1, <2>2 DEF Placed
<1>3. CASE Len(ref) # 1
  <2>1. ASSUME NEW a \in Present(u), LevelOf[a] = AtomicLevel PROVE PathOf(t, a) = PathOf(u, a)
    BY <1>1, <2>1, PathFact DEF PathOf, Placed
  <2>2. QED BY <1>1, <1>3, <2>1, NamedByPath
<1>4. QED BY <1>2, <1>3

\* The numbers among the dependencies are sound, and so is their order.
DepsSound(table) == NumbersNamed(table) /\ ~HasCycle(DeclaredEdges(table))

LEMMA SamePlacesKeepDeps ==
    ASSUME NEW t \in Tables, NEW u \in Tables, SamePlaces(t, u), LevelsFit(u), ParentsThere(u),
           \A d \in Present(u) : t[d].deps \subseteq u[d].deps,
           DepsSound(u)
    PROVE  DepsSound(t)
<1>1. Present(t) = Present(u)
  BY DEF SamePlaces
<1>2. ASSUME NEW d \in Present(t), NEW ref \in t[d].deps
      PROVE  Named(t, d, ref) = Named(u, d, ref) /\ ref \in u[d].deps
  <2>1. ref \in SiblingRefs \/ Len(ref) # 1
    BY RefFact
  <2>2. QED BY <1>1, <2>1, SamePlacesSameNames
<1>3. NumbersNamed(t)
  BY <1>1, <1>2 DEF NumbersNamed, DepsSound
<1>4. ~HasCycle(DeclaredEdges(t))
  <2>1. \A d \in Present(t) : t[d].deps # {} => d \in Present(u) /\ t[d].deps \subseteq u[d].deps
    BY <1>1
  <2>2. \A d \in Present(t) : \A ref \in t[d].deps : \A e \in Named(t, d, ref) :
           t[e].deps # {} => e \in Named(u, d, ref)
    BY <1>2
  <2>3. QED BY <2>1, <2>2, FewerWait DEF DepsSound
<1>5. QED BY <1>3, <1>4 DEF DepsSound

LEMMA StepCreateKeepsDeps ==
    ASSUME Inv, LevelsFit(rows), ParentsThere(rows), DepsSound(rows),
           NEW mode \in Modes, NEW s \in Steps, NEW p \in Steps \cup {NoParent},
           NEW content \in Contents, StepCreate(s, p, content, mode)
    PROVE  DepsSound(rows')
<1>1. /\ s \notin Present(rows)
      /\ Present(rows') = Present(rows) \cup {s}
      /\ \A d \in Present(rows) : rows'[d] = rows[d]
      /\ rows'[s].deps = {}
  <2>1. /\ s \notin Present(rows)
        /\ Present(rows') = Present(rows) \cup {s}
        /\ \A d \in Entities \ {s} : rows'[d] = rows[d]
        /\ rows'[s].deps = {}
    BY StepCreateEffect
  <2>2. \A d \in Present(rows) : d \in Entities \ {s}
    BY <2>1, StepsAreEntities DEF Present
  <2>3. QED BY <2>1, <2>2
<1>2. rows \in Tables
  BY DEF Inv, TypeOK
<1>3. ASSUME NEW d \in Present(rows), NEW ref \in rows[d].deps
      PROVE  Named(rows, d, ref) = Named(rows', d, ref) \ {s}
  <2>1. ref \in SiblingRefs \/ Len(ref) # 1
    BY <1>2, RefFact
  <2>2. CASE ref \in SiblingRefs
    BY <1>1, <2>2, NamedByNumber
  <2>3. CASE Len(ref) # 1
    <3>1. ASSUME NEW a \in Present(rows), LevelOf[a] = AtomicLevel
          PROVE  PathOf(rows', a) = PathOf(rows, a)
      BY <1>1, <3>1, PathFact DEF PathOf
    <3>2. QED BY <1>1, <2>3, <3>1, NamedByPath
  <2>4. QED BY <2>1, <2>2, <2>3
<1>4. NumbersNamed(rows')
  BY <1>1, <1>3 DEF NumbersNamed, DepsSound
<1>5. ~HasCycle(DeclaredEdges(rows'))
  <2>1. \A d \in Present(rows') : rows'[d].deps # {} =>
           d \in Present(rows) /\ rows'[d].deps \subseteq rows[d].deps
    BY <1>1
  <2>2. \A d \in Present(rows') : \A ref \in rows'[d].deps : \A e \in Named(rows', d, ref) :
           rows'[e].deps # {} => e \in Named(rows, d, ref)
    BY <1>1, <1>3
  <2>3. QED BY <2>1, <2>2, FewerWait DEF DepsSound
<1>6. QED BY <1>4, <1>5 DEF DepsSound

\* What the move of a step, or its deletion, does to the dependencies on its
\* siblings, and why no number is left dangling.
LEMMA ScrubKeepsNumbers ==
    ASSUME rows \in Tables, NumbersNamed(rows), NEW s \in Present(rows),
           \A d \in Present(rows') : rows'[d].deps # {} =>
              /\ d \in Present(rows) \ {s}
              /\ rows'[d].deps = IF d \in Siblings(rows, s)
                                 THEN rows[d].deps \ {<<rows[s].id>>} ELSE rows[d].deps
              /\ Placed(rows', rows, d)
              /\ \A e \in Present(rows) \ {s} : rows[e].parent = rows[d].parent =>
                    e \in Present(rows') /\ Placed(rows', rows, e)
    PROVE  NumbersNamed(rows')
<1>1. ASSUME NEW d \in Present(rows'), NEW ref \in rows'[d].deps \cap SiblingRefs
      PROVE  Named(rows', d, ref) # {}
  <2>1. /\ d \in Present(rows) /\ d # s
        /\ ref \in rows[d].deps
        /\ d \in Siblings(rows, s) => ref # <<rows[s].id>>
        /\ Placed(rows', rows, d)
        /\ \A e \in Present(rows) \ {s} : rows[e].parent = rows[d].parent =>
              e \in Present(rows') /\ Placed(rows', rows, e)
    BY <1>1
  <2>2. PICK e \in Named(rows, d, ref) : TRUE
    BY <1>1, <2>1 DEF NumbersNamed
  <2>3. /\ e \in Present(rows) /\ rows[e].parent = rows[d].parent
        /\ LevelOf[e] = LevelOf[d] /\ <<rows[e].id>> = ref
    BY <1>1, <2>2, NamedByNumber
  <2>4. e # s
    <3>1. SUFFICES ASSUME e = s PROVE FALSE
      OBVIOUS
    <3>2. d \in Siblings(rows, s)
      BY <2>1, <2>3, <3>1 DEF Siblings, Scope, Children
    <3>3. QED BY <2>1, <2>3, <3>1, <3>2
  <2>5. e \in Present(rows') /\ Placed(rows', rows, e)
    BY <2>1, <2>3, <2>4
  <2>6. e \in Named(rows', d, ref)
    <3>1. rows'[e].parent = rows'[d].parent /\ <<rows'[e].id>> = ref
      BY <2>1, <2>3, <2>5 DEF Placed
    <3>2. QED BY <1>1, <2>3, <2>5, <3>1, NamedByNumber
  <2>7. QED BY <2>6
<1>2. QED BY <1>1 DEF NumbersNamed

\* Only a tactical or an atomic step moves.
LEMMA MovedIsLower ==
    ASSUME NEW s \in Steps, NEW p \in Steps, ValidParent(rows, LevelOf[s], p)
    PROVE  \/ LevelOf[s] = TacticalLevel /\ LevelOf[p] = GlobalLevel
           \/ LevelOf[s] = AtomicLevel /\ LevelOf[p] = TacticalLevel
<1>1. LevelOf[s] \in Levels /\ LevelOf[p] \in Levels /\ p # NoParent
  BY LevelOfAssumption, StepsAssumption
<1>2. QED BY <1>1 DEF ValidParent, Levels, GlobalLevel, TacticalLevel, AtomicLevel

\* A path that names a step that came along named nothing before: the number
\* the moved step is given is free.
LEMMA NoPathFollows ==
    ASSUME Inv, LevelsFit(rows), ParentsThere(rows), IdsUnique(rows),
           NEW s \in Present(rows), NEW p \in Present(rows),
           LevelOf[s] = TacticalLevel, LevelOf[p] = GlobalLevel,
           NEW id, IsNextFreeId(id, rows, p, LevelOf[s]),
           NEW n, NEW d, Len(<<rows[p].id, id, n>>) # 1
    PROVE  Named(rows, d, <<rows[p].id, id, n>>) = {}
<1>1. SUFFICES ASSUME NEW u \in Named(rows, d, <<rows[p].id, id, n>>) PROVE FALSE
  OBVIOUS
<1>2. u \in Present(rows) /\ LevelOf[u] = AtomicLevel
      /\ PathOf(rows, u) = <<rows[p].id, id, n>>
  BY <1>1, NamedByPath
<1> DEFINE tac == rows[u].parent
           glob == rows[tac].parent
<1>3. /\ tac \in Present(rows) /\ LevelOf[tac] = TacticalLevel
      /\ glob \in Present(rows) /\ LevelOf[glob] = GlobalLevel
  BY <1>2, PathFact
<1>4. rows[glob].id = rows[p].id /\ rows[tac].id = id
  BY <1>2 DEF PathOf
<1> HIDE DEF tac, glob
<1>5. \A g \in Present(rows) : LevelOf[g] = GlobalLevel => rows[g].parent = NoParent
  <2>1. ASSUME NEW g \in Present(rows), LevelOf[g] = GlobalLevel, rows[g].parent # NoParent
        PROVE  FALSE
    <3>1. rows[g].parent \in Present(rows) /\ LevelOf[rows[g].parent] = LevelOf[g] - 1
      BY <2>1 DEF LevelsFit, ParentsThere
    <3>2. LevelOf[rows[g].parent] \in Levels
      BY <3>1, LevelOfAssumption DEF Present
    <3>3. QED BY <2>1, <3>1, <3>2 DEF Levels, GlobalLevel, TacticalLevel, AtomicLevel
  <2>2. QED BY <2>1
<1>6. glob = p
  <2>1. SUFFICES ASSUME glob # p PROVE FALSE
    OBVIOUS
  <2>2. glob \in Siblings(rows, p)
    BY <1>3, <1>5, <2>1 DEF Siblings, Scope, Children
  <2>3. QED BY <1>4, <2>2 DEF IdsUnique
<1>7. rows[tac].parent = p /\ LevelOf[tac] = LevelOf[s]
  BY <1>3, <1>6 DEF glob
<1>8. rows \in Tables
  BY DEF Inv, TypeOK
<1>9. QED BY <1>3, <1>4, <1>7, <1>8, NextFreeIdIsFree

LEMMA StepMoveKeepsDeps ==
    ASSUME Inv, rows' \in Tables,
           LevelsFit(rows), ParentsThere(rows), IdsUnique(rows), DepsSound(rows),
           NEW mode \in Modes, NEW s \in Steps, NEW p \in Steps, StepMove(s, p, mode)
    PROVE  /\ NumbersNamed(rows')
           /\ (Carries => AllResolve(rows)) => ~HasCycle(DeclaredEdges(rows'))
<1>1. /\ s \in Present(rows)
      /\ Present(rows') = Present(rows)
      /\ \A d \in Present(rows) \ {s} : Placed(rows', rows, d)
      /\ \/ /\ Placed(rows', rows, s)
            /\ \A d \in Present(rows) : rows'[d].deps = rows[d].deps
         \/ /\ p # rows[s].parent
            /\ ValidParent(rows, LevelOf[s], p)
            /\ rows'[s].parent = p
            /\ IsNextFreeId(rows'[s].id, rows, p, LevelOf[s])
            /\ rows'[s].deps = {}
            /\ \A d \in Present(rows) \ {s} :
                  rows'[d].deps = IF d \in Siblings(rows, s)
                                  THEN rows[d].deps \ {<<rows[s].id>>} ELSE rows[d].deps
  <2>1. /\ s \in Present(rows)
        /\ Present(rows') = Present(rows)
        /\ \A d \in Present(rows) \ {s} : Placed(rows', rows, d)
    BY StepMoveEffect, ZenonT(40)
  <2>2. \/ /\ Placed(rows', rows, s)
           /\ \A d \in Present(rows) : rows'[d].deps = rows[d].deps
        \/ /\ p # rows[s].parent
           /\ ValidParent(rows, LevelOf[s], p)
           /\ rows'[s].parent = p
           /\ IsNextFreeId(rows'[s].id, rows, p, LevelOf[s])
           /\ rows'[s].deps = {}
           /\ \A d \in Present(rows) \ {s} :
                 rows'[d].deps = IF d \in Siblings(rows, s)
                                 THEN rows[d].deps \ {<<rows[s].id>>} ELSE rows[d].deps
    BY StepMoveEffect, ZenonT(60)
  <2>3. QED BY <2>1, <2>2
<1>2. rows \in Tables /\ rows' \in Tables
  BY DEF Inv, TypeOK
<1>3. CASE Placed(rows', rows, s) /\ \A d \in Present(rows) : rows'[d].deps = rows[d].deps
  <2>1. SamePlaces(rows', rows)
    BY <1>1, <1>3 DEF SamePlaces
  <2>2. DepsSound(rows')
    BY <1>2, <1>3, <2>1, SamePlacesKeepDeps
  <2>3. QED BY <2>2 DEF DepsSound
<1>4. CASE /\ p # rows[s].parent
           /\ ValidParent(rows, LevelOf[s], p)
           /\ rows'[s].parent = p
           /\ IsNextFreeId(rows'[s].id, rows, p, LevelOf[s])
           /\ rows'[s].deps = {}
           /\ \A d \in Present(rows) \ {s} :
                 rows'[d].deps = IF d \in Siblings(rows, s)
                                 THEN rows[d].deps \ {<<rows[s].id>>} ELSE rows[d].deps
  <2>1. NumbersNamed(rows')
    <3>1. \A d \in Present(rows') : rows'[d].deps # {} => d \in Present(rows) \ {s}
      BY <1>1, <1>4
    <3>2. QED BY <1>1, <1>2, <1>4, <3>1, ScrubKeepsNumbers DEF DepsSound
  <2>2. ASSUME Carries => AllResolve(rows) PROVE ~HasCycle(DeclaredEdges(rows'))
    <3>1. \A d \in Present(rows') : rows'[d].deps # {} =>
             d \in Present(rows) /\ d # s /\ rows'[d].deps \subseteq rows[d].deps
      BY <1>1, <1>4
    <3>2. ASSUME NEW d \in Present(rows'), NEW ref \in rows'[d].deps,
                 NEW e \in Named(rows', d, ref), rows'[e].deps # {}
          PROVE  e \in Named(rows, d, ref)
      <4>1. /\ d \in Present(rows) /\ d # s /\ ref \in rows[d].deps
            /\ e \in Present(rows) /\ e # s
            /\ Placed(rows', rows, d) /\ Placed(rows', rows, e)
        BY <1>1, <3>1, <3>2, NamedPresent
      <4>2. ref \in SiblingRefs \/ (ref \in PathRefs /\ Len(ref) # 1)
        BY <1>2, <4>1, RefFact
      <4>3. CASE ref \in SiblingRefs
        <5>1. rows'[e].parent = rows'[d].parent /\ LevelOf[e] = LevelOf[d] /\ <<rows'[e].id>> = ref
          BY <3>2, <4>3, NamedByNumber
        <5>2. rows[e].parent = rows[d].parent /\ <<rows[e].id>> = ref
          BY <4>1, <5>1 DEF Placed
        <5>3. QED BY <4>1, <4>3, <5>1, <5>2, NamedByNumber
      <4>4. CASE ref \in PathRefs /\ Len(ref) # 1
        <5>1. LevelOf[e] = AtomicLevel /\ PathOf(rows', e) = ref
          BY <3>2, <4>4, NamedByPath
        <5> DEFINE tac == rows[e].parent
                   glob == rows[tac].parent
        <5>2. /\ tac \in Present(rows) /\ LevelOf[tac] = TacticalLevel
              /\ glob \in Present(rows) /\ LevelOf[glob] = GlobalLevel
          BY <4>1, <5>1, PathFact
        <5>3. p \in Present(rows)
          BY <1>4, StepsAssumption DEF ValidParent
        <5>4. \/ LevelOf[s] = TacticalLevel /\ LevelOf[p] = GlobalLevel
              \/ LevelOf[s] = AtomicLevel /\ LevelOf[p] = TacticalLevel
          BY <1>4, MovedIsLower
        <5>5. glob # s
          BY <5>2, <5>4 DEF GlobalLevel, TacticalLevel, AtomicLevel
        <5>6. CASE tac # s
          <6>1. rows'[e].id = rows[e].id /\ rows'[e].parent = tac
                /\ rows'[tac].id = rows[tac].id /\ rows'[tac].parent = glob
                /\ rows'[glob].id = rows[glob].id
            BY <1>1, <4>1, <5>2, <5>5, <5>6 DEF Placed
          <6>2. PathOf(rows, e) = PathOf(rows', e)
            BY <6>1 DEF PathOf
          <6>3. QED BY <4>1, <4>4, <5>1, <6>2, NamedByPath
        <5>7. CASE tac = s
          <6>1. LevelOf[s] = TacticalLevel /\ LevelOf[p] = GlobalLevel /\ p # s
            BY <5>2, <5>4, <5>7 DEF GlobalLevel, TacticalLevel, AtomicLevel
          <6>2. Carries
            <7>1. e \in Children(rows, s)
              BY <4>1, <5>7 DEF Children
            <7>2. QED BY <1>1, <1>4, <7>1 DEF Carries
          <6>3. Named(rows, d, ref) # {}
            BY <2>2, <4>1, <6>2 DEF AllResolve
          <6>4. ref = <<rows[p].id, rows'[s].id, rows[e].id>>
            <7>1. rows'[e].parent = s /\ rows'[e].id = rows[e].id /\ rows'[p].id = rows[p].id
              BY <1>1, <4>1, <5>3, <5>7, <6>1 DEF Placed
            <7>2. QED BY <1>4, <5>1, <7>1 DEF PathOf
          <6>5. Named(rows, d, ref) = {}
            <7>1. Len(<<rows[p].id, rows'[s].id, rows[e].id>>) # 1
              BY <4>4, <6>4
            <7>2. QED BY <1>1, <1>4, <5>3, <6>1, <6>4, <7>1, NoPathFollows
          <6>6. QED BY <6>3, <6>5
        <5>8. QED BY <5>6, <5>7
      <4>5. QED BY <4>2, <4>3, <4>4
    <3>3. QED BY <3>1, <3>2, FewerWait DEF DepsSound
  <2>3. QED BY <2>1, <2>2
<1>5. QED BY <1>1, <1>3, <1>4

\* A step that is deleted takes with it all that is below it, and its siblings
\* stay; what is left names what it named, or less.
LEMMA StepDeleteNames ==
    ASSUME Inv, LevelsFit(rows), ParentsThere(rows), IdsUnique(rows),
           NEW mode \in Modes, NEW s \in Steps, NEW recursive \in BOOLEAN,
           StepDelete(s, recursive, mode)
    PROVE  /\ s \in Present(rows) \ Present(rows')
           /\ \A d \in Present(rows') :
                 /\ d \in Present(rows) /\ Placed(rows', rows, d)
                 /\ rows'[d].content = rows[d].content
                 /\ rows'[d].deps = IF d \in Siblings(rows, s)
                                    THEN rows[d].deps \ {<<rows[s].id>>} ELSE rows[d].deps
                 /\ \A ref \in rows'[d].deps : Named(rows', d, ref) \subseteq Named(rows, d, ref)
                 /\ \A e \in Present(rows) \ {s} : rows[e].parent = rows[d].parent =>
                       e \in Present(rows') /\ Placed(rows', rows, e)
<1> DEFINE gone == Doomed(s, recursive)
<1>1. /\ s \in Present(rows)
      /\ ~recursive => Children(rows, s) = {}
      /\ Present(rows') = Present(rows) \ gone
      /\ \A d \in Present(rows) \ gone :
            /\ Placed(rows', rows, d)
            /\ rows'[d].content = rows[d].content
            /\ rows'[d].deps = IF d \in Siblings(rows, s)
                               THEN rows[d].deps \ {<<rows[s].id>>} ELSE rows[d].deps
  BY StepDeleteEffect, SMTT(30)
<1>2. rows \in Tables
  BY DEF Inv, TypeOK
<1>3. s \in gone
  BY DEF Doomed, Subtree
<1>4. ASSUME NEW d \in Present(rows), rows[d].parent \in gone PROVE d \in gone
  <2>1. CASE recursive
    BY <1>1, <1>4, <2>1, NothingBelowSubtree DEF Doomed
  <2>2. CASE ~recursive
    BY <1>1, <1>4, <2>2 DEF Doomed, Children
  <2>3. QED BY <2>1, <2>2
<1>5. ASSUME NEW e \in gone, e # s PROVE rows[e].parent \in gone
  BY <1>5 DEF Doomed, Subtree, ImpactSet, Children
<1> HIDE DEF gone
<1>6. ASSUME NEW d \in Present(rows')
      PROVE  \A e \in Present(rows) \ {s} : rows[e].parent = rows[d].parent =>
                e \in Present(rows') /\ Placed(rows', rows, e)
  <2>1. TAKE e \in Present(rows) \ {s}
  <2>2. SUFFICES ASSUME rows[e].parent = rows[d].parent
                 PROVE  e \in Present(rows') /\ Placed(rows', rows, e)
    OBVIOUS
  <2>3. rows[d].parent \notin gone
    BY <1>1, <1>4
  <2>4. e \notin gone
    BY <1>5, <2>2, <2>3
  <2>5. QED BY <1>1, <2>4
<1>7. ASSUME NEW d \in Present(rows'), NEW ref \in rows'[d].deps, NEW e \in Named(rows', d, ref)
      PROVE  e \in Named(rows, d, ref)
  <2>1. /\ d \in Present(rows) /\ ref \in rows[d].deps
        /\ e \in Present(rows) /\ e \notin gone /\ d \notin gone
        /\ Placed(rows', rows, d) /\ Placed(rows', rows, e)
    BY <1>1, <1>7, NamedPresent
  <2>2. ref \in SiblingRefs \/ Len(ref) # 1
    BY <1>2, <2>1, RefFact
  <2>3. CASE ref \in SiblingRefs
    <3>1. rows'[e].parent = rows'[d].parent /\ LevelOf[e] = LevelOf[d] /\ <<rows'[e].id>> = ref
      BY <1>7, <2>3, NamedByNumber
    <3>2. rows[e].parent = rows[d].parent /\ <<rows[e].id>> = ref
      BY <2>1, <3>1 DEF Placed
    <3>3. QED BY <2>1, <2>3, <3>1, <3>2, NamedByNumber
  <2>4. CASE Len(ref) # 1
    <3>1. LevelOf[e] = AtomicLevel /\ PathOf(rows', e) = ref
      BY <1>7, <2>4, NamedByPath
    <3> DEFINE tac == rows[e].parent
               glob == rows[tac].parent
    <3>2. tac \in Present(rows) /\ glob \in Present(rows)
      BY <2>1, <3>1, PathFact
    <3>3. tac \notin gone /\ glob \notin gone
      BY <1>4, <2>1, <3>2
    <3>4. rows'[e].id = rows[e].id /\ rows'[e].parent = tac
          /\ rows'[tac].id = rows[tac].id /\ rows'[tac].parent = glob
          /\ rows'[glob].id = rows[glob].id
      BY <1>1, <2>1, <3>2, <3>3 DEF Placed
    <3>5. PathOf(rows, e) = PathOf(rows', e)
      BY <3>4 DEF PathOf
    <3>6. QED BY <2>1, <2>4, <3>1, <3>5, NamedByPath
  <2>5. QED BY <2>2, <2>3, <2>4
<1>8. QED BY <1>1, <1>3, <1>6, <1>7

LEMMA StepDeleteKeepsDeps ==
    ASSUME Inv, rows' \in Tables,
           LevelsFit(rows), ParentsThere(rows), IdsUnique(rows), DepsSound(rows),
           NEW mode \in Modes, NEW s \in Steps, NEW recursive \in BOOLEAN,
           StepDelete(s, recursive, mode)
    PROVE  DepsSound(rows')
<1>1. /\ s \in Present(rows) \ Present(rows')
      /\ \A d \in Present(rows') :
            /\ d \in Present(rows) /\ Placed(rows', rows, d)
            /\ rows'[d].content = rows[d].content
            /\ rows'[d].deps = IF d \in Siblings(rows, s)
                               THEN rows[d].deps \ {<<rows[s].id>>} ELSE rows[d].deps
            /\ \A ref \in rows'[d].deps : Named(rows', d, ref) \subseteq Named(rows, d, ref)
            /\ \A e \in Present(rows) \ {s} : rows[e].parent = rows[d].parent =>
                  e \in Present(rows') /\ Placed(rows', rows, e)
  BY StepDeleteNames
<1>2. rows \in Tables
  BY DEF Inv, TypeOK
<1>3. NumbersNamed(rows')
  <2>1. /\ s \in Present(rows) /\ NumbersNamed(rows)
        /\ \A d \in Present(rows') :
              /\ d \in Present(rows) \ {s} /\ Placed(rows', rows, d)
              /\ rows'[d].deps = IF d \in Siblings(rows, s)
                                 THEN rows[d].deps \ {<<rows[s].id>>} ELSE rows[d].deps
              /\ \A e \in Present(rows) \ {s} : rows[e].parent = rows[d].parent =>
                    e \in Present(rows') /\ Placed(rows', rows, e)
    BY <1>1 DEF DepsSound
  <2>2. QED BY <1>2, <2>1, ScrubKeepsNumbers
<1>4. ~HasCycle(DeclaredEdges(rows'))
  <2>1. \A d \in Present(rows') : d \in Present(rows) /\ rows'[d].deps \subseteq rows[d].deps
    BY <1>1
  <2>2. \A d \in Present(rows') : \A ref \in rows'[d].deps : \A e \in Named(rows', d, ref) :
           e \in Named(rows, d, ref)
    BY <1>1
  <2>3. QED BY <2>1, <2>2, FewerWait DEF DepsSound
<1>5. QED BY <1>3, <1>4 DEF DepsSound

\* What the check of the dependency commands has seen in the rows it leaves.
LEMMA AdmittedOrder ==
    ASSUME rows \in Tables, rows' \in Tables, Ranked(rows') = Ranked(rows),
           OrderAdmits(rows, rows')
    PROVE  /\ NumbersNamed(rows')
           /\ \E order \in RowOrders(rows') : ~HasCycle(BuildEdges(rows', order))
           /\ ~HasCycle(DeclaredEdges(rows'))
<1>1. RowOrders(rows') = RowOrders(rows)
  BY DEF RowOrders
<1>2. AllResolve(rows')
  BY DEF OrderAdmits
<1>3. PICK order \in RowOrders(rows') : ~HasCycle(BuildEdges(rows', order))
  BY <1>1 DEF OrderAdmits
<1>4. DeclaredEdges(rows') \subseteq BaseEdges(rows', order) /\ ~HasCycle(BaseEdges(rows', order))
  BY <1>3, DerivedKeepsOrder DEF BaseEdges
<1>5. ~HasCycle(DeclaredEdges(rows'))
  BY <1>4, CycleGrows, BaseTyped, DeclaredFact
<1>6. NumbersNamed(rows')
  BY <1>2 DEF AllResolve, NumbersNamed
<1>7. QED BY <1>3, <1>5, <1>6

LEMMA SameRanked ==
    ASSUME NEW t, NEW u, Present(t) = Present(u),
           \A d \in Present(u) : t[d].content = u[d].content
    PROVE  Ranked(t) = Ranked(u)
<1>1. Writers(t) = Writers(u)
  BY DEF Writers
<1>2. \A s \in Writers(u) : Priority(t, s) = Priority(u, s)
  BY DEF Writers, Priority
<1>3. QED BY <1>1, <1>2 DEF Ranked

\* The commands on dependencies check the new graph or take some away.
LEMMA EditsDepsOrder ==
    ASSUME Inv, NEW mode \in Modes, EditsDeps(mode)
    PROVE  \/ OrderAdmits(rows, rows')
           \/ \A d \in Present(rows) : rows'[d].deps \subseteq rows[d].deps
<1>1. PICK deps :
         /\ DOMAIN deps \subseteq Present(rows)
         /\ \A s \in DOMAIN deps : deps[s] \subseteq Refs
         /\ PersistChanges(deps, mode)
         /\ OrderAdmits(rows, rows') \/ \A s \in DOMAIN deps : deps[s] \subseteq rows[s].deps
  BY DEF EditsDeps
<1>2. \A d \in Present(rows) :
         rows'[d].deps = IF d \in DOMAIN deps THEN deps[d] ELSE rows[d].deps
  BY <1>1, PersistChangesEffect
<1>3. QED BY <1>1, <1>2

LEMMA EditsKeepDeps ==
    ASSUME Inv, rows' \in Tables, LevelsFit(rows), ParentsThere(rows), DepsSound(rows),
           NEW mode \in Modes, EditsDeps(mode)
    PROVE  DepsSound(rows')
<1>1. SamePlaces(rows', rows) /\ \A d \in Present(rows) : rows'[d].content = rows[d].content
  BY EditsDepsEffect
<1>2. rows \in Tables
  BY DEF Inv, TypeOK
<1>3. CASE OrderAdmits(rows, rows')
  <2>1. Ranked(rows') = Ranked(rows)
    BY <1>1, SameRanked DEF SamePlaces
  <2>2. QED BY <1>2, <1>3, <2>1, AdmittedOrder DEF DepsSound
<1>4. CASE \A d \in Present(rows) : rows'[d].deps \subseteq rows[d].deps
  BY <1>1, <1>2, <1>4, SamePlacesKeepDeps
<1>5. QED BY <1>3, <1>4, EditsDepsOrder

LEMMA SameDepsKept ==
    ASSUME Inv, rows' \in Tables, LevelsFit(rows), ParentsThere(rows), DepsSound(rows),
           SamePlaces(rows', rows), \A d \in Present(rows) : rows'[d].deps = rows[d].deps
    PROVE  DepsSound(rows')
<1>1. rows \in Tables
  BY DEF Inv, TypeOK
<1>2. QED BY <1>1, SamePlacesKeepDeps

LEMMA StepKeepsDeps ==
    ASSUME Inv, TreeInv, Next, ParentsThere(rows), DepsSound(rows), ~Aborts
    PROVE  /\ NumbersNamed(rows')
           /\ (Carries => AllResolve(rows)) => ~HasCycle(DeclaredEdges(rows'))
<1>1. rows' \in Tables
  <2>1. Inv'
    BY NextInv
  <2>2. QED BY <2>1 DEF Inv, TypeOK
<1>2. LevelsFit(rows) /\ IdsUnique(rows)
  BY DEF TreeInv
<1>3. SUFFICES ASSUME ~(\E mode \in Modes, s \in Steps, p \in Steps : StepMove(s, p, mode))
               PROVE  DepsSound(rows')
  BY <1>1, <1>2, StepMoveKeepsDeps DEF DepsSound
<1>4. ASSUME NEW mode \in Modes, NEW s \in Steps, NEW p \in Steps \cup {NoParent},
             NEW c \in Contents, StepCreate(s, p, c, mode)
      PROVE  DepsSound(rows')
  BY <1>2, <1>4, StepCreateKeepsDeps
<1>5. ASSUME NEW mode \in Modes, NEW s \in Steps, NEW c \in Contents, StepUpdate(s, c, mode)
      PROVE  DepsSound(rows')
  <2>1. SamePlaces(rows', rows) /\ \A d \in Present(rows) : rows'[d].deps = rows[d].deps
    BY <1>5, StepUpdateEffect
  <2>2. QED BY <1>1, <1>2, <2>1, SameDepsKept
<1>6. ASSUME NEW mode \in Modes, NEW s \in Steps, NEW status \in AllStatuses,
             StepSetStatus(s, status, mode)
      PROVE  DepsSound(rows')
  <2>1. SamePlaces(rows', rows) /\ \A d \in Present(rows) : rows'[d].deps = rows[d].deps
    BY <1>6, StepSetStatusEffect
  <2>2. QED BY <1>1, <1>2, <2>1, SameDepsKept
<1>7. ASSUME NEW mode \in Modes, NEW s \in Steps, NEW recursive \in BOOLEAN,
             StepDelete(s, recursive, mode)
      PROVE  DepsSound(rows')
  BY <1>1, <1>2, <1>7, StepDeleteKeepsDeps
<1>8. ASSUME NEW mode \in Modes, EditsDeps(mode) PROVE DepsSound(rows')
  BY <1>1, <1>2, <1>8, EditsKeepDeps
<1>9. ASSUME NEW mode \in Modes, NEW scope \in SUBSET Present(rows),
             NEW to \in TransitionTargets, StepTransition(scope, to, mode)
      PROVE  DepsSound(rows')
  <2>1. SamePlaces(rows', rows) /\ \A d \in Present(rows) : rows'[d].deps = rows[d].deps
    BY <1>9, StepTransitionEffect
  <2>2. QED BY <1>1, <1>2, <2>1, SameDepsKept
<1>10. ASSUME NEW e \in MrsEntities, NEW new \in Contents \cup {Absent}, MrsWrite(e, new)
       PROVE  DepsSound(rows')
  <2>1. SamePlaces(rows', rows) /\ \A d \in Present(rows) : rows'[d].deps = rows[d].deps
    BY <1>10, MrsWriteEffect
  <2>2. QED BY <1>1, <1>2, <2>1, SameDepsKept
<1>11. ASSUME NEW c \in CascadeIds, CascadeBegin(c) \/ PlanUnfreeze(c) \/ CascadeCommit(c)
       PROVE  DepsSound(rows')
  <2>1. rows' = rows
    BY <1>11 DEF CascadeBegin, PlanUnfreeze, CascadeCommit, OpenNewCascade
  <2>2. QED BY <2>1
<1>12. ASSUME NEW flag \in BOOLEAN, PlanCompletedSet(flag) PROVE DepsSound(rows')
  <2>1. rows' = rows
    BY <1>12 DEF PlanCompletedSet
  <2>2. QED BY <2>1
<1>13. ~(\E c \in CascadeIds : CascadeAbort(c))
  BY AbortAborts
<1>14. QED
  BY <1>3, <1>4, <1>5, <1>6, <1>7, <1>8, <1>9, <1>10, <1>11, <1>12, <1>13, NextIsCommand

\* Whatever is edited, moved or deleted, a plan whose steps do not wait for
\* each other in a circle keeps it so, and no number dangles: step_delete and
\* step_move scrub the identifier from the siblings, next_free_step_id gives a
\* number in use to nobody, and the dependency commands check what they leave.
THEOREM DepsAreKept == Spec => DepsKept
<1>1. Inv /\ TreeInv /\ [Next]_vars =>
         [ParentsThere(rows) /\ NumbersNamed(rows) /\ ~HasCycle(DeclaredEdges(rows)) /\ ~Aborts
          => /\ NumbersNamed(rows')
             /\ (Carries => AllResolve(rows)) => ~HasCycle(DeclaredEdges(rows'))]_vars
  BY StepKeepsDeps DEF DepsSound
<1>2. QED BY <1>1, TreeInvariant, PTL DEF Spec, DepsKept

----------------------------------------------------------------------------
(* The order of a plan is kept                                             *)

LEMMA RowOrdersExist == ASSUME NEW table PROVE \E order : order \in RowOrders(table)
<1>1. Ranked(table) \subseteq Steps
  BY DEF Ranked, Writers, Present
<1>2. IsFiniteSet(Ranked(table))
  BY <1>1, FiniteStepsAssumption, FS_Subset
<1>3. ExistsBijection(1..Cardinality(Ranked(table)), Ranked(table))
  BY <1>2, FS_CardinalityType
<1>4. QED BY <1>3 DEF ExistsBijection, RowOrders

\* x is a writer sorted behind a.
Behind(table, a, x) ==
    SameFile(table, a, x) /\ SameParent(table, a, x) /\ Priority(table, a) < Priority(table, x)

LEMMA BehindFact ==
    ASSUME NEW table
    PROVE  /\ \A a \in Ranked(table) : ~Behind(table, a, a)
           /\ \A a, b, c \in Ranked(table) :
                 Behind(table, a, b) /\ Behind(table, b, c) => Behind(table, a, c)
BY PriorityTyped DEF Behind, SameFile, SameParent

\* Between a writer and another behind it there is one next to the latter.
LEMMA NextBefore ==
    ASSUME NEW table, PrioritiesUnique(table), NEW order \in RowOrders(table),
           NEW a \in Ranked(table), NEW x \in Ranked(table), Behind(table, a, x)
    PROVE  \E v \in Ranked(table) :
              (v = a \/ Behind(table, a, v)) /\ <<v, x>> \in PriorityEdges(table, order)
<1> DEFINE R == Ranked(table)
           C == {v \in R : (v = a \/ Behind(table, a, v)) /\ Behind(table, v, x)}
           Up(v) == {w \in C : w = v \/ Behind(table, v, w)}
           F == {Up(v) : v \in C}
<1>1. a \in C
  OBVIOUS
<1>2. IsFiniteSet(C)
  <2>1. C \subseteq Steps
    BY DEF Ranked, Writers, Present
  <2> HIDE DEF C
  <2>2. QED BY <2>1, FiniteStepsAssumption, FS_Subset
<1>3. PICK A \in F : \A B \in F : B \subseteq A => B = A
  <2>1. F \subseteq SUBSET C /\ F # {}
    BY <1>1
  <2> HIDE DEF C, F
  <2>2. QED BY <1>2, <2>1, LeastSet
<1>4. PICK v \in C : A = Up(v)
  OBVIOUS
<1>5. ASSUME NEW w \in C, Behind(table, v, w) PROVE FALSE
  <2>1. Up(w) \subseteq Up(v)
    BY <1>4, <1>5, BehindFact
  <2>2. v \in Up(v) /\ v \notin Up(w)
    BY <1>4, <1>5, BehindFact
  <2>3. QED BY <1>3, <1>4, <2>1, <2>2
<1>6. \A s, t \in R : t \in RankedFirst(table, order, s) <=> Behind(table, s, t)
  BY SortedByPriority DEF Behind
<1>7. \A w \in RankedFirst(table, order, v) : x \notin RankedFirst(table, order, w)
  <2>1. SUFFICES ASSUME NEW w \in RankedFirst(table, order, v),
                        x \in RankedFirst(table, order, w)
                 PROVE  FALSE
    OBVIOUS
  <2>2. w \in R /\ Behind(table, v, w) /\ Behind(table, w, x)
    BY <1>6, <2>1 DEF RankedFirst
  <2>3. w = a \/ Behind(table, a, w)
    BY <1>4, <2>2, BehindFact
  <2>4. QED BY <1>5, <2>2, <2>3
<1>8. <<v, x>> \in PriorityEdges(table, order)
  <2>1. v \in R /\ x \in RankedFirst(table, order, v)
    BY <1>4, <1>6
  <2>2. QED BY <1>7, <2>1, PriorityFact
<1>9. QED BY <1>4, <1>8

\* t is what is left of u: some steps less, some dependencies less.
Remains(t, u) ==
    /\ \A d \in Present(t) : /\ d \in Present(u)
                             /\ t[d].content = u[d].content
                             /\ t[d].parent = u[d].parent
    /\ DeclaredEdges(t) \subseteq DeclaredEdges(u)

LEMMA RanksRemain ==
    ASSUME NEW t, NEW u, Remains(t, u)
    PROVE  /\ Ranked(t) \subseteq Ranked(u)
           /\ \A a, x \in Ranked(t) : Behind(t, a, x) <=> Behind(u, a, x)
           /\ PrioritiesUnique(u) => PrioritiesUnique(t)
<1>1. Writers(t) \subseteq Writers(u)
  BY DEF Remains, Writers
<1>2. \A d \in Writers(t) : /\ t[d].content = u[d].content
                            /\ t[d].parent = u[d].parent
                            /\ Priority(t, d) = Priority(u, d)
                            /\ File(t, d) = File(u, d)
  BY DEF Remains, Writers, Priority, File
<1>3. Ranked(t) \subseteq Ranked(u)
  BY <1>1, <1>2 DEF Ranked
<1>4. \A a, x \in Ranked(t) : /\ SameFile(t, a, x) <=> SameFile(u, a, x)
                              /\ SameParent(t, a, x) <=> SameParent(u, a, x)
                              /\ Priority(t, a) = Priority(u, a)
                              /\ Priority(t, x) = Priority(u, x)
  BY <1>2 DEF Ranked, SameFile, SameParent
<1>5. \A a, x \in Ranked(t) : Behind(t, a, x) <=> Behind(u, a, x)
  BY <1>4 DEF Behind
<1>6. PrioritiesUnique(u) => PrioritiesUnique(t)
  BY <1>3, <1>4 DEF PrioritiesUnique
<1>7. QED BY <1>3, <1>5, <1>6

\* A circle in what is left was there before, if only through writers that are
\* gone: the writers behind one on the circle are on it too.
LEMMA RemainingCycle ==
    ASSUME NEW t, NEW u, Remains(t, u), PrioritiesUnique(u),
           NEW o \in RowOrders(t), NEW p \in RowOrders(u), HasCycle(BaseEdges(t, o))
    PROVE  HasCycle(BaseEdges(u, p))
<1>1. PICK set : Stuck(BaseEdges(t, o), set)
  BY CycleIsStuck, BaseTyped
<1> DEFINE R == Ranked(u)
           more == {x \in R : \E a \in set \cap R : Behind(u, a, x)}
           wide == set \cup more
<1>2. ASSUME NEW x \in more
      PROVE  \E e \in BaseEdges(u, p) : e[1] \in wide /\ e[2] = x
  <2>1. PICK a \in set \cap R : Behind(u, a, x)
    OBVIOUS
  <2>2. PICK v \in R : (v = a \/ Behind(u, a, v)) /\ <<v, x>> \in PriorityEdges(u, p)
    BY <2>1, NextBefore
  <2>3. v \in wide
    BY <2>1, <2>2
  <2> DEFINE e == <<v, x>>
  <2>4. e \in BaseEdges(u, p) /\ e[1] = v /\ e[2] = x
    BY <2>2 DEF BaseEdges
  <2> HIDE DEF wide, e
  <2>5. QED BY <2>3, <2>4
<1>3. ASSUME NEW x \in set
      PROVE  \E e \in BaseEdges(u, p) : e[1] \in wide /\ e[2] = x
  <2>1. PICK e \in BaseEdges(t, o) : e[1] \in set /\ e[2] = x
    BY <1>1, WaitingFact DEF Stuck
  <2>2. CASE e \in DeclaredEdges(t)
    BY <2>1, <2>2 DEF Remains, BaseEdges
  <2>3. CASE e \in PriorityEdges(t, o)
    <3>1. /\ e = <<e[1], x>> /\ e[1] \in Ranked(t) /\ x \in Ranked(t)
          /\ x \in RankedFirst(t, o, e[1])
      <4>1. e = <<e[1], x>> /\ e[1] \in Ranked(t) /\ x \in Ranked(t)
        BY <2>1, <2>3, PriorityFact
      <4>2. <<e[1], x>> \in PriorityEdges(t, o)
        BY <2>3, <4>1
      <4>3. QED BY <4>1, <4>2, PriorityFact
    <3>2. Behind(t, e[1], x)
      BY <3>1, RanksRemain, SortedByPriority DEF Behind
    <3>3. e[1] \in R /\ x \in R /\ Behind(u, e[1], x)
      BY <3>1, <3>2, RanksRemain
    <3>4. x \in more
      BY <2>1, <3>3
    <3>5. QED BY <1>2, <3>4
  <2>4. QED BY <2>1, <2>2, <2>3 DEF BaseEdges
<1>4. Stuck(BaseEdges(u, p), wide)
  <2>1. wide # {} /\ \A x \in wide : \E e \in BaseEdges(u, p) : e[1] \in wide /\ e[2] = x
    BY <1>1, <1>2, <1>3 DEF Stuck
  <2> HIDE DEF wide
  <2>2. wide \subseteq Waiting(BaseEdges(u, p), wide)
    BY <2>1, WaitingFact
  <2>3. QED BY <2>1, <2>2 DEF Stuck
<1>5. QED BY <1>4, CycleIsStuck, BaseTyped

\* Whatever order the rows come in, the edges have no cycle.
InOrder(table) == \A order \in RowOrders(table) : ~HasCycle(BuildEdges(table, order))

LEMMA RemainsInOrder ==
    ASSUME NEW t, NEW u, Remains(t, u), PrioritiesUnique(u), InOrder(u)
    PROVE  InOrder(t)
<1>1. SUFFICES ASSUME NEW o \in RowOrders(t), HasCycle(BuildEdges(t, o)) PROVE FALSE
  BY DEF InOrder
<1>2. HasCycle(BaseEdges(t, o))
  BY <1>1, DerivedKeepsOrder
<1>3. PICK p : p \in RowOrders(u)
  BY RowOrdersExist
<1>4. HasCycle(BaseEdges(u, p))
  BY <1>1, <1>2, <1>3, RemainingCycle
<1>5. QED BY <1>3, <1>4, DerivedKeepsOrder DEF InOrder

\* The same steps in the same places, with no dependency more.
LEMMA SamePlacesRemain ==
    ASSUME NEW t \in Tables, NEW u \in Tables, SamePlaces(t, u), LevelsFit(u), ParentsThere(u),
           \A d \in Present(u) : t[d].content = u[d].content /\ t[d].deps \subseteq u[d].deps
    PROVE  Remains(t, u)
<1>1. Present(t) = Present(u) /\ \A d \in Present(u) : t[d].parent = u[d].parent
  BY DEF SamePlaces, Placed
<1>2. ASSUME NEW e \in DeclaredEdges(t) PROVE e \in DeclaredEdges(u)
  <2>1. e = <<e[1], e[2]>> /\ e[2] \in Present(t)
    BY DeclaredFact
  <2>2. PICK ref \in t[e[2]].deps : e[1] \in Named(t, e[2], ref)
    BY <2>1, DeclaredFact
  <2>3. ref \in SiblingRefs \/ Len(ref) # 1
    BY <2>1, RefFact
  <2>4. Named(t, e[2], ref) = Named(u, e[2], ref) /\ ref \in u[e[2]].deps
    BY <1>1, <2>1, <2>2, <2>3, SamePlacesSameNames
  <2>5. QED BY <1>1, <2>1, <2>2, <2>4, DeclaredFact
<1>3. QED BY <1>1, <1>2 DEF Remains

LEMMA StepDeleteRemains ==
    ASSUME Inv, LevelsFit(rows), ParentsThere(rows), IdsUnique(rows),
           NEW mode \in Modes, NEW s \in Steps, NEW recursive \in BOOLEAN,
           StepDelete(s, recursive, mode)
    PROVE  Remains(rows', rows)
<1>1. /\ s \in Present(rows) \ Present(rows')
      /\ \A d \in Present(rows') :
            /\ d \in Present(rows) /\ Placed(rows', rows, d)
            /\ rows'[d].content = rows[d].content
            /\ rows'[d].deps = IF d \in Siblings(rows, s)
                               THEN rows[d].deps \ {<<rows[s].id>>} ELSE rows[d].deps
            /\ \A ref \in rows'[d].deps : Named(rows', d, ref) \subseteq Named(rows, d, ref)
            /\ \A e \in Present(rows) \ {s} : rows[e].parent = rows[d].parent =>
                  e \in Present(rows') /\ Placed(rows', rows, e)
  BY StepDeleteNames
<1>2. ASSUME NEW e \in DeclaredEdges(rows') PROVE e \in DeclaredEdges(rows)
  <2>1. e = <<e[1], e[2]>> /\ e[2] \in Present(rows')
    BY DeclaredFact
  <2>2. PICK ref \in rows'[e[2]].deps : e[1] \in Named(rows', e[2], ref)
    BY <2>1, DeclaredFact
  <2>3. e[1] \in Named(rows, e[2], ref) /\ ref \in rows[e[2]].deps /\ e[2] \in Present(rows)
    BY <1>1, <2>1, <2>2
  <2>4. QED BY <2>1, <2>3, DeclaredFact
<1>3. QED BY <1>1, <1>2 DEF Remains, Placed

\* The commands that leave the steps they leave where they are, with what they
\* say, keep the plan in order.
LEMMA StepKeepsOrder ==
    ASSUME Inv, TreeInv, Next, ~Aborts, ParentsThere(rows), PrioritiesUnique(rows),
           InOrder(rows), Present(rows') \subseteq Present(rows),
           \A s \in Present(rows') : /\ rows'[s].parent = rows[s].parent
                                     /\ rows'[s].content = rows[s].content
    PROVE  InOrder(rows')
<1>1. rows \in Tables /\ rows' \in Tables
  <2>1. Inv'
    BY NextInv
  <2>2. QED BY <2>1 DEF Inv, TypeOK
<1>2. LevelsFit(rows) /\ IdsUnique(rows)
  BY DEF TreeInv
<1>3. ASSUME SamePlaces(rows', rows), \A d \in Present(rows) : rows'[d].deps \subseteq rows[d].deps
      PROVE  InOrder(rows')
  <2>1. Present(rows') = Present(rows)
    BY <1>3 DEF SamePlaces
  <2>2. Remains(rows', rows)
    BY <1>1, <1>2, <1>3, <2>1, SamePlacesRemain
  <2>3. QED BY <2>2, RemainsInOrder
<1>4. ASSUME NEW mode \in Modes, NEW s \in Steps, NEW p \in Steps \cup {NoParent},
             NEW c \in Contents, StepCreate(s, p, c, mode)
      PROVE  InOrder(rows')
  <2>1. s \notin Present(rows) /\ s \in Present(rows')
    BY <1>4, StepCreateEffect
  <2>2. QED BY <2>1
<1>5. ASSUME NEW mode \in Modes, NEW s \in Steps, NEW c \in Contents, StepUpdate(s, c, mode)
      PROVE  InOrder(rows')
  <2>1. SamePlaces(rows', rows) /\ \A d \in Present(rows) : rows'[d].deps = rows[d].deps
    BY <1>5, StepUpdateEffect
  <2>2. QED BY <1>3, <2>1
<1>6. ASSUME NEW mode \in Modes, NEW s \in Steps, NEW status \in AllStatuses,
             StepSetStatus(s, status, mode)
      PROVE  InOrder(rows')
  <2>1. SamePlaces(rows', rows) /\ \A d \in Present(rows) : rows'[d].deps = rows[d].deps
    BY <1>6, StepSetStatusEffect
  <2>2. QED BY <1>3, <2>1
<1>7. ASSUME NEW mode \in Modes, NEW s \in Steps, NEW p \in Steps, StepMove(s, p, mode)
      PROVE  InOrder(rows')
  <2>1. /\ s \in Present(rows)
        /\ Present(rows') = Present(rows)
        /\ \A d \in Present(rows) \ {s} : Placed(rows', rows, d)
        /\ \/ /\ Placed(rows', rows, s)
              /\ \A d \in Present(rows) : rows'[d].deps = rows[d].deps
           \/ p # rows[s].parent /\ rows'[s].parent = p
    BY <1>7, StepMoveEffect
  <2>2. Placed(rows', rows, s) /\ \A d \in Present(rows) : rows'[d].deps = rows[d].deps
    BY <2>1
  <2>3. SamePlaces(rows', rows)
    BY <2>1, <2>2 DEF SamePlaces
  <2>4. QED BY <1>3, <2>2, <2>3
<1>8. ASSUME NEW mode \in Modes, NEW s \in Steps, NEW recursive \in BOOLEAN,
             StepDelete(s, recursive, mode)
      PROVE  InOrder(rows')
  BY <1>2, <1>8, StepDeleteRemains, RemainsInOrder
<1>9. ASSUME NEW mode \in Modes, EditsDeps(mode) PROVE InOrder(rows')
  <2>1. SamePlaces(rows', rows) /\ \A d \in Present(rows) : rows'[d].content = rows[d].content
    BY <1>9, EditsDepsEffect
  <2>2. CASE OrderAdmits(rows, rows')
    <3>1. Ranked(rows') = Ranked(rows)
      BY <2>1, SameRanked DEF SamePlaces
    <3>2. PICK order \in RowOrders(rows') : ~HasCycle(BuildEdges(rows', order))
      BY <1>1, <2>2, <3>1, AdmittedOrder
    <3>3. PrioritiesUnique(rows')
      <4>1. \A d \in Present(rows) : /\ rows'[d].parent = rows[d].parent
                                     /\ rows'[d].content = rows[d].content
        BY <2>1 DEF SamePlaces, Placed
      <4>2. \A d \in Ranked(rows) : d \in Present(rows)
        BY DEF Ranked, Writers
      <4>3. QED BY <3>1, <4>1, <4>2 DEF PrioritiesUnique, SameFile, File, SameParent, Priority
    <3>4. QED BY <3>2, <3>3, CyclesOrderFree DEF InOrder
  <2>3. CASE \A d \in Present(rows) : rows'[d].deps \subseteq rows[d].deps
    BY <1>3, <2>1, <2>3
  <2>4. QED BY <1>9, <2>2, <2>3, EditsDepsOrder
<1>10. ASSUME NEW mode \in Modes, NEW scope \in SUBSET Present(rows),
             NEW to \in TransitionTargets, StepTransition(scope, to, mode)
      PROVE  InOrder(rows')
  <2>1. SamePlaces(rows', rows) /\ \A d \in Present(rows) : rows'[d].deps = rows[d].deps
    BY <1>10, StepTransitionEffect
  <2>2. QED BY <1>3, <2>1
<1>11. ASSUME NEW e \in MrsEntities, NEW new \in Contents \cup {Absent}, MrsWrite(e, new)
       PROVE  InOrder(rows')
  <2>1. SamePlaces(rows', rows) /\ \A d \in Present(rows) : rows'[d].deps = rows[d].deps
    BY <1>11, MrsWriteEffect
  <2>2. QED BY <1>3, <2>1
<1>12. ASSUME NEW c \in CascadeIds, CascadeBegin(c) \/ PlanUnfreeze(c) \/ CascadeCommit(c)
       PROVE  InOrder(rows')
  <2>1. rows' = rows
    BY <1>12 DEF CascadeBegin, PlanUnfreeze, CascadeCommit, OpenNewCascade
  <2>2. QED BY <2>1
<1>13. ASSUME NEW flag \in BOOLEAN, PlanCompletedSet(flag) PROVE InOrder(rows')
  <2>1. rows' = rows
    BY <1>13 DEF PlanCompletedSet
  <2>2. QED BY <2>1
<1>14. ~(\E c \in CascadeIds : CascadeAbort(c))
  BY AbortAborts
<1>15. QED
  BY <1>4, <1>5, <1>6, <1>7, <1>8, <1>9, <1>10, <1>11, <1>12, <1>13, <1>14, NextIsCommand

\* What a dependency command has checked lasts, whatever order the rows come
\* in: the commands that take dependencies away and the deletions, which check
\* nothing, close no circle, not even where a deleted writer stood between two
\* others of its file.
THEOREM OrderIsKept == Spec => OrderKept
<1> DEFINE kept(s) == /\ rows'[s].parent = rows[s].parent
                      /\ rows'[s].content = rows[s].content
                      /\ rows'[s].status = rows[s].status
           ordered(table) == \A order \in RowOrders(table) : ~HasCycle(BuildEdges(table, order))
<1>1. Inv /\ TreeInv /\ [Next]_vars =>
         [/\ Present(rows') \subseteq Present(rows)
          /\ \A s \in Present(rows') : kept(s)
          /\ rows' # rows
          /\ ParentsThere(rows) /\ PrioritiesUnique(rows)
          /\ AllResolve(rows) /\ AllResolve(rows')
          /\ ordered(rows) /\ ~Aborts
          => ordered(rows')]_vars
  BY StepKeepsOrder DEF InOrder
<1>2. QED BY <1>1, TreeInvariant, PTL DEF Spec, OrderKept

----------------------------------------------------------------------------
(* The waves                                                               *)

\* Sets of edges between the steps of the plan.
NodeEdges == SUBSET (Nodes \X Nodes)

LEMMA EdgesAreSets == /\ Nodes \subseteq Steps
                      /\ IsFiniteSet(Nodes)
                      /\ NodeEdges \subseteq EdgeSets
<1>1. Nodes \subseteq Steps
  BY DEF Nodes, Present
<1>2. IsFiniteSet(Nodes)
  BY <1>1, FiniteStepsAssumption, FS_Subset
<1>3. QED BY <1>1, <1>2 DEF NodeEdges, EdgeSets

\* The parent of a step is one level up, so there is none above a root.
LEMMA ParentFact ==
    ASSUME LevelsFit(rows), NEW s \in Nodes, rows[s].parent \in Nodes
    PROVE  /\ LevelOf[s] \in {4, 5}
           /\ LevelOf[rows[s].parent] \in {3, 4}
           /\ LevelOf[rows[s].parent] = LevelOf[s] - 1
<1>1. s \in Steps /\ rows[s].parent \in Steps /\ rows[s].parent # NoParent
  BY StepsAssumption DEF Nodes, Present
<1>2. LevelOf[rows[s].parent] = LevelOf[s] - 1
  BY <1>1 DEF LevelsFit, Nodes
<1>3. LevelOf[s] \in {3, 4, 5} /\ LevelOf[rows[s].parent] \in {3, 4, 5}
  BY <1>1, LevelOfAssumption DEF Levels, GlobalLevel, TacticalLevel, AtomicLevel
<1>4. QED BY <1>2, <1>3

\* The recursion of _effective_prereqs up the tree.
LEMMA EffectiveFact ==
    ASSUME LevelsFit(rows), NEW edges
    PROVE  \A s \in Nodes : EffectivePrereqs(edges)[s] =
              (Own(edges, s) \cup (IF rows[s].parent \in Nodes
                                   THEN EffectivePrereqs(edges)[rows[s].parent] ELSE {})) \ {s}
<1> DEFINE From(s, above) ==
              (Own(edges, s) \cup (IF rows[s].parent \in Nodes THEN above ELSE {})) \ {s}
           Up0(s) == From(s, {})
           Up1(s) == From(s, Up0(rows[s].parent))
           Up2(s) == From(s, Up1(rows[s].parent))
           Def(f) == [s \in Nodes |-> From(s, f[rows[s].parent])]
           best   == [s \in Nodes |-> Up2(s)]
           eff    == CHOOSE f : f = Def(f)
<1>1. ASSUME NEW s \in Nodes PROVE best[s] = From(s, best[rows[s].parent])
  <2>1. CASE rows[s].parent \notin Nodes
    BY <2>1
  <2>2. CASE rows[s].parent \in Nodes
    <3> DEFINE p == rows[s].parent
               g == rows[p].parent
    <3>1. CASE g \notin Nodes
      BY <2>2, <3>1
    <3>2. CASE g \in Nodes
      <4>1. rows[g].parent \notin Nodes
        <5>1. LevelOf[p] \in {3, 4} /\ LevelOf[g] = LevelOf[p] - 1
          BY <2>2, <3>2, ParentFact
        <5>2. rows[g].parent \in Nodes => LevelOf[g] \in {4, 5}
          BY <3>2, ParentFact
        <5>3. QED BY <5>1, <5>2
      <4>2. Up1(g) = Up0(g)
        BY <4>1
      <4>3. Up2(p) = Up1(p)
        <5> HIDE DEF Up0, Up1, g, p
        <5>1. Up2(p) = From(p, Up1(g))
          BY DEF g
        <5>2. Up1(p) = From(p, Up0(g))
          BY DEF Up1, g
        <5>3. QED BY <4>2, <5>1, <5>2
      <4> HIDE DEF From, Up1
      <4>4. QED BY <2>2, <4>3
    <3>3. QED BY <3>1, <3>2
  <2>3. QED BY <2>1, <2>2
<1>2. best = Def(best)
  <2> HIDE DEF Up2, From
  <2>1. DOMAIN best = Nodes /\ best = [s \in Nodes |-> best[s]]
    OBVIOUS
  <2> HIDE DEF best
  <2>2. QED BY <1>1, <2>1
<1>3. eff = Def(eff)
  <2> HIDE DEF best, Def
  <2>1. QED BY <1>2
<1>4. EffectivePrereqs(edges) = eff
  BY DEF EffectivePrereqs
<1>5. ASSUME NEW s \in Nodes PROVE eff[s] = From(s, eff[rows[s].parent])
  <2> HIDE DEF eff, From
  <2>1. QED BY <1>3
<1> HIDE DEF eff
<1>6. QED BY <1>4, <1>5

\* What lies below a step: its children, and what lies below them.
LEMMA SubtreeUp ==
    ASSUME LevelsFit(rows), NEW a \in Nodes, NEW s \in Nodes
    PROVE  s \in Subtree(rows, a) <=>
              s = a \/ (rows[s].parent \in Nodes /\ rows[s].parent \in Subtree(rows, a))
<1>1. ASSUME s \in Subtree(rows, a), s # a
      PROVE  rows[s].parent \in Nodes /\ rows[s].parent \in Subtree(rows, a)
  BY <1>1 DEF Subtree, ImpactSet, Children, Nodes
<1>2. ASSUME rows[s].parent \in Nodes, rows[s].parent \in Subtree(rows, a)
      PROVE  s \in Subtree(rows, a)
  BY <1>2, NothingBelowSubtree DEF Nodes
<1>3. a \in Subtree(rows, a)
  BY DEF Subtree
<1>4. QED BY <1>1, <1>2, <1>3

\* Two steps above one step are one above the other.
LEMMA OneLine ==
    ASSUME LevelsFit(rows), NEW a \in Nodes, NEW b \in Nodes, NEW s \in Nodes,
           s \in Subtree(rows, a), s \in Subtree(rows, b)
    PROVE  a \in Subtree(rows, b) \/ b \in Subtree(rows, a)
<1> DEFINE p == rows[s].parent
           g == rows[p].parent
<1>1. a \in Subtree(rows, a) /\ b \in Subtree(rows, b)
  BY DEF Subtree
<1>2. ASSUME NEW x \in Nodes, s \in Subtree(rows, x)
      PROVE  \/ x = s
             \/ x = p /\ p \in Nodes
             \/ x = g /\ p \in Nodes /\ g \in Nodes
  BY <1>2 DEF Subtree, ImpactSet, Children, Nodes
<1>3. p \in Nodes => s \in Subtree(rows, p)
  BY DEF Subtree, ImpactSet, Children, Nodes
<1>4. p \in Nodes /\ g \in Nodes => p \in Subtree(rows, g)
  BY DEF Subtree, ImpactSet, Children, Nodes
<1> HIDE DEF p, g
<1>5. QED BY <1>1, <1>2, <1>3, <1>4

\* A step waits for what is named for it or for its parent.
LEMMA WaitsFact ==
    ASSUME LevelsFit(rows), NEW edges \in NodeEdges, NEW s \in Nodes, NEW x
    PROVE  <<x, s>> \in Waits(edges) <=>
              \/ x \in Own(edges, s)
              \/ rows[s].parent \in Nodes /\ <<x, rows[s].parent>> \in Waits(edges)
<1>1. ASSUME NEW y
      PROVE  <<x, y>> \in Waits(edges) <=>
                \E e \in edges : x \in Subtree(rows, e[1]) /\ y \in Subtree(rows, e[2])
  BY DEF Waits
<1>2. x \in Own(edges, s) <=> \E e \in edges : x \in Subtree(rows, e[1]) /\ s = e[2]
  BY DEF Own
<1>3. \A e \in edges : e[1] \in Nodes /\ e[2] \in Nodes
  BY DEF NodeEdges
<1>4. \A e \in edges : s \in Subtree(rows, e[2]) <=>
          s = e[2] \/ (rows[s].parent \in Nodes /\ rows[s].parent \in Subtree(rows, e[2]))
  BY <1>3, SubtreeUp
<1>5. QED BY <1>1, <1>2, <1>4

LEMMA WaitsTyped ==
    ASSUME NEW edges \in NodeEdges
    PROVE  /\ Waits(edges) \in NodeEdges
           /\ Waits(edges) \in EdgeSets
           /\ \A e \in edges : e \in Waits(edges)
<1>1. \A e \in edges : e = <<e[1], e[2]>> /\ e[1] \in Nodes /\ e[2] \in Nodes
  BY DEF NodeEdges
<1>2. \A a \in Nodes : Subtree(rows, a) \subseteq Nodes /\ a \in Subtree(rows, a)
  BY DEF Subtree, ImpactSet, Children, Nodes
<1>3. Waits(edges) \in NodeEdges
  BY <1>1, <1>2 DEF Waits, NodeEdges
<1>4. \A e \in edges : e \in Waits(edges)
  BY <1>1, <1>2 DEF Waits
<1>5. QED BY <1>3, <1>4, EdgesAreSets

\* If no step waits for itself, the effective prerequisites of a step are what
\* it waits for.
LEMMA EffectiveIsWaits ==
    ASSUME LevelsFit(rows), NEW edges \in NodeEdges, \A y : <<y, y>> \notin Waits(edges)
    PROVE  \A s \in Nodes : EffectivePrereqs(edges)[s] = {x \in Nodes : <<x, s>> \in Waits(edges)}
<1> DEFINE Before(s) == {x \in Nodes : <<x, s>> \in Waits(edges)}
           Bad == {n \in Nat : \E s \in Nodes : LevelOf[s] = n
                                     /\ EffectivePrereqs(edges)[s] # Before(s)}
<1>1. \A x, y : <<x, y>> \in Waits(edges) => x \in Nodes
  BY WaitsTyped DEF NodeEdges
<1>2. Bad = {}
  <2>1. SUFFICES ASSUME Bad # {} PROVE FALSE
    OBVIOUS
  <2>2. PICK n \in Bad : \A m \in Bad : n <= m
    <3>1. Bad \subseteq Nat
      OBVIOUS
    <3> HIDE DEF Bad
    <3>2. QED BY <2>1, <3>1, LeastNumber
  <2>3. PICK s \in Nodes : LevelOf[s] = n /\ EffectivePrereqs(edges)[s] # Before(s)
    OBVIOUS
  <2> DEFINE p == rows[s].parent
  <2>4. ASSUME p \in Nodes PROVE EffectivePrereqs(edges)[p] = Before(p)
    <3>1. LevelOf[p] \in Nat /\ n \in Nat /\ LevelOf[p] < n
      BY <2>3, <2>4, ParentFact
    <3>2. LevelOf[p] \notin Bad
      <4> HIDE DEF Bad
      <4>1. QED BY <2>2, <3>1
    <3>3. QED BY <2>4, <3>1, <3>2
  <2>5. EffectivePrereqs(edges)[s] =
           (Own(edges, s) \cup (IF p \in Nodes THEN EffectivePrereqs(edges)[p] ELSE {})) \ {s}
    BY EffectiveFact
  <2>6. \A x : <<x, s>> \in Waits(edges) <=>
           x \in Own(edges, s) \/ (p \in Nodes /\ <<x, p>> \in Waits(edges))
    BY WaitsFact
  <2> HIDE DEF Bad, p
  <2>7. EffectivePrereqs(edges)[s] = Before(s)
    BY <1>1, <2>4, <2>5, <2>6
  <2>8. QED BY <2>3, <2>7
<1>3. ASSUME NEW s \in Nodes PROVE LevelOf[s] \in Nat
  BY LevelOfAssumption DEF Nodes, Present, Levels, GlobalLevel, TacticalLevel, AtomicLevel
<1>4. QED BY <1>2, <1>3

\* What is derived joins writers.
LEMMA BuildInNodes ==
    ASSUME NEW order \in RowOrders(rows)
    PROVE  /\ Extends(rows, BuildEdges(rows, order))
           /\ BuildEdges(rows, order) \in NodeEdges
<1> DEFINE N == Cardinality(WriterPairs(rows, order))
           D == DerivedEdges(rows, order)
           s(k) == order[PairAt(rows, order, k)[1]]
           t(k) == order[PairAt(rows, order, k)[2]]
           Bad == {k \in 0..N : ~Extends(rows, D[k])}
<1>1. /\ N \in Nat
      /\ D \in [0..N -> EdgeSets]
      /\ D[0] = BaseEdges(rows, order)
      /\ \A k \in 1..N : D[k] = D[k - 1] \cup CrossBranchEdges(rows, D[k - 1], s(k), t(k))
      /\ BuildEdges(rows, order) = D[N]
  BY DerivedFact
<1>2. \A k \in 1..N : s(k) \in Ranked(rows) /\ t(k) \in Ranked(rows)
  <2>1. \A k \in 1..N : PairAt(rows, order, k) \in WriterPairs(rows, order)
    BY PairsNumbered
  <2>2. \A p \in WriterPairs(rows, order) :
           order[p[1]] \in Ranked(rows) /\ order[p[2]] \in Ranked(rows)
    BY CrossTyped, BaseTyped
  <2>3. QED BY <2>1, <2>2
<1> HIDE DEF N, D, s, t
<1>3. Bad = {}
  <2>1. SUFFICES ASSUME Bad # {} PROVE FALSE
    OBVIOUS
  <2>2. PICK k \in Bad : \A m \in Bad : k <= m
    <3>1. Bad \subseteq Nat
      BY <1>1
    <3> HIDE DEF Bad
    <3>2. QED BY <2>1, <3>1, LeastNumber
  <2>3. k # 0
    <3>1. Extends(rows, D[0])
      BY <1>1, BaseTyped, PriorityFact DEF Extends, BaseEdges
    <3>2. QED BY <2>2, <3>1
  <2>4. k \in 1..N /\ k - 1 \in 0..N /\ ~(k <= k - 1)
    BY <1>1, <2>2, <2>3
  <2>5. Extends(rows, D[k - 1]) /\ D[k] \in EdgeSets
    BY <1>1, <2>2, <2>4
  <2> DEFINE new == CrossBranchEdges(rows, D[k - 1], s(k), t(k))
  <2>6. \A e \in new : e[1] \in Ranked(rows) /\ e[2] \in Ranked(rows)
    BY <1>2, <2>4 DEF CrossBranchEdges
  <2>7. D[k] = D[k - 1] \cup new
    BY <1>1, <2>4
  <2> HIDE DEF new
  <2>8. Extends(rows, D[k])
    BY <2>5, <2>6, <2>7 DEF Extends
  <2>9. QED BY <2>2, <2>8
<1>4. Extends(rows, BuildEdges(rows, order))
  BY <1>1, <1>3
<1>5. \A e \in BuildEdges(rows, order) :
         e = <<e[1], e[2]>> /\ e[1] \in Nodes /\ e[2] \in Nodes
  BY <1>4, DeclaredFact, RankedAtoms DEF Extends, EdgeSets, Nodes
<1>6. QED BY <1>4, <1>5 DEF NodeEdges

\* A step that a plan has wait for itself waits for one above or below it, or
\* an edge leads from a step to itself.
LEMMA NoneWaitsForItself ==
    ASSUME LevelsFit(rows), NoneWaitsBelow(rows),
           NEW order \in RowOrders(rows), ~HasCycle(BuildEdges(rows, order)), NEW y
    PROVE  <<y, y>> \notin Waits(BuildEdges(rows, order))
<1> DEFINE edges == BuildEdges(rows, order)
<1>1. SUFFICES ASSUME <<y, y>> \in Waits(edges) PROVE FALSE
  OBVIOUS
<1>2. edges \in EdgeSets /\ Extends(rows, edges) /\ edges \in NodeEdges
  BY BuildInNodes DEF Extends
<1> HIDE DEF edges
<1>3. PICK e \in edges : y \in Subtree(rows, e[1]) /\ y \in Subtree(rows, e[2])
  BY <1>1 DEF Waits
<1>4. e[1] \in Nodes /\ e[2] \in Nodes /\ y \in Nodes /\ e = <<e[1], e[2]>>
  BY <1>2, <1>3 DEF NodeEdges, Subtree, ImpactSet, Children, Nodes
<1>5. e[1] # e[2]
  <2>1. SUFFICES ASSUME e[1] = e[2] PROVE FALSE
    OBVIOUS
  <2>2. Stuck(edges, {e[1]})
    BY <1>3, <2>1, WaitingFact DEF Stuck
  <2>3. QED BY <1>2, <2>2, CycleIsStuck DEF edges
<1>6. e[1] \in Subtree(rows, e[2]) \/ e[2] \in Subtree(rows, e[1])
  BY <1>3, <1>4, OneLine
<1>7. ASSUME NEW a \in Nodes, NEW b \in Nodes, a \in Subtree(rows, b), a # b
      PROVE  LevelOf[b] < LevelOf[a] /\ LevelOf[a] \in {3, 4, 5} /\ LevelOf[b] \in {3, 4, 5}
  <2> DEFINE p == rows[a].parent
             g == rows[p].parent
  <2>1. p \in Nodes /\ p \in Subtree(rows, b)
    BY <1>7, SubtreeUp
  <2>2. LevelOf[a] \in {3, 4, 5} /\ LevelOf[p] \in {3, 4, 5} /\ LevelOf[p] = LevelOf[a] - 1
    BY <2>1, ParentFact
  <2>3. CASE p = b
    BY <2>2, <2>3
  <2>4. CASE p # b
    <3>1. g \in Nodes /\ g \in Subtree(rows, b)
      BY <2>1, <2>4, SubtreeUp
    <3>2. LevelOf[g] \in {3, 4} /\ LevelOf[g] = LevelOf[p] - 1
      BY <2>1, <3>1, ParentFact
    <3>3. g = b
      <4>1. SUFFICES ASSUME g # b PROVE FALSE
        OBVIOUS
      <4>2. rows[g].parent \in Nodes
        BY <3>1, <4>1, SubtreeUp
      <4>3. LevelOf[g] \in {4, 5}
        BY <3>1, <4>2, ParentFact
      <4>4. QED BY <2>2, <3>2, <4>3
    <3>4. QED BY <2>2, <3>2, <3>3
  <2>5. QED BY <2>3, <2>4
<1>8. CASE e \in DeclaredEdges(rows)
  <2>1. e[1] \notin Subtree(rows, e[2])
    BY <1>5, <1>8, BelowIsImpact DEF NoneWaitsBelow, Subtree
  <2>2. LevelOf[e[1]] < LevelOf[e[2]]
    BY <1>4, <1>5, <1>6, <1>7, <2>1
  <2>3. PICK ref \in rows[e[2]].deps : e[1] \in Named(rows, e[2], ref)
    BY <1>4, <1>8, DeclaredFact
  <2>4. LevelOf[e[1]] = LevelOf[e[2]] \/ LevelOf[e[1]] = AtomicLevel
    BY <2>3 DEF Named, Scope
  <2>5. LevelOf[e[1]] \in {3, 4, 5} /\ LevelOf[e[2]] \in {3, 4, 5}
    BY <1>4, LevelOfAssumption DEF Nodes, Present, Levels, GlobalLevel, TacticalLevel, AtomicLevel
  <2>6. QED BY <2>2, <2>4, <2>5 DEF AtomicLevel
<1>9. CASE e \notin DeclaredEdges(rows)
  <2>1. e[1] \in Atoms /\ e[2] \in Atoms
    BY <1>2, <1>3, <1>9, RankedAtoms DEF Extends
  <2>2. LevelOf[e[1]] = LevelOf[e[2]]
    BY <2>1 DEF Atoms
  <2>3. QED BY <1>4, <1>5, <1>6, <1>7, <2>2
<1>10. QED BY <1>8, <1>9

\* Wave after wave, what waits for nothing unassigned is assigned; while some
\* step is left, and no steps wait for each other, each wave has a step.
LEMMA AssignedFact ==
    ASSUME NEW edges
    PROVE  LET N == Cardinality(Nodes)
               A == Assigned(edges)
           IN  /\ N \in Nat
               /\ A \in [0..N -> SUBSET Nodes]
               /\ A[0] = {}
               /\ \A i \in 1..N : A[i] = A[i - 1] \cup
                                {s \in Nodes : EffectivePrereqs(edges)[s] \subseteq A[i - 1]}
<1> DEFINE N == Cardinality(Nodes)
           S == SUBSET Nodes
           prereqs == {<<s, EffectivePrereqs(edges)[s]>> : s \in Nodes}
           Ready(set) == {p[1] : p \in {q \in prereqs : q[2] \subseteq set}}
           step == [ia \in (1..N) \X S |-> ia[2] \cup Ready(ia[2])]
           Def(f) == [i \in 0..N |-> IF i = 0 THEN {} ELSE f[i - 1] \cup Ready(f[i - 1])]
           A == Assigned(edges)
<1>1. N \in Nat
  BY EdgesAreSets, FS_CardinalityType
<1>0. \A set : Ready(set) = {s \in Nodes : EffectivePrereqs(edges)[s] \subseteq set}
  <2> DEFINE eff == EffectivePrereqs(edges)
  <2> HIDE DEF eff
  <2>1. ASSUME NEW set
        PROVE  {p[1] : p \in {q \in prereqs : q[2] \subseteq set}}
                   = {s \in Nodes : eff[s] \subseteq set}
    <3>1. \A q \in prereqs : q[1] \in Nodes /\ q[2] = eff[q[1]]
      BY DEF eff
    <3>2. \A s \in Nodes : <<s, eff[s]>> \in prereqs
      BY DEF eff
    <3> HIDE DEF prereqs, eff
    <3> DEFINE met == {q \in prereqs : q[2] \subseteq set}
    <3>3. ASSUME NEW q \in met PROVE q[1] \in Nodes /\ eff[q[1]] \subseteq set
      BY <3>1
    <3>4. ASSUME NEW s \in Nodes, eff[s] \subseteq set PROVE \E q \in met : q[1] = s
      <4>1. <<s, eff[s]>> \in met
        BY <3>2, <3>4
      <4>2. QED BY <4>1
    <3> HIDE DEF met
    <3>5. {p[1] : p \in met} = {s \in Nodes : eff[s] \subseteq set}
      BY <3>3, <3>4
    <3>6. QED BY <3>5 DEF met
  <2>2. QED BY <2>1 DEF eff
<1>2. step \in [(1..N) \X S -> S]
  <2>1. \A i \in 1..N, set \in S : set \cup Ready(set) \in S
    BY <1>0
  <2> HIDE DEF Ready, N, S
  <2>2. QED BY <2>1
<1>3. PICK f \in [0..N -> S] : f[0] = {} /\ \A i \in 1..N : f[i] = step[<<i, f[i - 1]>>]
  <2> DEFINE none == {}
  <2>1. none \in S
    OBVIOUS
  <2> HIDE DEF S, step, N, none
  <2>2. \E f \in [0..N -> S] : Recurs(f, N, none, step)
    BY <1>1, <1>2, <2>1, IntervalRecursion
  <2>3. QED BY <2>2 DEF Recurs, none
<1> HIDE DEF Ready, N, S
<1>4. \A i \in 1..N : f[i] = f[i - 1] \cup Ready(f[i - 1])
  <2>1. \A i \in 1..N : i - 1 \in 0..N
    BY <1>1
  <2>2. \A i \in 1..N : f[i - 1] \in S
    BY <2>1
  <2>3. QED BY <1>3, <2>2
<1>5. f = Def(f)
  <2>1. \A i \in 0..N : f[i] = IF i = 0 THEN {} ELSE f[i - 1] \cup Ready(f[i - 1])
    <3>1. \A i \in 0..N : i = 0 \/ i \in 1..N
      BY <1>1
    <3>2. QED BY <1>3, <1>4, <3>1
  <2>2. QED BY <2>1
<1>6. A = CHOOSE g : g = Def(g)
  BY DEF Assigned, N, Ready, prereqs
<1>7. A = Def(A)
  <2> HIDE DEF Def, A
  <2>1. QED BY <1>5, <1>6
<1> HIDE DEF A
<1>8. DOMAIN A = 0..N /\ A = [i \in 0..N |-> A[i]] /\ A[0] = {}
  BY <1>1, <1>7
<1>9. \A i \in 1..N : A[i] = A[i - 1] \cup Ready(A[i - 1])
  <2>1. \A i \in 1..N : i \in 0..N /\ i # 0
    BY <1>1
  <2>2. QED BY <1>7, <2>1
<1> DEFINE Bad == {i \in 0..N : A[i] \notin S}
<1>10. Bad = {}
  <2>1. SUFFICES ASSUME Bad # {} PROVE FALSE
    OBVIOUS
  <2>2. PICK k \in Bad : \A m \in Bad : k <= m
    <3>1. Bad \subseteq Nat
      BY <1>1
    <3> HIDE DEF Bad
    <3>2. QED BY <2>1, <3>1, LeastNumber
  <2>3. k # 0
    BY <1>8, <2>2 DEF S
  <2>4. k \in 1..N /\ k - 1 \in 0..N /\ ~(k <= k - 1)
    BY <1>1, <2>2, <2>3
  <2>5. A[k - 1] \in S
    BY <2>2, <2>4
  <2>6. A[k] = A[k - 1] \cup Ready(A[k - 1])
    BY <1>9, <2>4
  <2>7. A[k] \in S
    BY <1>0, <2>5, <2>6 DEF S
  <2>8. QED BY <2>2, <2>7
<1>11. A \in [0..N -> SUBSET Nodes]
  BY <1>8, <1>10 DEF S
<1>12. \A i \in 1..N :
         A[i] = A[i - 1] \cup {s \in Nodes : EffectivePrereqs(edges)[s] \subseteq A[i - 1]}
  BY <1>0, <1>9
<1>13. QED BY <1>1, <1>8, <1>11, <1>12 DEF N, A

\* What is assigned stays so.
LEMMA AssignedGrows ==
    ASSUME NEW N \in Nat, NEW A, \A i \in 1..N : A[i - 1] \subseteq A[i],
           NEW i \in 0..N, NEW j \in 0..N, i <= j
    PROVE  A[i] \subseteq A[j]
<1> DEFINE Bad == {k \in 0..N : i <= k /\ ~(A[i] \subseteq A[k])}
<1>1. Bad = {}
  <2>1. SUFFICES ASSUME Bad # {} PROVE FALSE
    OBVIOUS
  <2>2. PICK k \in Bad : \A m \in Bad : k <= m
    <3>1. Bad \subseteq Nat
      OBVIOUS
    <3> HIDE DEF Bad
    <3>2. QED BY <2>1, <3>1, LeastNumber
  <2>3. k # i
    OBVIOUS
  <2>4. k \in 1..N /\ k - 1 \in 0..N /\ i <= k - 1 /\ ~(k <= k - 1)
    BY <2>2, <2>3
  <2>5. A[i] \subseteq A[k - 1]
    BY <2>2, <2>4
  <2>6. QED BY <2>2, <2>4, <2>5
<1>2. QED BY <1>1

LEMMA WavesInOrder ==
    ASSUME LevelsFit(rows), NEW edges \in NodeEdges, \A y : <<y, y>> \notin Waits(edges)
    PROVE  LET wave == WavesOf(edges)
               complete == \A s \in Nodes : wave[s] # {}
           IN  /\ complete <=> ~HasCycle(Waits(edges))
               /\ \A w \in Waits(edges) : \A i \in wave[w[1]], j \in wave[w[2]] : i < j
<1> DEFINE W == Waits(edges)
           N == Cardinality(Nodes)
           A == Assigned(edges)
           wave == WavesOf(edges)
           before == [s \in Nodes |-> {x \in Nodes : <<x, s>> \in W}]
<1>1. W \in EdgeSets /\ \A w \in W : w = <<w[1], w[2]>> /\ w[1] \in Nodes /\ w[2] \in Nodes
  BY WaitsTyped DEF NodeEdges
<1>2. /\ N \in Nat
      /\ A \in [0..N -> SUBSET Nodes]
      /\ A[0] = {}
      /\ \A i \in 1..N : A[i] = A[i - 1] \cup {s \in Nodes : before[s] \subseteq A[i - 1]}
  <2>1. \A s \in Nodes : EffectivePrereqs(edges)[s] = before[s]
    BY EffectiveIsWaits
  <2> HIDE DEF before
  <2>2. /\ N \in Nat
        /\ A \in [0..N -> SUBSET Nodes]
        /\ A[0] = {}
        /\ \A i \in 1..N : A[i] = A[i - 1] \cup
              {s \in Nodes : EffectivePrereqs(edges)[s] \subseteq A[i - 1]}
    BY AssignedFact
  <2> HIDE DEF N, A
  <2>3. QED BY <2>1, <2>2
<1>3. \A s \in Nodes : wave[s] = {n \in 1..N : s \in A[n] \ A[n - 1]}
  <2> DEFINE waves == {<<n, A[n] \ A[n - 1]>> : n \in 1..N}
  <2>1. wave = [s \in Nodes |-> {w[1] : w \in {v \in waves : s \in v[2]}}]
    BY DEF WavesOf
  <2> HIDE DEF wave, A, N
  <2>2. ASSUME NEW s
        PROVE  {w[1] : w \in {v \in waves : s \in v[2]}} = {n \in 1..N : s \in A[n] \ A[n - 1]}
    <3>1. \A v \in waves : v[1] \in 1..N /\ v[2] = A[v[1]] \ A[v[1] - 1]
      OBVIOUS
    <3>2. \A n \in 1..N : <<n, A[n] \ A[n - 1]>> \in waves
      OBVIOUS
    <3> DEFINE own == {v \in waves : s \in v[2]}
    <3> HIDE DEF waves
    <3>3. ASSUME NEW v \in own PROVE v[1] \in 1..N /\ s \in A[v[1]] \ A[v[1] - 1]
      BY <3>1
    <3>4. ASSUME NEW n \in 1..N, s \in A[n] \ A[n - 1] PROVE \E v \in own : v[1] = n
      <4>1. <<n, A[n] \ A[n - 1]>> \in own
        BY <3>2, <3>4
      <4>2. QED BY <4>1
    <3> HIDE DEF own
    <3>5. {w[1] : w \in own} = {n \in 1..N : s \in A[n] \ A[n - 1]}
      BY <3>3, <3>4
    <3>6. QED BY <3>5 DEF own
  <2> HIDE DEF waves
  <2>3. QED BY <2>1, <2>2
<1>4. \A s \in Nodes : \A x : x \in before[s] <=> x \in Nodes /\ <<x, s>> \in W
  OBVIOUS
<1> HIDE DEF W, N, A, wave, before
<1>5. ASSUME NEW i \in 0..N, NEW j \in 0..N, i <= j PROVE A[i] \subseteq A[j]
  <2>1. \A k \in 1..N : A[k - 1] \subseteq A[k]
    BY <1>2
  <2>2. QED BY <1>2, <1>5, <2>1, AssignedGrows
<1>6. ASSUME NEW s \in Nodes PROVE wave[s] # {} <=> s \in A[N]
  <2>1. ASSUME NEW n \in wave[s] PROVE s \in A[N]
    <3>1. n \in 0..N /\ N \in 0..N /\ n <= N /\ s \in A[n]
      BY <1>2, <1>3, <2>1
    <3>2. QED BY <1>5, <3>1
  <2>2. ASSUME s \in A[N] PROVE wave[s] # {}
    <3> DEFINE F == {n \in 0..N : s \in A[n]}
    <3>1. F \subseteq Nat /\ N \in F
      BY <1>2, <2>2
    <3>2. PICK n \in F : \A m \in F : n <= m
      <4> HIDE DEF F
      <4>1. QED BY <3>1, LeastNumber
    <3>3. n # 0
      BY <1>2, <3>2
    <3>4. n \in 1..N /\ n - 1 \in 0..N /\ ~(n <= n - 1)
      BY <1>2, <3>2, <3>3
    <3>5. s \in A[n] \ A[n - 1]
      BY <3>2, <3>4
    <3>6. QED BY <1>3, <3>4, <3>5
  <2>3. QED BY <2>1, <2>2
<1>7. ASSUME NEW w \in W, NEW i \in wave[w[1]], NEW j \in wave[w[2]] PROVE i < j
  <2>1. w = <<w[1], w[2]>> /\ w[1] \in Nodes /\ w[2] \in Nodes
    BY <1>1
  <2>2. i \in 1..N /\ w[1] \notin A[i - 1] /\ j \in 1..N /\ w[2] \in A[j] \ A[j - 1]
    BY <1>3, <1>7, <2>1
  <2>3. before[w[2]] \subseteq A[j - 1]
    BY <1>2, <2>1, <2>2
  <2>4. w[1] \in A[j - 1]
    BY <1>4, <2>1, <2>3
  <2>5. SUFFICES ASSUME j <= i PROVE FALSE
    BY <1>2, <2>2
  <2>6. i - 1 \in 0..N /\ j - 1 \in 0..N /\ j - 1 <= i - 1
    BY <1>2, <2>2, <2>5
  <2>7. QED BY <1>5, <2>2, <2>4, <2>6
<1>8. ASSUME A[N] = Nodes, HasCycle(W) PROVE FALSE
  <2>1. PICK set : Stuck(W, set)
    BY <1>1, <1>8, CycleIsStuck
  <2>2. ASSUME NEW y \in set
        PROVE  y \in Nodes /\ \E x \in set : <<x, y>> \in W
    <3>1. PICK w \in W : w[1] \in set /\ w[2] \in set /\ w[2] = y
      BY <2>1, WaitingFact DEF Stuck
    <3>2. QED BY <1>1, <3>1
  <2> DEFINE F == {n \in 0..N : A[n] \cap set # {}}
  <2>3. F \subseteq Nat /\ N \in F
    <3>1. set # {} /\ set \subseteq Nodes
      BY <2>1, <2>2 DEF Stuck
    <3>2. QED BY <1>2, <1>8, <3>1
  <2>4. PICK n \in F : \A m \in F : n <= m
    <3> HIDE DEF F
    <3>1. QED BY <2>3, LeastNumber
  <2>5. n # 0
    BY <1>2, <2>4
  <2>6. n \in 1..N /\ n - 1 \in 0..N /\ ~(n <= n - 1)
    BY <1>2, <2>4, <2>5
  <2>7. A[n - 1] \cap set = {}
    BY <2>4, <2>6
  <2>8. PICK y \in set : y \in A[n]
    BY <2>4
  <2>9. before[y] \subseteq A[n - 1]
    BY <1>2, <2>6, <2>7, <2>8
  <2>10. PICK x \in set : <<x, y>> \in W /\ x \in Nodes /\ y \in Nodes
    BY <2>2, <2>8
  <2>11. QED BY <1>4, <2>7, <2>9, <2>10
<1>9. ASSUME ~HasCycle(W) PROVE A[N] = Nodes
  <2>1. ASSUME NEW n \in 1..N, A[n - 1] # Nodes
        PROVE  \E s \in Nodes \ A[n - 1] : s \in A[n]
    <3> DEFINE left == Nodes \ A[n - 1]
    <3>1. n - 1 \in 0..N /\ A[n - 1] \subseteq Nodes
      BY <1>2
    <3>2. left # {} /\ left \subseteq Nodes
      BY <2>1, <3>1
    <3>3. ~Stuck(W, left)
      BY <1>1, <1>9, CycleIsStuck
    <3>4. PICK s \in left : s \notin Waiting(W, left)
      BY <3>2, <3>3 DEF Stuck
    <3>5. before[s] \subseteq A[n - 1]
      <4>1. SUFFICES ASSUME NEW x \in before[s], x \notin A[n - 1] PROVE FALSE
        OBVIOUS
      <4>2. x \in left /\ <<x, s>> \in W
        BY <1>4, <3>4, <4>1
      <4>3. QED BY <3>4, <4>2, WaitingFact
    <3>6. QED BY <1>2, <3>4, <3>5
  <2> DEFINE Bad == {n \in 0..N : A[n] # Nodes /\ Cardinality(A[n]) < n}
  <2>2. \A n \in 0..N : A[n] \subseteq Nodes /\ IsFiniteSet(A[n]) /\ Cardinality(A[n]) \in Nat
    BY <1>2, EdgesAreSets, FS_Subset, FS_CardinalityType
  <2>3. Bad = {}
    <3>1. SUFFICES ASSUME Bad # {} PROVE FALSE
      OBVIOUS
    <3>2. PICK n \in Bad : \A m \in Bad : n <= m
      <4>1. Bad \subseteq Nat
        OBVIOUS
      <4> HIDE DEF Bad
      <4>2. QED BY <3>1, <4>1, LeastNumber
    <3>3. n \in 0..N /\ n # 0
      BY <2>2, <3>2
    <3>4. n \in 1..N /\ n - 1 \in 0..N /\ ~(n <= n - 1)
      BY <1>2, <3>3
    <3>5. A[n - 1] \subseteq A[n] /\ A[n] \subseteq Nodes
      BY <1>5, <2>2, <3>4
    <3>6. A[n - 1] # Nodes
      BY <3>2, <3>5
    <3>7. n - 1 <= Cardinality(A[n - 1])
      BY <2>2, <3>2, <3>4, <3>6
    <3>8. A[n - 1] # A[n]
      BY <2>1, <3>4, <3>6
    <3>9. Cardinality(A[n - 1]) < Cardinality(A[n])
      BY <2>2, <3>4, <3>5, <3>8, FS_Subset
    <3>10. QED BY <2>2, <3>2, <3>4, <3>7, <3>9
  <2>4. N \in 0..N
    BY <1>2
  <2>5. A[N] = Nodes \/ N <= Cardinality(A[N])
    BY <2>2, <2>3, <2>4
  <2>6. A[N] # Nodes => Cardinality(A[N]) < N
    BY <2>2, <2>4, EdgesAreSets, FS_Subset, FS_CardinalityType DEF N
  <2>7. QED BY <1>2, <2>2, <2>4, <2>5, <2>6
<1>10. (\A s \in Nodes : wave[s] # {}) <=> A[N] = Nodes
  <2>1. N \in 0..N
    BY <1>2
  <2>2. A[N] \subseteq Nodes
    BY <1>2, <2>1
  <2>3. QED BY <1>6, <2>2
<1>11. (\A s \in Nodes : wave[s] # {}) <=> ~HasCycle(W)
  BY <1>8, <1>9, <1>10
<1>12. QED BY <1>7, <1>11 DEF wave, W

\* The waves of an execution graph without cycles are right: the steps that
\* wait for none left are given a wave again and again, and no step is left
\* unless subtrees wait for each other (waves of dependency_graph.py).
THEOREM WavesAreSound == Spec => []WavesSound
<1>1. ASSUME TreeInv PROVE WavesSound
  <2>1. SUFFICES ASSUME NoneWaitsBelow(rows), NEW edges \in Graphs, ~HasCycle(edges)
                 PROVE  LET wave     == WavesOf(edges)
                            complete == \A s \in Nodes : wave[s] # {}
                        IN  /\ complete <=> ~HasCycle(Waits(edges))
                            /\ complete => \A w \in Waits(edges) :
                                  \A i \in wave[w[1]], j \in wave[w[2]] : i < j
    BY DEF WavesSound
  <2>2. PICK order \in RowOrders(rows) : edges = BuildEdges(rows, order)
    BY DEF Graphs
  <2>3. LevelsFit(rows)
    BY <1>1 DEF TreeInv
  <2>4. edges \in NodeEdges
    BY <2>2, BuildInNodes
  <2>5. ASSUME NEW y PROVE <<y, y>> \notin Waits(edges)
    <3>1. ~HasCycle(BuildEdges(rows, order))
      BY <2>1, <2>2
    <3>2. <<y, y>> \notin Waits(BuildEdges(rows, order))
      BY <2>1, <2>3, <3>1, NoneWaitsForItself
    <3>3. QED BY <2>2, <3>2
  <2>6. QED BY <2>3, <2>4, <2>5, WavesInOrder
<1>2. QED BY <1>1, TreeInvariant, PTL
=============================================================================
