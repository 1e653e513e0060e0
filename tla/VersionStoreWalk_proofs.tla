------------------------ MODULE VersionStoreWalk_proofs ------------------------
(***************************************************************************)
(* Proofs about the walks of the version store, for every store that       *)
(* record_revision can make: state_at and log return what is kept with     *)
(* each revision, and a revert restores what it names.                     *)
(***************************************************************************)
EXTENDS VersionStoreWalk, FiniteSetTheorems, WellFoundedInduction, TLAPS

----------------------------------------------------------------------------
(* Least elements                                                          *)

LEMMA LeastSet ==
    ASSUME NEW S, IsFiniteSet(S), NEW F, F \subseteq SUBSET S, F # {}
    PROVE  \E A \in F : \A B \in F : B \subseteq A => B = A
<1>1. FiniteSubsetsOf(S) = SUBSET S
  BY FS_FiniteSubsetsOfFinite
<1>2. IsWellFoundedOn(StrictSubsetOrdering(S), SUBSET S)
  BY <1>1, FS_StrictSubsetOrderingWellFounded
<1>3. \E A \in F : \A B \in F : <<B, A>> \notin StrictSubsetOrdering(S)
  BY <1>2, WFMin
<1>4. QED BY <1>3 DEF StrictSubsetOrdering

LEMMA LeastNumber ==
    ASSUME NEW F, F \subseteq Nat, F # {}
    PROVE  \E n \in F : \A m \in F : n <= m
<1>1. PICK top \in F : TRUE
  OBVIOUS
<1> DEFINE G == {0..m : m \in {k \in F : k <= top}}
<1>2. IsFiniteSet(0..top)
  BY FS_Interval
<1>3. G \subseteq SUBSET (0..top) /\ G # {}
  OBVIOUS
<1>4. PICK A \in G : \A B \in G : B \subseteq A => B = A
  <2> DEFINE I == 0..top
  <2>1. IsFiniteSet(I) /\ G \subseteq SUBSET I /\ G # {}
    BY <1>2, <1>3
  <2> HIDE DEF G, I
  <2>2. QED BY <2>1, LeastSet
<1>5. PICK n \in F : n <= top /\ A = 0..n
  OBVIOUS
<1>6. ASSUME NEW m \in F PROVE n <= m
  <2>1. SUFFICES ASSUME m < n PROVE FALSE
    BY <1>6
  <2>2. 0..m \in G /\ 0..m \subseteq 0..n
    BY <1>5, <2>1
  <2>3. 0..m = 0..n
    BY <1>4, <1>5, <2>2
  <2>4. n \in 0..n /\ n \notin 0..m
    BY <1>5, <2>1
  <2>5. QED BY <2>3, <2>4
<1>7. QED BY <1>5, <1>6

Recurs(f, n, first, step) == f[0] = first /\ \A i \in 1..n : f[i] = step[<<i, f[i - 1]>>]

\* A function on an interval may be defined by its first value and the step to
\* the next.
LEMMA IntervalRecursion ==
    ASSUME NEW n \in Nat, NEW S, NEW first \in S, NEW step \in [(1..n) \X S -> S]
    PROVE  \E f \in [0..n -> S] : Recurs(f, n, first, step)
<1> DEFINE Solves(f, k) == f[0] = first /\ \A i \in 1..k : f[i] = step[<<i, f[i - 1]>>]
           Bad == {k \in 0..n : ~\E f \in [0..k -> S] : Solves(f, k)}
<1>1. Bad = {}
  <2>1. SUFFICES ASSUME Bad # {} PROVE FALSE
    OBVIOUS
  <2>2. PICK k \in Bad : \A m \in Bad : k <= m
    <3>1. Bad \subseteq Nat
      OBVIOUS
    <3> HIDE DEF Bad
    <3>2. QED BY <2>1, <3>1, LeastNumber
  <2>3. k # 0
    <3>1. [i \in 0..0 |-> first] \in [0..0 -> S] /\ Solves([i \in 0..0 |-> first], 0)
      OBVIOUS
    <3>2. QED BY <3>1
  <2>4. k - 1 \in 0..n /\ k - 1 \notin Bad /\ k \in 1..n
    BY <2>2, <2>3
  <2>5. PICK f \in [0..(k - 1) -> S] : Solves(f, k - 1)
    BY <2>4
  <2> DEFINE g == [i \in 0..k |-> IF i = k THEN step[<<k, f[k - 1]>>] ELSE f[i]]
  <2>6. f[k - 1] \in S
    BY <2>4
  <2>7. g \in [0..k -> S]
    BY <2>4, <2>6
  <2>8. g[0] = first
    BY <2>4, <2>5
  <2>9. \A i \in 1..k : g[i] = step[<<i, g[i - 1]>>]
    <3>1. TAKE i \in 1..k
    <3>2. i - 1 \in 0..(k - 1) /\ i - 1 # k /\ i - 1 \in 0..k
      BY <2>4
    <3>3. g[i - 1] = f[i - 1]
      BY <3>2
    <3>4. CASE i = k
      <4>1. i \in 0..k
        BY <3>2
      <4>2. g[i] = step[<<k, f[k - 1]>>]
        BY <3>4, <4>1
      <4> HIDE DEF g
      <4>3. QED BY <3>3, <3>4, <4>2
    <3>5. CASE i # k
      <4>1. i \in 1..(k - 1) /\ i \in 0..k
        BY <3>5, <2>4
      <4>2. f[i] = step[<<i, f[i - 1]>>]
        BY <2>5, <4>1
      <4>3. QED BY <3>3, <3>5, <4>1, <4>2
    <3>6. QED BY <3>4, <3>5
  <2>10. QED BY <2>2, <2>7, <2>8, <2>9
<1>2. n \in 0..n /\ n \notin Bad
  <2> HIDE DEF Bad
  <2>1. QED BY <1>1
<1>3. QED BY <1>2 DEF Recurs

----------------------------------------------------------------------------
(* What the walks read                                                     *)

\* Each revision is its parent's state with what it touched, after what its
\* parent's chain holds; and parents are older.
Linked(store) ==
    \A q \in 1..Len(store) :
        /\ store[q].parent \in 0..(q - 1)
        /\ store[q].touched \subseteq Entities
        /\ \A e \in Entities \ store[q].touched :
              store[q].at[e] = StateAt(store, store[q].parent)[e]
        /\ store[q].at = [e \in Entities |-> store[q].at[e]]
        /\ store[q].chain = Chain(store, store[q].parent) \cup {q}

\* A path may be defined by the paths of older revisions.
LEMMA PathsExist ==
    ASSUME NEW n \in Nat, NEW up, \A q \in 1..n : up[q] \in 0..(q - 1)
    PROVE  \E f \in [0..n -> Seq(1..n)] :
              f[0] = <<>> /\ \A q \in 1..n : f[q] = <<q>> \o f[up[q]]
<1> DEFINE S == Seq(1..n)
           Solves(f, k) == f[0] = <<>> /\ \A q \in 1..k : f[q] = <<q>> \o f[up[q]]
           Bad == {k \in 0..n : ~\E f \in [0..k -> S] : Solves(f, k)}
<1>1. Bad = {}
  <2>1. SUFFICES ASSUME Bad # {} PROVE FALSE
    OBVIOUS
  <2>2. PICK k \in Bad : \A m \in Bad : k <= m
    <3>1. Bad \subseteq Nat
      OBVIOUS
    <3> HIDE DEF Bad
    <3>2. QED BY <2>1, <3>1, LeastNumber
  <2>3. k # 0
    <3>1. [i \in 0..0 |-> <<>>] \in [0..0 -> S] /\ Solves([i \in 0..0 |-> <<>>], 0)
      OBVIOUS
    <3>2. QED BY <3>1
  <2>4. k - 1 \in 0..n /\ k - 1 \notin Bad /\ k \in 1..n
    <3>1. k \in 0..n
      BY <2>2
    <3> HIDE DEF Bad
    <3>2. k - 1 \in 0..n /\ ~(k <= k - 1) /\ k \in 1..n
      BY <3>1, <2>3
    <3>3. QED BY <2>2, <3>2
  <2>5. PICK f \in [0..(k - 1) -> S] : Solves(f, k - 1)
    BY <2>4
  <2> DEFINE g == [i \in 0..k |-> IF i = k THEN <<k>> \o f[up[k]] ELSE f[i]]
  <2>6. ASSUME NEW q \in 1..k PROVE up[q] \in 0..(k - 1) /\ up[q] # k /\ up[q] \in 0..k
    <3> HIDE DEF Bad, g, S
    <3>1. q \in 1..n /\ up[q] \in 0..(q - 1)
      BY <2>4
    <3>2. QED BY <2>4, <3>1
  <2>7. f[up[k]] \in S /\ <<k>> \in S
    <3>1. k \in 1..k /\ k \in 1..n
      BY <2>4
    <3>2. up[k] \in 0..(k - 1)
      BY <2>6, <3>1
    <3>3. <<k>> \in S
      BY <3>1
    <3> HIDE DEF S
    <3>4. QED BY <3>2, <3>3
  <2>8. <<k>> \o f[up[k]] \in S
    BY <2>7
  <2>9. \A i \in 0..k : i # k => i \in 0..(k - 1)
    BY <2>4
  <2> HIDE DEF S
  <2>10. g \in [0..k -> S]
    BY <2>8, <2>9
  <2>11. g[0] = <<>>
    BY <2>4, <2>5
  <2>12. \A q \in 1..k : g[q] = <<q>> \o g[up[q]]
    <3>1. TAKE q \in 1..k
    <3>2. g[up[q]] = f[up[q]]
      BY <2>6
    <3>3. CASE q = k
      <4>1. q \in 0..k
        BY <2>4
      <4>2. g[q] = <<k>> \o f[up[k]]
        BY <3>3, <4>1
      <4> HIDE DEF g
      <4>3. QED BY <3>2, <3>3, <4>2
    <3>4. CASE q # k
      <4>1. q \in 1..(k - 1) /\ q \in 0..k
        BY <3>4, <2>4
      <4>2. f[q] = <<q>> \o f[up[q]]
        BY <2>5, <4>1
      <4>3. QED BY <3>2, <3>4, <4>1, <4>2
    <3>5. QED BY <3>3, <3>4
  <2>13. QED BY <2>2, <2>10, <2>11, <2>12
<1>2. n \in 0..n /\ n \notin Bad
  <2> HIDE DEF Bad
  <2>1. QED BY <1>1
<1>3. QED BY <1>2

\* log: a revision, then the log of its parent.
LEMMA LogUnfolds ==
    ASSUME Len(revs) \in Nat, Linked(revs)
    PROVE  /\ Log(0) = <<>>
           /\ \A q \in 1..Len(revs) : Log(q) = <<q>> \o Log(revs[q].parent)
<1> DEFINE n == Len(revs)
           up == [q \in 1..n |-> revs[q].parent]
           Def(f) == [q \in Revisions \cup {NoRevision} |->
                         IF q = NoRevision THEN <<>> ELSE <<q>> \o f[revs[q].parent]]
           from == CHOOSE f : f = Def(f)
<1>1. Revisions \cup {NoRevision} = 0..n /\ NoRevision = 0
  BY DEF Revisions, NoRevision
<1>2. \A q \in 1..n : up[q] = revs[q].parent /\ up[q] \in 0..(q - 1) /\ up[q] \in 0..n
  <2>1. \A q \in 1..n : revs[q].parent \in 0..(q - 1)
    BY DEF Linked
  <2>2. \A q \in 1..n : \A p \in 0..(q - 1) : p \in 0..n
    OBVIOUS
  <2>3. QED BY <2>1, <2>2
<1>3. \A q : Log(q) = from[q]
  BY DEF Log
<1>4. PICK f \in [0..n -> Seq(1..n)] : f[0] = <<>> /\ \A q \in 1..n : f[q] = <<q>> \o f[up[q]]
  <2> HIDE DEF n, up
  <2>1. n \in Nat
    BY DEF n
  <2>2. QED BY <1>2, <2>1, PathsExist
<1>5. f = Def(f)
  <2>1. \A q \in 0..n : f[q] = IF q = 0 THEN <<>> ELSE <<q>> \o f[revs[q].parent]
    <3>1. \A q \in 0..n : q = 0 \/ q \in 1..n
      OBVIOUS
    <3> HIDE DEF n, up
    <3>2. QED BY <1>2, <1>4, <3>1
  <2> HIDE DEF n, up
  <2>2. QED BY <1>1, <2>1
<1>6. from = Def(from)
  <2> HIDE DEF Def
  <2>1. QED BY <1>5
<1> HIDE DEF from
<1>7. \A q \in 0..n : from[q] = IF q = 0 THEN <<>> ELSE <<q>> \o from[revs[q].parent]
  <2> HIDE DEF n
  <2>1. QED BY <1>1, <1>6
<1>8. \A q \in 1..n : q \in 0..n /\ q # 0
  OBVIOUS
<1>9. 0 \in 0..n
  OBVIOUS
<1> HIDE DEF n, up, Def
<1>10. QED BY <1>3, <1>7, <1>8, <1>9 DEF n

\* What is to be shown of the log of r.
IsLog(r, log) ==
    /\ log \in Seq(1..Len(revs))
    /\ r = 0 <=> Len(log) = 0
    /\ r # 0 => log[1] = r
    /\ \A i \in 1..Len(log) : revs[log[i]].parent = IF i < Len(log) THEN log[i + 1] ELSE 0
    /\ {log[i] : i \in 1..Len(log)} = Chain(revs, r)
    /\ Chain(revs, r) \subseteq 1..r
    /\ \A i, j \in 1..Len(log) : log[i] = log[j] => i = j

\* The log of a revision, from that of its parent.
LEMMA LogGrows ==
    ASSUME Len(revs) \in Nat, Linked(revs), NEW q \in 1..Len(revs),
           NEW rest, IsLog(revs[q].parent, rest)
    PROVE  IsLog(q, <<q>> \o rest)
<1> DEFINE n == Len(revs)
           p == revs[q].parent
           log == <<q>> \o rest
<1>1. p \in 0..(q - 1) /\ q \in 1..n /\ n \in Nat
  BY DEF Linked
<1>2. Chain(revs, q) = Chain(revs, p) \cup {q}
  <2>1. Chain(revs, q) = revs[q].chain
    BY <1>1 DEF Chain, NoRevision
  <2>2. revs[q].chain = Chain(revs, p) \cup {q}
    BY DEF Linked
  <2>3. QED BY <2>1, <2>2
<1>3. rest \in Seq(1..n) /\ Len(rest) \in Nat
  BY DEF IsLog
<1>4. /\ log \in Seq(1..n)
      /\ Len(log) = Len(rest) + 1
      /\ log[1] = q
      /\ \A i \in 1..Len(rest) : log[i + 1] = rest[i]
  <2> HIDE DEF n, p
  <2>1. <<q>> \in Seq(1..n) /\ Len(<<q>>) = 1 /\ <<q>>[1] = q
    BY <1>1
  <2>2. QED BY <1>3, <2>1
<1>5. ASSUME NEW i \in 1..Len(log) PROVE i = 1 \/ i - 1 \in 1..Len(rest)
  <2> HIDE DEF log
  <2>1. QED BY <1>3, <1>4
<1> HIDE DEF log, n, p
<1>6. ASSUME NEW i \in 1..Len(log)
      PROVE  revs[log[i]].parent = IF i < Len(log) THEN log[i + 1] ELSE 0
  <2>1. CASE i = 1
    <3>1. p # 0 => rest[1] = p /\ 1 \in 1..Len(rest)
      BY <1>3 DEF IsLog, p
    <3>2. p = 0 => Len(rest) = 0
      BY DEF IsLog, p
    <3>3. revs[log[i]].parent = p
      BY <1>4, <2>1 DEF p
    <3>4. QED BY <1>3, <1>4, <2>1, <3>1, <3>2, <3>3
  <2>2. CASE i - 1 \in 1..Len(rest)
    <3>1. revs[rest[i - 1]].parent = IF i - 1 < Len(rest) THEN rest[(i - 1) + 1] ELSE 0
      BY <2>2 DEF IsLog
    <3>2. log[(i - 1) + 1] = rest[i - 1] /\ (i - 1) + 1 = i
      BY <1>4, <2>2
    <3>3. i - 1 < Len(rest) => i \in 1..Len(rest) /\ i < Len(log)
      BY <1>3, <1>4, <2>2
    <3>4. i < Len(log) => i - 1 < Len(rest)
      BY <1>3, <1>4, <2>2
    <3>5. QED BY <1>4, <3>1, <3>2, <3>3, <3>4
  <2>3. QED BY <1>5, <2>1, <2>2
<1>7. {log[i] : i \in 1..Len(log)} = Chain(revs, q)
  <2>1. {rest[i] : i \in 1..Len(rest)} = Chain(revs, p)
    BY DEF IsLog, p
  <2>2. ASSUME NEW i \in 1..Len(log) PROVE log[i] = q \/ \E j \in 1..Len(rest) : log[i] = rest[j]
    <3>1. CASE i = 1
      BY <1>4, <3>1
    <3>2. CASE i - 1 \in 1..Len(rest)
      <4>1. log[(i - 1) + 1] = rest[i - 1] /\ (i - 1) + 1 = i
        BY <1>4, <3>2
      <4>2. QED BY <3>2, <4>1
    <3>3. QED BY <1>5, <3>1, <3>2
  <2>3. 1 \in 1..Len(log) /\ \A j \in 1..Len(rest) : j + 1 \in 1..Len(log)
    BY <1>3, <1>4
  <2>4. ASSUME NEW j \in 1..Len(rest) PROVE \E i \in 1..Len(log) : log[i] = rest[j]
    BY <1>4, <2>3
  <2>5. ASSUME NEW i \in 1..Len(log) PROVE log[i] \in Chain(revs, q)
    BY <1>2, <2>1, <2>2
  <2>6. ASSUME NEW x \in Chain(revs, q) PROVE \E i \in 1..Len(log) : log[i] = x
    <3>1. CASE x = q
      BY <1>4, <2>3, <3>1
    <3>2. CASE x \in Chain(revs, p)
      <4>1. PICK j \in 1..Len(rest) : x = rest[j]
        BY <2>1, <3>2
      <4>2. QED BY <2>4, <4>1
    <3>3. QED BY <1>2, <3>1, <3>2
  <2>7. QED BY <2>5, <2>6
<1>8. Chain(revs, p) \subseteq 1..p
  BY DEF IsLog, p
<1>9. Chain(revs, q) \subseteq 1..q /\ q \notin Chain(revs, p)
  BY <1>1, <1>2, <1>8
<1>10. ASSUME NEW i \in 1..Len(log), NEW j \in 1..Len(log), log[i] = log[j] PROVE i = j
  <2>1. ASSUME NEW k \in 1..Len(log), k - 1 \in 1..Len(rest)
        PROVE  log[k] = rest[k - 1] /\ log[k] # q
    <3>1. log[(k - 1) + 1] = rest[k - 1] /\ (k - 1) + 1 = k
      BY <1>4, <2>1
    <3>2. rest[k - 1] \in Chain(revs, p)
      BY <2>1 DEF IsLog, p
    <3>3. QED BY <1>9, <3>1, <3>2
  <2>2. CASE i = 1
    BY <1>4, <1>5, <1>10, <2>1, <2>2
  <2>3. CASE j = 1
    BY <1>4, <1>5, <1>10, <2>1, <2>3
  <2>4. CASE i - 1 \in 1..Len(rest) /\ j - 1 \in 1..Len(rest)
    <3>1. rest[i - 1] = rest[j - 1]
      BY <1>10, <2>1, <2>4
    <3>2. i - 1 = j - 1
      BY <2>4, <3>1 DEF IsLog
    <3>3. QED BY <3>2
  <2>5. QED BY <1>5, <2>2, <2>3, <2>4
<1>11. log \in Seq(1..Len(revs)) /\ q # 0 /\ Len(log) # 0
  BY <1>1, <1>3, <1>4 DEF n
<1>12. IsLog(q, log)
  BY <1>4, <1>6, <1>7, <1>9, <1>10, <1>11 DEF IsLog
<1>13. QED BY <1>12 DEF log

LEMMA LogFact ==
    ASSUME Len(revs) \in Nat, Linked(revs), NEW r \in 0..Len(revs)
    PROVE  IsLog(r, Log(r))
<1> DEFINE n == Len(revs)
           Bad == {k \in 0..n : ~IsLog(k, Log(k))}
<1>1. Bad = {}
  <2>1. SUFFICES ASSUME Bad # {} PROVE FALSE
    OBVIOUS
  <2>2. PICK k \in Bad : \A m \in Bad : k <= m
    <3>1. Bad \subseteq Nat
      OBVIOUS
    <3> HIDE DEF Bad
    <3>2. QED BY <2>1, <3>1, LeastNumber
  <2>3. CASE k = 0
    <3>1. Log(0) = <<>> /\ Chain(revs, 0) = {}
      BY LogUnfolds DEF Chain, NoRevision
    <3>3. IsLog(0, <<>>)
      <4>1. <<>> \in Seq(1..n) /\ Len(<<>>) = 0
        OBVIOUS
      <4>2. 1..0 = {}
        OBVIOUS
      <4>3. QED BY <3>1, <4>1, <4>2 DEF IsLog, n
    <3>4. QED BY <2>2, <2>3, <3>1, <3>3
  <2>4. CASE k # 0
    <3>1. k \in 1..n /\ k \in Nat
      BY <2>2, <2>4
    <3> DEFINE p == revs[k].parent
    <3>2. p \in 0..(k - 1)
      BY <3>1 DEF Linked
    <3>3. p \in 0..n /\ ~(k <= p)
      <4> HIDE DEF p, Bad
      <4>1. QED BY <3>1, <3>2
    <3>4. IsLog(p, Log(p))
      BY <2>2, <3>3
    <3>5. Log(k) = <<k>> \o Log(p)
      BY <3>1, LogUnfolds
    <3>6. IsLog(k, <<k>> \o Log(p))
      BY <3>1, <3>4, LogGrows
    <3>7. QED BY <2>2, <3>5, <3>6
  <2>5. QED BY <2>3, <2>4
<1>2. QED BY <1>1

\* The loop of state_at, round after round.
LEMMA LoopFact ==
    ASSUME Len(revs) \in Nat, Linked(revs), NEW r \in 1..Len(revs)
    PROVE  LET log == Log(r)
           IN  \E met : /\ WalkedState(r) = met[Len(log)].state
                        /\ met[0] = [seen |-> {}, state |-> EmptyState]
                        /\ \A n \in 1..Len(log) : met[n] = Visit(met[n - 1], log[n])
<1> DEFINE log == Log(r)
           N == Len(log)
           V == {Absent} \cup UNION {{revs[q].at[e] : e \in Entities} : q \in 1..Len(revs)}
           S == [seen : SUBSET Entities, state : [Entities -> V]]
           first == [seen |-> {}, state |-> EmptyState]
           step == [na \in (1..N) \X S |-> Visit(na[2], log[na[1]])]
           Def(f) == [n \in 0..N |-> IF n = 0 THEN first ELSE Visit(f[n - 1], log[n])]
           met == CHOOSE f : f = Def(f)
<1>1. r \in 0..Len(revs)
  OBVIOUS
<1>2. log \in Seq(1..Len(revs)) /\ N \in Nat /\ \A n \in 1..N : log[n] \in 1..Len(revs)
  <2>1. IsLog(r, log)
    BY <1>1, LogFact
  <2> HIDE DEF log
  <2>2. QED BY <2>1 DEF IsLog
<1>3. first \in S
  BY DEF EmptyState
<1>4. ASSUME NEW acc \in S, NEW q \in 1..Len(revs) PROVE Visit(acc, q) \in S
  <2>1. revs[q].touched \subseteq Entities /\ \A e \in Entities : revs[q].at[e] \in V
    <3>1. revs[q].touched \subseteq Entities
      BY DEF Linked
    <3>2. ASSUME NEW e \in Entities PROVE revs[q].at[e] \in V
      OBVIOUS
    <3>3. QED BY <3>1, <3>2
  <2>2. acc.seen \subseteq Entities /\ \A e \in Entities : acc.state[e] \in V
    OBVIOUS
  <2> HIDE DEF V
  <2>3. [e \in Entities |-> IF e \in revs[q].touched \ acc.seen
                            THEN revs[q].at[e] ELSE acc.state[e]] \in [Entities -> V]
    BY <2>1, <2>2
  <2>4. QED BY <2>1, <2>2, <2>3 DEF Visit
<1> HIDE DEF S, first, log, N
<1>5. step \in [(1..N) \X S -> S]
  BY <1>2, <1>4
<1>6. PICK f \in [0..N -> S] : Recurs(f, N, first, step)
  <2> HIDE DEF step
  <2>1. QED BY <1>2, <1>3, <1>5, IntervalRecursion
<1>7. \A n \in 1..N : f[n] = Visit(f[n - 1], log[n])
  <2>1. \A n \in 1..N : n - 1 \in 0..N
    BY <1>2
  <2>2. \A n \in 1..N : <<n, f[n - 1]>> \in (1..N) \X S
    BY <2>1
  <2>3. \A n \in 1..N : f[n] = step[<<n, f[n - 1]>>]
    BY <1>6 DEF Recurs
  <2>4. QED BY <2>2, <2>3
<1>8. f = Def(f)
  <2>1. \A n \in 0..N : n = 0 \/ n \in 1..N
    BY <1>2
  <2>2. \A n \in 0..N : f[n] = IF n = 0 THEN first ELSE Visit(f[n - 1], log[n])
    BY <1>6, <1>7, <2>1 DEF Recurs
  <2>3. QED BY <2>2
<1>9. met = Def(met)
  <2> HIDE DEF Def
  <2>1. QED BY <1>8
<1>10. WalkedState(r) = met[N].state
  BY DEF WalkedState, log, N, first, EmptyState, EmptyState
<1> HIDE DEF met
<1>11. met[0] = first /\ \A n \in 1..N : met[n] = Visit(met[n - 1], log[n])
  <2>1. 0 \in 0..N /\ \A n \in 1..N : n \in 0..N /\ n # 0
    BY <1>2
  <2>2. QED BY <1>9, <2>1
<1>12. QED BY <1>10, <1>11 DEF first, log, N

LEMMA LinkedFact ==
    ASSUME Linked(revs), NEW q \in 1..Len(revs)
    PROVE  \A e \in Entities \ revs[q].touched :
              revs[q].at[e] = StateAt(revs, revs[q].parent)[e]
BY DEF Linked

\* What is seen is read off, and what is not will be read from the rest.
LEMMA WalkedFact ==
    ASSUME Len(revs) \in Nat, Linked(revs), NEW r \in 1..Len(revs)
    PROVE  WalkedState(r) = revs[r].at
<1> DEFINE log == Log(r)
           N == Len(log)
<1>1. IsLog(r, log)
  <2>1. r \in 0..Len(revs)
    OBVIOUS
  <2>2. QED BY <2>1, LogFact
<1>2. PICK met : /\ WalkedState(r) = met[N].state
                 /\ met[0] = [seen |-> {}, state |-> EmptyState]
                 /\ \A n \in 1..N : met[n] = Visit(met[n - 1], log[n])
  BY LoopFact
<1> HIDE DEF log
<1>3. N \in Nat /\ \A n \in 1..N : log[n] \in 1..Len(revs)
  BY <1>1 DEF IsLog
<1>4. N # 0 /\ log[1] = r
  BY <1>1 DEF IsLog
<1>5. \A n \in 1..N : revs[log[n]].parent = IF n < N THEN log[n + 1] ELSE 0
  BY <1>1 DEF IsLog
<1> HIDE DEF N
<1> DEFINE left == [n \in 0..N |-> IF n < N THEN log[n + 1] ELSE 0]
           Read(n, e) ==
               IF e \in met[n].seen THEN met[n].state[e] = revs[r].at[e]
               ELSE met[n].state[e] = Absent /\ StateAt(revs, left[n])[e] = revs[r].at[e]
           Whole(n) ==
               /\ met[n].state = [e \in Entities |-> met[n].state[e]]
               /\ \A e \in Entities : Read(n, e)
           Bad == {n \in 0..N : ~Whole(n)}
<1>6. Whole(0)
  <2>1. left[0] = r
    BY <1>3, <1>4
  <2>2. StateAt(revs, left[0]) = revs[r].at
    BY <2>1 DEF StateAt, NoRevision
  <2> HIDE DEF left
  <2>3. QED BY <1>2, <2>2 DEF EmptyState
<1>7. ASSUME NEW n \in 1..N, Whole(n - 1) PROVE Whole(n)
  <2> DEFINE q == log[n]
             old == met[n - 1]
  <2>1. q \in 1..Len(revs) /\ left[n - 1] = q /\ left[n] = revs[q].parent
    <3>1. n - 1 \in 0..N /\ n \in 0..N /\ n - 1 < N /\ (n - 1) + 1 = n
      BY <1>3
    <3>2. QED BY <1>3, <1>5, <3>1
  <2>2. /\ met[n].seen = old.seen \cup revs[q].touched
        /\ met[n].state = [e \in Entities |-> IF e \in revs[q].touched \ old.seen
                                              THEN revs[q].at[e] ELSE old.state[e]]
    <3>1. met[n] = Visit(old, q)
      BY <1>2
    <3> HIDE DEF old, q, left
    <3>2. QED BY <3>1 DEF Visit
  <2> HIDE DEF left, q
  <2>3. StateAt(revs, left[n - 1]) = revs[q].at
    BY <2>1 DEF StateAt, NoRevision
  <2>4. \A e \in Entities \ revs[q].touched : revs[q].at[e] = StateAt(revs, left[n])[e]
    BY <2>1, LinkedFact
  <2>5. ASSUME NEW e \in Entities PROVE Read(n, e)
    <3>1. Read(n - 1, e)
      BY <1>7
    <3>2. met[n].state[e] = IF e \in revs[q].touched \ old.seen
                            THEN revs[q].at[e] ELSE old.state[e]
      BY <2>2
    <3>3. CASE e \in old.seen
      BY <2>2, <3>1, <3>2, <3>3
    <3>4. CASE e \in revs[q].touched \ old.seen
      BY <2>2, <2>3, <3>1, <3>2, <3>4
    <3>5. CASE e \notin revs[q].touched \cup old.seen
      BY <2>2, <2>3, <2>4, <3>1, <3>2, <3>5
    <3>6. QED BY <3>3, <3>4, <3>5
  <2>6. met[n].state = [e \in Entities |-> met[n].state[e]]
    BY <2>2
  <2>7. QED BY <2>5, <2>6
<1> HIDE DEF Whole
<1>8. Bad = {}
  <2>1. SUFFICES ASSUME Bad # {} PROVE FALSE
    OBVIOUS
  <2>2. PICK k \in Bad : \A m \in Bad : k <= m
    <3>1. Bad \subseteq Nat
      BY <1>3
    <3> HIDE DEF Bad
    <3>2. QED BY <2>1, <3>1, LeastNumber
  <2>3. k \in 0..N /\ ~Whole(k) /\ k # 0
    BY <1>6, <2>2
  <2>4. k \in 1..N /\ k - 1 \in 0..N /\ ~(k <= k - 1)
    BY <1>3, <2>3
  <2>5. Whole(k - 1)
    BY <2>2, <2>4
  <2>6. QED BY <1>7, <2>3, <2>4, <2>5
<1>9. Whole(N) /\ left[N] = 0
  BY <1>3, <1>8
<1> HIDE DEF left
<1>10. ASSUME NEW e \in Entities PROVE met[N].state[e] = revs[r].at[e]
  <2>1. Read(N, e)
    BY <1>9 DEF Whole
  <2>2. StateAt(revs, left[N])[e] = Absent
    BY <1>9 DEF StateAt, NoRevision, EmptyState
  <2>3. QED BY <2>1, <2>2
<1>11. met[N].state = [e \in Entities |-> met[N].state[e]]
  BY <1>9 DEF Whole
<1>12. revs[r].at = [e \in Entities |-> revs[r].at[e]]
  BY DEF Linked
<1>13. met[N].state = revs[r].at
  BY <1>10, <1>11, <1>12
<1>14. QED BY <1>2, <1>13

\* The walks over linked revisions read what the revisions keep.
LEMMA LinkedWalks ==
    ASSUME Len(revs) \in Nat, Linked(revs)
    PROVE  WalksAgree
<1>1. SUFFICES ASSUME NEW r \in 1..Len(revs)
               PROVE  /\ WalkedState(r) = revs[r].at
                      /\ {Log(r)[i] : i \in DOMAIN Log(r)} = revs[r].chain
                      /\ \A i, j \in DOMAIN Log(r) : Log(r)[i] = Log(r)[j] => i = j
  BY DEF WalksAgree, Revisions
<1> DEFINE log == Log(r)
<1>2. IsLog(r, log)
  <2>1. r \in 0..Len(revs)
    OBVIOUS
  <2>2. QED BY <2>1, LogFact
<1> HIDE DEF log
<1>3. revs[r].chain = Chain(revs, r)
  BY DEF Chain, NoRevision
<1>4. DOMAIN log = 1..Len(log)
  BY <1>2 DEF IsLog
<1>5. /\ {log[i] : i \in DOMAIN log} = revs[r].chain
      /\ \A i, j \in DOMAIN log : log[i] = log[j] => i = j
  BY <1>2, <1>3, <1>4 DEF IsLog
<1>6. QED BY <1>5, WalkedFact DEF log

\* What record_revision appends is linked to what is there.
LEMMA LinkedGrows ==
    ASSUME NEW store, Len(store) \in Nat, Linked(store),
           NEW parent \in 0..Len(store), NEW changes, DOMAIN changes \subseteq Entities,
           NEW after, Len(after) = Len(store) + 1,
           \A q \in 1..Len(store) : after[q] = store[q],
           after[Len(store) + 1] = NewRevision(store, parent, changes)
    PROVE  Linked(after)
<1> DEFINE n == Len(store)
           new == after[n + 1]
<1>1. n \in Nat /\ parent \in 0..n /\ Len(after) = n + 1
  OBVIOUS
<1>2. /\ new.parent = parent
      /\ new.touched = DOMAIN changes
      /\ new.at = Overlay(StateAt(store, parent), changes)
      /\ new.chain = Chain(store, parent) \cup {n + 1}
  BY DEF NewRevision
<1>3. ASSUME NEW p \in 0..n
      PROVE  StateAt(after, p) = StateAt(store, p) /\ Chain(after, p) = Chain(store, p)
  <2>1. p # 0 => p \in 1..n
    BY <1>1
  <2>2. QED BY <2>1 DEF StateAt, Chain, NoRevision
<1>4. ASSUME NEW p \in 0..n PROVE DOMAIN StateAt(store, p) = Entities
  <2>1. CASE p = 0
    BY <2>1 DEF StateAt, NoRevision, EmptyState
  <2>2. CASE p \in 1..n
    <3>1. p # 0 /\ store[p].at = [e \in Entities |-> store[p].at[e]]
      BY <1>1, <2>2 DEF Linked
    <3>2. DOMAIN store[p].at = Entities
      BY <3>1
    <3>3. QED BY <3>1, <3>2 DEF StateAt, NoRevision
  <2>3. QED BY <1>1, <2>1, <2>2
<1>5. ASSUME NEW q \in 1..n
      PROVE  /\ after[q] = store[q]
             /\ store[q].parent \in 0..(q - 1) /\ store[q].parent \in 0..n
             /\ store[q].touched \subseteq Entities
             /\ \A e \in Entities \ store[q].touched :
                   store[q].at[e] = StateAt(store, store[q].parent)[e]
             /\ store[q].at = [e \in Entities |-> store[q].at[e]]
             /\ store[q].chain = Chain(store, store[q].parent) \cup {q}
  <2>1. store[q].parent \in 0..(q - 1)
    BY DEF Linked
  <2>2. store[q].parent \in 0..n
    BY <1>1, <2>1
  <2>3. QED BY <2>1, <2>2 DEF Linked
<1>6. ASSUME NEW q \in 1..n
      PROVE  /\ after[q].parent \in 0..(q - 1)
             /\ after[q].touched \subseteq Entities
             /\ \A e \in Entities \ after[q].touched :
                   after[q].at[e] = StateAt(after, after[q].parent)[e]
             /\ after[q].at = [e \in Entities |-> after[q].at[e]]
             /\ after[q].chain = Chain(after, after[q].parent) \cup {q}
  BY <1>3, <1>5
<1> HIDE DEF new
<1>7. /\ new.parent \in 0..((n + 1) - 1)
      /\ new.touched \subseteq Entities
      /\ \A e \in Entities \ new.touched : new.at[e] = StateAt(after, new.parent)[e]
      /\ new.at = [e \in Entities |-> new.at[e]]
      /\ new.chain = Chain(after, new.parent) \cup {n + 1}
  <2> DEFINE old == StateAt(store, parent)
  <2>1. DOMAIN old = Entities /\ StateAt(after, parent) = old
    BY <1>1, <1>3, <1>4
  <2>2. new.at = [e \in Entities |-> IF e \in DOMAIN changes THEN changes[e] ELSE old[e]]
    BY <1>2, <2>1 DEF Overlay
  <2>3. new.parent \in 0..((n + 1) - 1)
    BY <1>1, <1>2
  <2>4. new.chain = Chain(after, new.parent) \cup {n + 1}
    BY <1>1, <1>2, <1>3
  <2> HIDE DEF old
  <2>5. QED BY <1>2, <2>1, <2>2, <2>3, <2>4
<1>8. \A q \in 1..Len(after) : q \in 1..n \/ q = n + 1
  BY <1>1
<1>9. QED BY <1>6, <1>7, <1>8 DEF Linked, new

LEMMA LinkedEmpty == Linked(<<>>)
BY DEF Linked

----------------------------------------------------------------------------
(* The walks over a store that grows in all directions                     *)

WalkRow == [parent : Nat, touched : SUBSET Entities,
            at : [Entities -> Contents \cup {Absent}], chain : SUBSET Nat]

WalkInv == revs \in Seq(WalkRow) /\ head \in 0..Len(revs) /\ Linked(revs)

LEMMA LinkedTyped ==
    ASSUME revs \in Seq(WalkRow), Linked(revs), NEW r \in 0..Len(revs)
    PROVE  /\ StateAt(revs, r) \in [Entities -> Contents \cup {Absent}]
           /\ Chain(revs, r) \subseteq Nat
<1>1. CASE r = 0
  BY <1>1 DEF StateAt, Chain, NoRevision, EmptyState
<1>2. CASE r # 0
  <2>1. r \in 1..Len(revs)
    BY <1>2
  <2>2. revs[r] \in WalkRow
    BY <2>1
  <2>3. QED BY <1>2, <2>2 DEF StateAt, Chain, NoRevision, WalkRow
<1>3. QED BY <1>1, <1>2

LEMMA GrowKeepsWalkInv ==
    ASSUME WalkInv, NEW parent \in 0..Len(revs), NEW changes,
           DOMAIN changes \subseteq Entities,
           \A e \in DOMAIN changes : changes[e] \in Contents \cup {Absent},
           Grow(parent, changes), head' \in 0..(Len(revs) + 1)
    PROVE  /\ WalkInv'
           /\ Len(revs') = Len(revs) + 1
           /\ revs'[Len(revs) + 1] = NewRevision(revs, parent, changes)
<1> DEFINE new == NewRevision(revs, parent, changes)
<1>1. revs' = Append(revs, new)
  BY DEF Grow, RecordRevision
<1>2. revs \in Seq(WalkRow) /\ Len(revs) \in Nat /\ Linked(revs)
  BY DEF WalkInv
<1>3. new \in WalkRow
  <2> DEFINE old == StateAt(revs, parent)
             older == Chain(revs, parent)
  <2>1. old \in [Entities -> Contents \cup {Absent}] /\ older \subseteq Nat
    BY <1>2, LinkedTyped
  <2>2. new = [parent |-> parent, touched |-> DOMAIN changes,
               at |-> Overlay(old, changes), chain |-> older \cup {Len(revs) + 1}]
    BY DEF NewRevision
  <2> HIDE DEF old, older, new
  <2>3. Overlay(old, changes) \in [Entities -> Contents \cup {Absent}]
    BY <2>1 DEF Overlay
  <2>4. older \cup {Len(revs) + 1} \in SUBSET Nat /\ parent \in Nat
    <3>1. Len(revs) + 1 \in Nat
      BY <1>2
    <3>2. older \cup {Len(revs) + 1} \in SUBSET Nat
      BY <2>1, <3>1
    <3>3. parent \in Nat
      BY <1>2
    <3>4. QED BY <3>2, <3>3
  <2>5. QED BY <2>2, <2>3, <2>4 DEF WalkRow
<1> HIDE DEF new
<1>4. /\ revs' \in Seq(WalkRow)
      /\ Len(revs') = Len(revs) + 1
      /\ \A q \in 1..Len(revs) : revs'[q] = revs[q]
      /\ revs'[Len(revs) + 1] = new
  BY <1>1, <1>2, <1>3
<1>5. Linked(revs')
  BY <1>2, <1>4, LinkedGrows DEF new
<1>6. WalkInv'
  BY <1>4, <1>5 DEF WalkInv
<1>7. QED BY <1>4, <1>6 DEF new

\* The difference between two states is a change.
LEMMA RevertFact ==
    ASSUME WalkInv, NEW r \in 1..Len(revs), Revert(r)
    PROVE  /\ WalkInv'
           /\ StateAt(revs', head') = StateAt(revs, r)
           /\ head # NoRevision => head \in revs'[head'].chain
<1> DEFINE target == revs[r].at
           now    == StateAt(revs, head)
           differ == {e \in Entities : target[e] # now[e]}
           changes == Snapshot(target, differ)
<1>1. Len(revs) \in Nat /\ Linked(revs) /\ r \in 0..Len(revs) /\ r # 0
  BY DEF WalkInv
<1>2. head \in 1..Len(revs) /\ head \in 0..Len(revs)
  BY DEF WalkInv, Revert, NoRevision
<1>3. WalkedState(r) = target /\ WalkedState(head) = now
  BY <1>1, <1>2, WalkedFact DEF StateAt, NoRevision
<1>4. /\ target \in [Entities -> Contents \cup {Absent}]
      /\ now \in [Entities -> Contents \cup {Absent}]
  BY <1>1, <1>2, LinkedTyped DEF StateAt, NoRevision, WalkInv
<1>5. Grow(head, changes) /\ head' = Len(revs) + 1
  BY <1>3 DEF Revert, Snapshot, Snapshot
<1>6. /\ DOMAIN changes = differ
      /\ \A e \in differ : changes[e] = target[e]
  BY DEF Snapshot
<1>7. /\ DOMAIN changes \subseteq Entities
      /\ \A e \in DOMAIN changes : changes[e] \in Contents \cup {Absent}
  BY <1>4, <1>6
<1> HIDE DEF target, now, changes
<1>8. /\ WalkInv'
      /\ revs'[head'] = NewRevision(revs, head, changes)
  BY <1>1, <1>2, <1>5, <1>7, GrowKeepsWalkInv
<1>9. Overlay(now, changes) = target
  <2>1. \A e \in Entities : (IF e \in DOMAIN changes THEN changes[e] ELSE now[e]) = target[e]
    BY <1>6
  <2>2. QED BY <1>4, <2>1 DEF Overlay
<1>10. revs'[head'].at = target /\ revs'[head'].chain = Chain(revs, head) \cup {Len(revs) + 1}
  BY <1>8, <1>9 DEF NewRevision, now
<1>11. head \in Chain(revs, head)
  <2>1. revs[head].chain = Chain(revs, revs[head].parent) \cup {head}
    BY <1>1, <1>2 DEF Linked
  <2>2. QED BY <1>2, <2>1 DEF Chain, NoRevision
<1>12. StateAt(revs', head') = target
  BY <1>1, <1>5, <1>10 DEF StateAt, NoRevision
<1>13. StateAt(revs, r) = target
  BY <1>1 DEF StateAt, NoRevision, target
<1>14. QED BY <1>8, <1>10, <1>11, <1>12, <1>13

LEMMA WalkNext == ASSUME WalkInv, [Next]_(vars) PROVE WalkInv'
<1>1. Len(revs) \in Nat /\ head \in 0..Len(revs)
  BY DEF WalkInv
<1>2. ASSUME NEW changes \in Changes
      PROVE  /\ DOMAIN changes \subseteq Entities
             /\ \A e \in DOMAIN changes : changes[e] \in Contents \cup {Absent}
  BY DEF Changes
<1>3. ASSUME NEW changes \in Changes, RecordOnHead(changes) PROVE WalkInv'
  <2>1. Grow(head, changes) /\ head' \in 0..(Len(revs) + 1)
    BY <1>1, <1>3 DEF RecordOnHead
  <2>2. QED BY <1>1, <1>2, <2>1, GrowKeepsWalkInv
<1>4. ASSUME NEW changes \in Changes, NEW r \in 1..Len(revs), RecordOnRef(r, changes)
      PROVE  WalkInv'
  <2>1. Grow(r, changes) /\ head' \in 0..(Len(revs) + 1) /\ r \in 0..Len(revs)
    BY <1>1, <1>4 DEF RecordOnRef
  <2>2. QED BY <1>2, <2>1, GrowKeepsWalkInv
<1>5. ASSUME NEW r \in 1..Len(revs), Revert(r) PROVE WalkInv'
  BY <1>5, RevertFact
<1>6. ASSUME UNCHANGED vars PROVE WalkInv'
  BY <1>6 DEF vars, WalkInv
<1>7. QED BY <1>3, <1>4, <1>5, <1>6 DEF Next, Revisions

LEMMA WalkInvariant == Spec => []WalkInv
<1>1. Init => WalkInv
  BY LinkedEmpty DEF Init, WalkInv, NoRevision
<1>2. WalkInv /\ [Next]_(vars) => WalkInv'
  BY WalkNext
<1>3. QED BY <1>1, <1>2, PTL DEF Spec

\* The walks of version_ops.py read what was recorded, across branches,
\* deletions and entities that come back (state_at, log).
THEOREM WalksAgreeAlways == Spec => []WalksAgree
<1>1. WalkInv => WalksAgree
  BY LinkedWalks DEF WalkInv
<1>2. QED BY <1>1, WalkInvariant, PTL

\* A revert brings the state of the revision it names back, and hides nothing
\* of the log (revert of version_ops.py).
THEOREM RevertsRestore == Spec => RevertRestores
<1>1. WalkInv => \A r \in Revisions : Revert(r) =>
          /\ StateAt(revs', head') = StateAt(revs, r)
          /\ head # NoRevision => head \in revs'[head'].chain
  BY RevertFact DEF Revisions
<1>2. QED BY <1>1, WalkInvariant, PTL DEF RevertRestores
=============================================================================
