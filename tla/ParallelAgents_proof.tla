-------------------------- MODULE ParallelAgents_proof --------------------------
(***************************************************************************)
(* Proofs about batches of parallel agents.  TLC checks two batches and    *)
(* room for two agents; here batches, keys, dependencies, the limit and    *)
(* the other sub-agents are arbitrary.                                     *)
(***************************************************************************)
EXTENDS ParallelAgents, FiniteSetTheorems, TLAPS

\* The invariant, over the children, queue and agents a handler has reached: the
\* handlers put them right in steps.  `fed` holds the batches that were queued.
Typed(cs, q, ags) ==
  /\ cs \in [Batches -> Seq(ChildType)]
  /\ q \in Seq(Tasks)
  /\ ags \in [Agents -> AgentStates]

\* A batch has one child for each of its subtasks.
Sized(cs, fed) == \A b \in Batches :
  /\ DOMAIN cs[b] \subseteq DOMAIN Subtasks[b]
  /\ b \in fed => DOMAIN cs[b] = DOMAIN Subtasks[b]

\* A subtask is in the queue once, until its agent starts, and no agent starts before.
Queueing(q, ags, fed) ==
  /\ \A k, m \in DOMAIN q : q[k] = q[m] => k = m
  /\ \A k \in DOMAIN q : q[k][1] \in fed /\ ags[q[k]] = "none"
  /\ \A t \in Tasks : t[1] \in fed /\ ags[t] = "none" => \E k \in DOMAIN q : q[k] = t
  /\ \A t \in Tasks : ags[t] # "none" => t[1] \in fed

\* Child j of b is that of the agent of subtask i, and shows what became of it.
Pending == [status |-> "Pending", agent |-> None]
Notes(cs, ags, b, j, i) ==
  /\ Key(b, i) = Key(b, j) /\ ags[<<b, i>>] # "none"
  /\ cs[b][j].agent = <<b, i>>
  /\ cs[b][j].status = IF ags[<<b, i>>] = "handled" THEN "Completed" ELSE "Running"

\* Every child is free or notes an agent, and every agent is noted at one child.
Noting(cs, ags) == \A b \in Batches :
  /\ \A j \in DOMAIN cs[b] :
       cs[b][j] = Pending \/ \E i \in DOMAIN Subtasks[b] : Notes(cs, ags, b, j, i)
  /\ \A j, k \in DOMAIN cs[b] :
       cs[b][j].agent = cs[b][k].agent /\ cs[b][j].agent # None => j = k
  /\ \A i \in DOMAIN Subtasks[b] : ags[<<b, i>>] # "none" =>
       \E j \in DOMAIN cs[b] : Notes(cs, ags, b, j, i)

Consistent(cs, q, ags, fed) ==
  Typed(cs, q, ags) /\ Sized(cs, fed) /\ Queueing(q, ags, fed) /\ Noting(cs, ags)

Fed == {b \in Batches : provider /\ call[b] \in {"waiting", "answered"}}
IInv == TypeOK /\ Consistent(children, queue, agent, Fed)
---------------------------------------------------------------------------
(* Counting *)

\* Ranks number the places from one, in their order.
LEMMA Ranks ==
  ASSUME NEW n \in Nat, NEW K \in SUBSET (1 .. n)
  PROVE  /\ Cardinality(K) \in Nat
         /\ \A k \in K : Rank(K, k) \in 1 .. Cardinality(K)
         /\ \A j, k \in K : j < k => Rank(K, j) < Rank(K, k)
         /\ \A m \in 1 .. Cardinality(K) : \E k \in K : Rank(K, k) = m
<1>1. IsFiniteSet(1 .. n)
  BY FS_Interval
<1>2. IsFiniteSet(K) /\ Cardinality(K) \in Nat
  BY <1>1, FS_Subset, FS_CardinalityType
<1> DEFINE upTo(k) == {j \in K : j <= k}
<1>0. \A k \in K : k \in Int
  OBVIOUS
<1>3. ASSUME NEW k \in K PROVE IsFiniteSet(upTo(k)) /\ Rank(K, k) \in 1 .. Cardinality(K)
  <2>1. upTo(k) \subseteq K /\ k \in upTo(k)
    BY <1>0
  <2>2. /\ IsFiniteSet(upTo(k)) /\ Cardinality(upTo(k)) \in Nat
        /\ Cardinality(upTo(k)) <= Cardinality(K)
    BY <1>2, <2>1, FS_Subset, FS_CardinalityType
  <2>3. Cardinality(upTo(k)) # 0
    BY <2>1, <2>2, FS_EmptySet
  <2> QED
    BY <1>2, <2>2, <2>3 DEF Rank
<1>4. ASSUME NEW j \in K, NEW k \in K, j < k PROVE Rank(K, j) < Rank(K, k)
  <2>1. upTo(j) \subseteq upTo(k) /\ k \in upTo(k) /\ k \notin upTo(j)
    <3>1. j \in Int /\ k \in Int
      BY <1>0
    <3>2. ASSUME NEW i \in K, i <= j PROVE i <= k
      <4>1. i \in Int
        BY <1>0
      <4> QED
        BY <1>4, <3>1, <3>2, <4>1
    <3>3. k <= k /\ ~ (k <= j)
      BY <1>4, <3>1
    <3> QED
      BY <3>2, <3>3, Zenon
  <2>2. Cardinality(upTo(j)) <= Cardinality(upTo(k)) /\ Cardinality(upTo(j)) # Cardinality(upTo(k))
    BY <1>3, <2>1, FS_Subset
  <2>3. Cardinality(upTo(j)) \in Nat /\ Cardinality(upTo(k)) \in Nat
    BY <1>3, FS_CardinalityType
  <2> QED
    BY <2>2, <2>3 DEF Rank
<1>a. \A k \in K : Rank(K, k) \in Int
  <2> HIDE DEF upTo
  <2> QED
    BY <1>2, <1>3
<1>5. ASSUME NEW m \in 1 .. Cardinality(K) PROVE \E k \in K : Rank(K, k) = m
  <2> DEFINE rank == [k \in K |-> Rank(K, k)]
             places == 1 .. Cardinality(K)
  <2>1. rank \in [K -> places]
    BY <1>3
  <2>2. ASSUME NEW j \in K, NEW k \in K, rank[j] = rank[k] PROVE j = k
    <3>1. Rank(K, j) = Rank(K, k) /\ Rank(K, j) \in Int
      BY <1>a, <2>2
    <3>2. ~ (j < k) /\ ~ (k < j)
      BY <1>4, <3>1
    <3> QED
      BY <1>0, <3>2
  <2>3. rank \in Injection(K, places)
    BY <2>1, <2>2 DEF Injection, IsInjective
  <2>4. IsFiniteSet(places) /\ Cardinality(places) = Cardinality(K)
    BY <1>2, FS_Interval
  <2>5. rank \in Surjection(K, places)
    BY <2>3, <2>4, FS_Injection
  <2> QED
    BY <2>5 DEF Surjection
<1> QED
  BY <1>2, <1>3, <1>4, <1>5

\* Places of a list are numbered as Ranks says.
LEMMA PlacesRanked ==
  ASSUME NEW S, NEW s \in Seq(S), NEW K \in SUBSET (DOMAIN s)
  PROVE  /\ IsFiniteSet(K) /\ Cardinality(K) \in Nat
         /\ \A k \in K : k \in Nat /\ Rank(K, k) \in 1 .. Cardinality(K)
         /\ \A j, k \in K : Rank(K, j) = Rank(K, k) => j = k
         /\ \A j, k \in K : j <= k => Rank(K, j) <= Rank(K, k)
         /\ \A m \in 1 .. Cardinality(K) : \E k \in K : Rank(K, k) = m
<1>1. DOMAIN s = 1 .. Len(s) /\ Len(s) \in Nat
  OBVIOUS
<1>2. IsFiniteSet(K) /\ Cardinality(K) \in Nat
  <2>1. IsFiniteSet(DOMAIN s)
    BY <1>1, FS_Interval
  <2> QED
    BY <2>1, FS_Subset, FS_CardinalityType
<1>3. \A k \in K : k \in Nat
  BY <1>1
<1>4. /\ \A k \in K : Rank(K, k) \in 1 .. Cardinality(K)
      /\ \A j, k \in K : j < k => Rank(K, j) < Rank(K, k)
      /\ \A m \in 1 .. Cardinality(K) : \E k \in K : Rank(K, k) = m
  BY <1>1, Ranks
<1>5. ASSUME NEW j \in K, NEW k \in K
      PROVE  /\ Rank(K, j) = Rank(K, k) => j = k
             /\ j <= k => Rank(K, j) <= Rank(K, k)
  <2>1. j \in Nat /\ k \in Nat /\ Rank(K, j) \in Nat /\ Rank(K, k) \in Nat
    BY <1>2, <1>3, <1>4
  <2>2. (j < k => Rank(K, j) < Rank(K, k)) /\ (k < j => Rank(K, k) < Rank(K, j))
    BY <1>4
  <2> QED
    BY <2>1, <2>2
<1> QED
  BY <1>2, <1>3, <1>4, <1>5

\* t holds what s holds at the places K, each once: at says where each entry was.
KeptFrom(t, s, K, at) ==
  /\ at \in [1 .. Len(t) -> K]
  /\ \A m \in 1 .. Len(t) : t[m] = s[at[m]]
  /\ \A m, o \in 1 .. Len(t) : at[m] = at[o] => m = o
  /\ \A k \in K : \E m \in 1 .. Len(t) : at[m] = k

\* What is retained of a list: every place of K once.
LEMMA Retained ==
  ASSUME NEW S, NEW s \in Seq(S), NEW K \in SUBSET (DOMAIN s), NEW t, t = Retain(s, K)
  PROVE  t \in Seq(S) /\ \E at : KeptFrom(t, s, K, at)
<1> DEFINE c == Cardinality(K)
           at == [m \in 1 .. c |-> CHOOSE k \in K : Rank(K, k) = m]
<1>1. /\ c \in Nat
      /\ \A k \in K : k \in Int /\ Rank(K, k) \in 1 .. c
      /\ \A j, k \in K : j < k => Rank(K, j) < Rank(K, k)
      /\ \A m \in 1 .. c : \E k \in K : Rank(K, k) = m
  <2>1. Len(s) \in Nat /\ K \in SUBSET (1 .. Len(s)) /\ \A k \in K : k \in Int
    OBVIOUS
  <2> QED
    BY <2>1, Ranks
<1>2. \A m \in 1 .. c : at[m] \in K /\ Rank(K, at[m]) = m
  BY <1>1
<1>3. at \in [1 .. c -> K]
  BY <1>2
<1>4. t = [m \in 1 .. c |-> s[at[m]]]
  BY DEF Retain
<1> HIDE DEF at, c
<1>5. ASSUME NEW m \in 1 .. c PROVE s[at[m]] \in S
  <2>1. at[m] \in DOMAIN s
    BY <1>2
  <2> QED
    BY <2>1
<1>6. t \in Seq(S) /\ Len(t) = c
  BY <1>1, <1>4, <1>5
<1>7. ASSUME NEW m \in 1 .. c, NEW o \in 1 .. c, at[m] = at[o] PROVE m = o
  BY <1>2, <1>7
<1>8. ASSUME NEW k \in K PROVE at[Rank(K, k)] = k
  <2> DEFINE j == at[Rank(K, k)]
  <2>1. /\ Rank(K, k) \in 1 .. c /\ k \in Int
        /\ j \in K /\ j \in Int /\ Rank(K, j) = Rank(K, k)
    BY <1>1, <1>2
  <2>2. ~ (j < k) /\ ~ (k < j)
    <3> HIDE DEF j
    <3> QED
      BY <1>1, <2>1
  <2> QED
    BY <2>1, <2>2
<1>9. KeptFrom(t, s, K, at)
  BY <1>1, <1>3, <1>4, <1>6, <1>7, <1>8 DEF KeptFrom
<1> QED
  BY <1>6, <1>9

\* Different elements of S go to different elements of T, so there are no more of them.
LEMMA NoMore ==
  ASSUME NEW S, NEW T, IsFiniteSet(T), NEW f \in [S -> T],
         \A x, y \in S : f[x] = f[y] => x = y
  PROVE  IsFiniteSet(S) /\ Cardinality(S) <= Cardinality(T)
<1>1. f \in Injection(S, T)
  BY DEF Injection, IsInjective
<1> QED
  BY <1>1, FS_Injection

\* A task is a batch and the place of one of its subtasks.
LEMMA TaskIs ==
  /\ \A t \in Tasks : /\ t[1] \in Batches /\ t[2] \in DOMAIN Subtasks[t[1]]
                      /\ t = <<t[1], t[2]>>
  /\ \A b \in Batches : \A i \in DOMAIN Subtasks[b] : <<b, i>> \in Tasks
  BY DEF Tasks

---------------------------------------------------------------------------
(* Starting tasks *)

\* A batch has a free child of each key for every queued subtask of that key: a child
\* of the key that is not free notes an agent of the key, which is not queued.
LEMMA SpareChildren ==
  ASSUME NEW cs, NEW q, NEW ags, NEW fed, Consistent(cs, q, ags, fed),
         NEW K \in SUBSET (DOMAIN q), NEW b \in Batches, NEW x
  PROVE  Cardinality(Rivals(q, K, b, x)) <= Cardinality(Free(cs, b, x))
<1> DEFINE R == Rivals(q, K, b, x)
           F == Free(cs, b, x)
           C == {j \in DOMAIN Subtasks[b] : Key(b, j) = x}
           S == {i \in C : ags[<<b, i>>] # "none"}
<1> USE DEF Consistent
<1>1. IsFiniteSet(DOMAIN Subtasks[b])
  <2>1. Subtasks[b] \in Seq([key : STRING, deps : SUBSET STRING])
    BY BatchesAssumption
  <2>2. DOMAIN Subtasks[b] = 1 .. Len(Subtasks[b]) /\ Len(Subtasks[b]) \in Nat
    BY <2>1
  <2> QED
    BY <2>2, FS_Interval
<1>2. F \subseteq C
  BY DEF Free, Sized
<1>3. IsFiniteSet(C) /\ IsFiniteSet(S) /\ IsFiniteSet(F) /\ IsFiniteSet(C \ S) /\ IsFiniteSet(C \ F)
  <2>1. C \subseteq DOMAIN Subtasks[b] /\ S \subseteq C /\ C \ S \subseteq C /\ C \ F \subseteq C
    OBVIOUS
  <2>2. IsFiniteSet(C)
    BY <1>1, <2>1, FS_Subset
  <2> HIDE DEF C, S, F
  <2> QED
    BY <1>2, <2>1, <2>2, FS_Subset
<1>4. CASE R = {}
  BY <1>3, <1>4, FS_EmptySet, FS_CardinalityType
<1>5. CASE R # {}
  <2>1. b \in fed /\ DOMAIN cs[b] = DOMAIN Subtasks[b]
    BY <1>5 DEF Rivals, Queueing, Sized
  <2>2. Cardinality(R) <= Cardinality(C \ S)
    <3> DEFINE f == [k \in R |-> q[k][2]]
    <3>1. ASSUME NEW k \in R PROVE q[k] = <<b, f[k]>> /\ f[k] \in C \ S
      <4>1. q[k] \in Tasks /\ q[k][1] = b /\ Key(b, q[k][2]) = x /\ ags[q[k]] = "none"
        BY DEF Rivals, Typed, Queueing
      <4> QED
        BY <4>1, TaskIs
    <3>2. ASSUME NEW k \in R, NEW m \in R, f[k] = f[m] PROVE k = m
      <4>1. q[k] = q[m]
        BY <3>1, <3>2
      <4> QED
        BY <4>1 DEF Rivals, Queueing
    <3>3. f \in [R -> C \ S]
      BY <3>1
    <3> HIDE DEF f, R, C, S
    <3> QED
      BY <1>3, <3>2, <3>3, NoMore
  <2>3. Cardinality(C \ F) <= Cardinality(S)
    <3> DEFINE g == [j \in C \ F |-> cs[b][j].agent[2]]
    <3>1. ASSUME NEW j \in C \ F
          PROVE  g[j] \in S /\ cs[b][j].agent = <<b, g[j]>>
      <4>1. j \in DOMAIN cs[b] /\ cs[b][j] # Pending
        BY <2>1 DEF Free, Pending
      <4>2. PICK i \in DOMAIN Subtasks[b] : Notes(cs, ags, b, j, i)
        BY <4>1 DEF Noting
      <4>3. cs[b][j].agent = <<b, i>> /\ Key(b, i) = x /\ ags[<<b, i>>] # "none"
        BY <4>2 DEF Notes
      <4>4. g[j] = i /\ i \in S
        BY <4>3
      <4> QED
        BY <4>3, <4>4
    <3>2. ASSUME NEW j \in C \ F, NEW k \in C \ F, g[j] = g[k] PROVE j = k
      <4>1. cs[b][j].agent = cs[b][k].agent /\ cs[b][j].agent # None
        <5>1. cs[b][j].agent = <<b, g[j]>> /\ g[j] \in DOMAIN Subtasks[b]
          BY <3>1
        <5>2. <<b, g[j]>> \in Tasks
          BY <5>1, TaskIs
        <5>3. <<b, g[j]>> # None
          BY <5>2, BatchesAssumption
        <5>4. cs[b][k].agent = <<b, g[k]>>
          BY <3>1
        <5> QED
          BY <3>2, <5>1, <5>3, <5>4
      <4>2. j \in DOMAIN cs[b] /\ k \in DOMAIN cs[b]
        BY <2>1
      <4> QED
        BY <4>1, <4>2 DEF Noting
    <3>3. g \in [C \ F -> S]
      BY <3>1
    <3> HIDE DEF g, C, F, S
    <3> QED
      BY <1>3, <3>2, <3>3, NoMore
  <2>4. /\ Cardinality(C \ S) = Cardinality(C) - Cardinality(S)
        /\ Cardinality(C \ F) = Cardinality(C) - Cardinality(F)
    <3>1. C \cap S = S /\ C \cap F = F
      BY <1>2
    <3> HIDE DEF C, F, S
    <3>2. Cardinality(C \ S) = Cardinality(C) - Cardinality(C \cap S)
      BY <1>3, FS_Difference, Zenon
    <3>3. Cardinality(C \ F) = Cardinality(C) - Cardinality(C \cap F)
      BY <1>3, FS_Difference, Zenon
    <3> QED
      BY <3>1, <3>2, <3>3
  <2>5. /\ Cardinality(C) \in Nat /\ Cardinality(S) \in Nat /\ Cardinality(F) \in Nat
        /\ Cardinality(R) \in Nat
    <3>1. IsFiniteSet(DOMAIN q)
      <4>1. DOMAIN q = 1 .. Len(q) /\ Len(q) \in Nat
        BY DEF Typed
      <4> QED
        BY <4>1, FS_Interval
    <3>2. IsFiniteSet(R)
      BY <3>1, FS_Subset DEF Rivals
    <3> HIDE DEF C, F, S, R
    <3> QED
      BY <1>3, <3>2, FS_CardinalityType
  <2>6. Cardinality(R) <= Cardinality(F)
    <3> HIDE DEF C, F, S, R
    <3> QED
      BY <2>2, <2>3, <2>4, <2>5
  <2> QED
    BY <2>6
<1> QED
  BY <1>4, <1>5

\* A child an agent is noted at was free and has the agent's key; no other agent is
\* noted at it, the agent is noted at no other, and every agent that starts is noted.
LEMMA NotedOnce ==
  ASSUME NEW cs, NEW q, NEW ags, NEW fed, Consistent(cs, q, ags, fed),
         NEW K \in SUBSET (DOMAIN q)
  PROVE  /\ \A b \in Batches : \A j \in DOMAIN cs[b] : \A k \in NotedAt(cs, q, K, b, j) :
              /\ k \in K /\ q[k] \in Tasks /\ q[k][1] = b /\ Key(b, q[k][2]) = Key(b, j)
              /\ cs[b][j] = Pending
         /\ \A b \in Batches : \A j \in DOMAIN cs[b] : \A k, m \in NotedAt(cs, q, K, b, j) : k = m
         /\ \A b \in Batches : \A j, l \in DOMAIN cs[b] :
              \A k \in NotedAt(cs, q, K, b, j) : k \in NotedAt(cs, q, K, b, l) => j = l
         /\ \A k \in K : /\ q[k] \in Tasks
                         /\ \E j \in DOMAIN cs[q[k][1]] : k \in NotedAt(cs, q, K, q[k][1], j)
<1> USE DEF Consistent
<1>1. q \in Seq(Tasks) /\ \A b \in Batches : cs[b] \in Seq(ChildType)
  BY DEF Typed
<1>2. ASSUME NEW b \in Batches, NEW x
      PROVE  Rivals(q, K, b, x) \in SUBSET (DOMAIN q) /\ Free(cs, b, x) \in SUBSET (DOMAIN cs[b])
  BY DEF Rivals, Free
<1>3. ASSUME NEW b \in Batches, NEW j \in DOMAIN cs[b], NEW k \in NotedAt(cs, q, K, b, j)
      PROVE  /\ k \in K /\ q[k] \in Tasks /\ q[k][1] = b /\ Key(b, q[k][2]) = Key(b, j)
             /\ cs[b][j] = Pending
  <2>1. k \in K /\ q[k][1] = b /\ Key(b, q[k][2]) = Key(b, j)
    BY DEF NotedAt, Rivals
  <2>2. cs[b][j] \in ChildType /\ q[k] \in Tasks
    BY <1>1, <2>1
  <2>3. cs[b][j].agent = None /\ cs[b][j].status = "Pending"
    BY DEF NotedAt, Free
  <2>4. cs[b][j] = Pending
    BY <2>2, <2>3 DEF ChildType, Pending
  <2> QED
    BY <2>1, <2>2, <2>4
<1>4. ASSUME NEW b \in Batches, NEW j \in DOMAIN cs[b], NEW k \in NotedAt(cs, q, K, b, j),
             NEW m \in NotedAt(cs, q, K, b, j)
      PROVE  k = m
  <2> DEFINE R == Rivals(q, K, b, Key(b, j))
  <2>1. k \in R /\ m \in R /\ Rank(R, k) = Rank(R, m)
    BY DEF NotedAt
  <2>2. R \in SUBSET (DOMAIN q)
    BY <1>2
  <2> HIDE DEF R
  <2> QED
    BY <1>1, <2>1, <2>2, PlacesRanked
<1>5. ASSUME NEW b \in Batches, NEW j \in DOMAIN cs[b], NEW l \in DOMAIN cs[b],
             NEW k \in NotedAt(cs, q, K, b, j), k \in NotedAt(cs, q, K, b, l)
      PROVE  j = l
  <2> DEFINE F == Free(cs, b, Key(b, j))
  <2>1. Key(b, l) = Key(b, j)
    BY <1>5 DEF NotedAt, Rivals
  <2>2. j \in F /\ l \in F /\ Rank(F, j) = Rank(F, l)
    BY <1>5, <2>1 DEF NotedAt
  <2>3. F \in SUBSET (DOMAIN cs[b]) /\ cs[b] \in Seq(ChildType)
    BY <1>1, <1>2
  <2> HIDE DEF F
  <2> QED
    BY <2>2, <2>3, PlacesRanked
<1>6. ASSUME NEW k \in K
      PROVE  q[k] \in Tasks /\ \E j \in DOMAIN cs[q[k][1]] : k \in NotedAt(cs, q, K, q[k][1], j)
  <2> DEFINE b == q[k][1]
             x == Key(b, q[k][2])
             R == Rivals(q, K, b, x)
             F == Free(cs, b, x)
  <2>1. q[k] \in Tasks /\ b \in Batches
    BY <1>1, TaskIs
  <2>2. Cardinality(R) <= Cardinality(F)
    BY <2>1, SpareChildren
  <2>3. k \in R /\ R \in SUBSET (DOMAIN q) /\ F \in SUBSET (DOMAIN cs[b]) /\ cs[b] \in Seq(ChildType)
    BY <1>1, <2>1 DEF Rivals, Free
  <2>4. \E j \in F : Rank(F, j) = Rank(R, k)
    <3> HIDE DEF R, F, b, x
    <3>1. Rank(R, k) \in 1 .. Cardinality(R) /\ Cardinality(R) \in Nat
      BY <1>1, <2>3, PlacesRanked
    <3>2. Cardinality(F) \in Nat /\ \A m \in 1 .. Cardinality(F) : \E j \in F : Rank(F, j) = m
      BY <2>3, PlacesRanked
    <3> QED
      BY <2>2, <3>1, <3>2
  <2>5. PICK j \in F : Rank(F, j) = Rank(R, k)
    BY <2>4
  <2>6. j \in DOMAIN cs[b] /\ Key(b, j) = x
    BY DEF Free
  <2>7. k \in NotedAt(cs, q, K, b, j)
    BY <2>3, <2>5, <2>6 DEF NotedAt
  <2> QED
    BY <2>1, <2>6, <2>7
<1> QED
  BY <1>3, <1>4, <1>5, <1>6

\* The loop that starts tasks keeps queue, children and agents consistent.
LEMMA StartsKeep ==
  ASSUME NEW cs, NEW q, NEW ags, NEW fed, Consistent(cs, q, ags, fed),
         NEW K \in SUBSET (DOMAIN q),
         NEW cs2, cs2 = NoteStarts(cs, q, K),
         NEW q2, q2 = Retain(q, DOMAIN q \ K),
         NEW ags2, ags2 = [a \in Agents |-> IF a \in {q[k] : k \in K} THEN "working" ELSE ags[a]]
  PROVE  Consistent(cs2, q2, ags2, fed)
<1> USE DEF Consistent
<1>1. /\ q \in Seq(Tasks) /\ \A k \in DOMAIN q : q[k] \in Tasks
      /\ \A b \in Batches : cs[b] \in Seq(ChildType)
      /\ \A t \in Tasks : t \in Agents
  BY DEF Typed, Agents
<1>2. /\ \A k \in K : ags2[q[k]] = "working" /\ ags[q[k]] = "none"
      /\ \A t \in Agents : t \notin {q[k] : k \in K} => ags2[t] = ags[t]
      /\ \A t \in Agents : ags[t] # "none" => ags2[t] = ags[t]
      /\ \A t \in Agents : ags2[t] # "none" => ags[t] # "none" \/ t \in {q[k] : k \in K}
  BY <1>1 DEF Queueing
<1>3. PICK at : q2 \in Seq(Tasks) /\ KeptFrom(q2, q, DOMAIN q \ K, at)
  BY <1>1, Retained
<1>4. Queueing(q2, ags2, fed)
  <2>0. /\ DOMAIN q2 = 1 .. Len(q2)
        /\ \A k, m \in DOMAIN q : q[k] = q[m] => k = m
        /\ \A k \in DOMAIN q : q[k][1] \in fed /\ ags[q[k]] = "none"
    BY <1>3 DEF Queueing
  <2>1. \A m \in DOMAIN q2 : at[m] \in DOMAIN q /\ at[m] \notin K /\ q2[m] = q[at[m]]
    BY <1>3, <2>0 DEF KeptFrom
  <2>2. ASSUME NEW k \in DOMAIN q2, NEW m \in DOMAIN q2, q2[k] = q2[m] PROVE k = m
    <3>1. at[k] \in DOMAIN q /\ at[m] \in DOMAIN q /\ q[at[k]] = q[at[m]]
      BY <2>1, <2>2
    <3>2. at[k] = at[m]
      BY <2>0, <3>1
    <3> QED
      BY <1>3, <2>0, <3>2 DEF KeptFrom
  <2>3. ASSUME NEW m \in DOMAIN q2 PROVE q2[m][1] \in fed /\ ags2[q2[m]] = "none"
    <3>0. at[m] \in DOMAIN q /\ at[m] \notin K /\ q2[m] = q[at[m]]
      BY <2>1
    <3>1. q2[m] \in Agents /\ q2[m][1] \in fed /\ ags[q2[m]] = "none"
      BY <1>1, <2>0, <3>0
    <3>2. q2[m] \notin {q[k] : k \in K}
      BY <2>0, <3>0
    <3> QED
      BY <1>2, <3>1, <3>2
  <2>4. ASSUME NEW t \in Tasks, t[1] \in fed, ags2[t] = "none"
        PROVE  \E m \in DOMAIN q2 : q2[m] = t
    <3>1. ags[t] = "none" /\ t \notin {q[k] : k \in K}
      BY <1>1, <1>2, <2>4
    <3>2. PICK k \in DOMAIN q : q[k] = t
      BY <2>4, <3>1 DEF Queueing
    <3>3. k \in DOMAIN q \ K
      BY <3>1, <3>2
    <3>4. PICK m \in DOMAIN q2 : at[m] = k
      BY <1>3, <2>0, <3>3 DEF KeptFrom
    <3> QED
      BY <2>1, <3>2, <3>4
  <2>5. ASSUME NEW t \in Tasks, ags2[t] # "none" PROVE t[1] \in fed
    BY <1>1, <1>2, <2>5 DEF Queueing
  <2> QED
    BY <2>2, <2>3, <2>4, <2>5 DEF Queueing
<1>5. ASSUME NEW b \in Batches
      PROVE  /\ cs2[b] \in Seq(ChildType) /\ DOMAIN cs2[b] = DOMAIN cs[b]
             /\ \A j \in DOMAIN cs[b] :
                  \/ NotedAt(cs, q, K, b, j) = {} /\ cs2[b][j] = cs[b][j]
                  \/ \E k \in NotedAt(cs, q, K, b, j) :
                       cs2[b][j] = [status |-> "Running", agent |-> q[k]]
  <2>1. cs2[b] = [j \in DOMAIN cs[b] |->
           IF NotedAt(cs, q, K, b, j) = {} THEN cs[b][j]
           ELSE [status |-> "Running", agent |-> q[CHOOSE k \in NotedAt(cs, q, K, b, j) : TRUE]]]
    BY DEF NoteStarts
  <2>2. ASSUME NEW j \in DOMAIN cs[b]
        PROVE  \/ NotedAt(cs, q, K, b, j) = {} /\ cs2[b][j] = cs[b][j]
               \/ \E k \in NotedAt(cs, q, K, b, j) :
                    cs2[b][j] = [status |-> "Running", agent |-> q[k]]
    <3> DEFINE N == NotedAt(cs, q, K, b, j)
    <3>1. cs2[b][j] = IF N = {} THEN cs[b][j]
                      ELSE [status |-> "Running", agent |-> q[CHOOSE k \in N : TRUE]]
      BY <2>1
    <3> HIDE DEF Consistent, N
    <3>2. CASE N = {}
      BY <3>1, <3>2 DEF N
    <3>3. CASE N # {}
      <4>1. (CHOOSE k \in N : TRUE) \in N
        BY <3>3
      <4> QED
        BY <3>1, <3>3, <4>1 DEF N
    <3> QED
      BY <3>2, <3>3
  <2>3. ASSUME NEW j \in DOMAIN cs[b] PROVE cs2[b][j] \in ChildType
    <3>1. cs[b][j] \in ChildType
      BY <1>1
    <3>2. \A k \in NotedAt(cs, q, K, b, j) : q[k] \in Tasks
      BY NotedOnce
    <3>3. \A k \in NotedAt(cs, q, K, b, j) : [status |-> "Running", agent |-> q[k]] \in ChildType
      BY <3>2 DEF ChildType
    <3> HIDE DEF Consistent
    <3> QED
      BY <2>2, <3>1, <3>3
  <2>4. DOMAIN cs2[b] = DOMAIN cs[b]
    BY <2>1
  <2>5. DOMAIN cs[b] = 1 .. Len(cs[b]) /\ Len(cs[b]) \in Nat
    BY <1>1
  <2>6. cs2[b] \in [1 .. Len(cs[b]) -> ChildType]
    BY <2>1, <2>3, <2>5
  <2> QED
    BY <2>2, <2>4, <2>5, <2>6
<1>6. Typed(cs2, q2, ags2) /\ Sized(cs2, fed)
  <2>1. cs2 \in [Batches -> Seq(ChildType)]
    <3>1. cs2 = [b \in Batches |-> cs2[b]]
      BY DEF NoteStarts
    <3> QED
      BY <1>5, <3>1
  <2>2. ags2 \in [Agents -> AgentStates]
    BY DEF Typed, AgentStates
  <2>3. Sized(cs2, fed)
    BY <1>5 DEF Sized
  <2> QED
    BY <1>3, <2>1, <2>2, <2>3 DEF Typed
<1>7. Noting(cs2, ags2)
  <2> SUFFICES ASSUME NEW b \in Batches
      PROVE  /\ \A j \in DOMAIN cs2[b] : \/ cs2[b][j] = Pending
                                         \/ \E i \in DOMAIN Subtasks[b] : Notes(cs2, ags2, b, j, i)
             /\ \A j, l \in DOMAIN cs2[b] :
                  cs2[b][j].agent = cs2[b][l].agent /\ cs2[b][j].agent # None => j = l
             /\ \A i \in DOMAIN Subtasks[b] : ags2[<<b, i>>] # "none" =>
                  \E j \in DOMAIN cs2[b] : Notes(cs2, ags2, b, j, i)
    BY DEF Noting
  <2>1. DOMAIN cs2[b] = DOMAIN cs[b]
    BY <1>5
  <2>2. ASSUME NEW j \in DOMAIN cs[b], NEW i \in DOMAIN Subtasks[b], Notes(cs, ags, b, j, i)
        PROVE  cs2[b][j] = cs[b][j] /\ Notes(cs2, ags2, b, j, i)
    <3>1. <<b, i>> \in Tasks /\ <<b, i>> # None
      BY TaskIs, BatchesAssumption
    <3>2. NotedAt(cs, q, K, b, j) = {}
      BY <2>2, <3>1, NotedOnce DEF Notes, Pending
    <3>3. cs2[b][j] = cs[b][j]
      BY <1>5, <3>2
    <3>4. ags2[<<b, i>>] = ags[<<b, i>>]
      BY <1>1, <1>2, <2>2, <3>1 DEF Notes
    <3> QED
      BY <2>2, <3>3, <3>4 DEF Notes
  <2>3. ASSUME NEW j \in DOMAIN cs[b], NEW k \in NotedAt(cs, q, K, b, j)
        PROVE  /\ k \in K /\ q[k] = <<b, q[k][2]>> /\ q[k][2] \in DOMAIN Subtasks[b]
               /\ cs2[b][j].agent = q[k] /\ Notes(cs2, ags2, b, j, q[k][2])
    <3>1. k \in K /\ q[k] \in Tasks /\ q[k][1] = b /\ Key(b, q[k][2]) = Key(b, j)
      BY NotedOnce
    <3>2. q[k] = <<b, q[k][2]>> /\ q[k][2] \in DOMAIN Subtasks[b]
      BY <3>1, TaskIs
    <3>3. cs2[b][j] = [status |-> "Running", agent |-> q[k]]
      <4>1. \A m \in NotedAt(cs, q, K, b, j) : m = k
        BY NotedOnce
      <4> QED
        BY <1>5, <4>1
    <3>4. ags2[q[k]] = "working"
      BY <1>2, <3>1
    <3>5. cs2[b][j].agent = q[k] /\ cs2[b][j].status = "Running"
      BY <3>3
    <3>6. Notes(cs2, ags2, b, j, q[k][2])
      <4> DEFINE i == q[k][2]
      <4>1. <<b, i>> = q[k]
        BY <3>2
      <4>2. Key(b, i) = Key(b, j)
        BY <3>1
      <4> HIDE DEF i
      <4>3. Notes(cs2, ags2, b, j, i)
        BY <3>4, <3>5, <4>1, <4>2 DEF Notes
      <4> QED
        BY <4>3 DEF i
    <3> QED
      BY <3>1, <3>2, <3>5, <3>6
  <2>4. ASSUME NEW j \in DOMAIN cs[b]
        PROVE  \/ cs2[b][j] = Pending
               \/ \E i \in DOMAIN Subtasks[b] : Notes(cs2, ags2, b, j, i)
    <3>1. CASE NotedAt(cs, q, K, b, j) = {}
      <4>1. cs2[b][j] = cs[b][j]
        BY <1>5, <3>1
      <4> QED
        BY <2>2, <4>1 DEF Noting
    <3>2. CASE NotedAt(cs, q, K, b, j) # {}
      BY <2>3, <3>2
    <3> QED
      BY <3>1, <3>2
  <2>5. ASSUME NEW j \in DOMAIN cs[b], NEW l \in DOMAIN cs[b],
               cs2[b][j].agent = cs2[b][l].agent, cs2[b][j].agent # None
        PROVE  j = l
    <3>1. ASSUME NEW m \in DOMAIN cs[b], NEW o \in DOMAIN cs[b],
                 cs2[b][m].agent = cs2[b][o].agent, cs2[b][m].agent # None,
                 NEW k \in NotedAt(cs, q, K, b, m)
          PROVE  m = o
      <4>1. k \in K /\ cs2[b][m].agent = q[k] /\ q[k] \in Tasks
        BY <2>3, NotedOnce
      <4>2. PICK n \in NotedAt(cs, q, K, b, o) : TRUE
        <5>1. CASE NotedAt(cs, q, K, b, o) = {}
          <6>1. cs[b][o].agent = q[k] /\ q[k] # None
            BY <1>5, <3>1, <4>1, <5>1
          <6>2. PICK i \in DOMAIN Subtasks[b] : Notes(cs, ags, b, o, i)
            BY <6>1 DEF Noting, Pending
          <6>3. q[k] = <<b, i>> /\ ags[<<b, i>>] # "none"
            BY <6>1, <6>2 DEF Notes
          <6> QED
            BY <1>2, <4>1, <6>3
        <5> QED
          BY <5>1
      <4>3. n \in K /\ cs2[b][o].agent = q[n]
        BY <2>3
      <4>4. n = k
        BY <3>1, <4>1, <4>3 DEF Queueing
      <4> QED
        BY <4>4, NotedOnce
    <3>2. CASE NotedAt(cs, q, K, b, j) # {}
      BY <2>5, <3>1, <3>2
    <3>3. CASE NotedAt(cs, q, K, b, l) # {}
      BY <2>5, <3>1, <3>3
    <3>4. CASE NotedAt(cs, q, K, b, j) = {} /\ NotedAt(cs, q, K, b, l) = {}
      <4>1. cs2[b][j] = cs[b][j] /\ cs2[b][l] = cs[b][l]
        BY <1>5, <3>4
      <4> QED
        BY <2>5, <4>1 DEF Noting
    <3> QED
      BY <3>2, <3>3, <3>4
  <2>6. ASSUME NEW i \in DOMAIN Subtasks[b], ags2[<<b, i>>] # "none"
        PROVE  \E j \in DOMAIN cs[b] : Notes(cs2, ags2, b, j, i)
    <3>1. <<b, i>> \in Tasks /\ <<b, i>> \in Agents
      BY <1>1, TaskIs
    <3>2. CASE ags[<<b, i>>] # "none"
      BY <2>2, <3>2 DEF Noting
    <3>3. CASE <<b, i>> \in {q[k] : k \in K}
      <4>1. PICK k \in K : q[k] = <<b, i>>
        BY <3>3
      <4>2. q[k][1] = b /\ q[k][2] = i
        BY <4>1
      <4>3. PICK j \in DOMAIN cs[b] : k \in NotedAt(cs, q, K, b, j)
        BY <4>2, NotedOnce
      <4> QED
        BY <2>3, <4>2, <4>3
    <3> QED
      BY <1>2, <2>6, <3>1, <3>2, <3>3
  <2> QED
    BY <2>1, <2>4, <2>5, <2>6
<1> QED
  BY <1>4, <1>6, <1>7

---------------------------------------------------------------------------
(* The handlers *)

\* The new children of a batch, and the subtasks it queues.
NewChildren(b) == [i \in DOMAIN Subtasks[b] |-> Pending]
NewEntries(b)  == [i \in DOMAIN Subtasks[b] |-> <<b, i>>]

\* Subtasks are numbered from one.
LEMMA SubtasksNumbered ==
  ASSUME NEW b \in Batches
  PROVE  /\ Len(Subtasks[b]) \in Nat /\ DOMAIN Subtasks[b] = 1 .. Len(Subtasks[b])
         /\ DOMAIN Subtasks[b] # {} /\ IsFiniteSet(DOMAIN Subtasks[b])
<1> DEFINE n == Len(Subtasks[b])
<1>1. Subtasks[b] \in Seq([key : STRING, deps : SUBSET STRING]) /\ n \in 2 .. 5
  BY BatchesAssumption
<1>2. DOMAIN Subtasks[b] = 1 .. n /\ n \in Nat
  BY <1>1
<1> HIDE DEF n
<1>3. 1 \in 1 .. n /\ IsFiniteSet(1 .. n)
  BY <1>1, <1>2, FS_Interval
<1>4. DOMAIN Subtasks[b] # {} /\ IsFiniteSet(DOMAIN Subtasks[b])
  BY <1>2, <1>3
<1> QED
  BY <1>2, <1>4 DEF n

\* Registering a batch whose subtasks no agent has leaves the rest as it was.
LEMMA RegisterKeeps ==
  ASSUME NEW cs, NEW q, NEW ags, NEW fed, Consistent(cs, q, ags, fed),
         NEW b \in Batches, b \notin fed
  PROVE  /\ Consistent([cs EXCEPT ![b] = NewChildren(b)], q \o NewEntries(b), ags, fed \union {b})
         /\ Consistent([cs EXCEPT ![b] = NewChildren(b)], q, ags, fed)
<1> DEFINE cs2 == [cs EXCEPT ![b] = NewChildren(b)]
           q2 == q \o NewEntries(b)
           n == Len(Subtasks[b])
<1> USE DEF Consistent
<1>1. n \in Nat /\ DOMAIN Subtasks[b] = 1 .. n
  BY SubtasksNumbered
<1>2. Pending \in ChildType
  BY DEF Pending, ChildType
<1>3. cs2 \in [Batches -> Seq(ChildType)]
  BY <1>1, <1>2 DEF Typed, NewChildren
<1>4. /\ DOMAIN cs2[b] = DOMAIN Subtasks[b] /\ \A j \in DOMAIN cs2[b] : cs2[b][j] = Pending
      /\ \A c \in Batches : c # b => cs2[c] = cs[c]
  BY DEF Typed, NewChildren
<1> HIDE DEF cs2
<1>5. \A i \in DOMAIN Subtasks[b] : <<b, i>> \in Tasks /\ ags[<<b, i>>] = "none"
  <2>1. \A i \in DOMAIN Subtasks[b] : <<b, i>> \in Tasks
    BY TaskIs
  <2> QED
    BY <2>1 DEF Queueing
<1>6. Noting(cs2, ags)
  <2>1. ASSUME NEW c \in Batches, c # b
        PROVE  /\ \A j \in DOMAIN cs2[c] : \/ cs2[c][j] = Pending
                                           \/ \E i \in DOMAIN Subtasks[c] : Notes(cs2, ags, c, j, i)
               /\ \A j, l \in DOMAIN cs2[c] :
                    cs2[c][j].agent = cs2[c][l].agent /\ cs2[c][j].agent # None => j = l
               /\ \A i \in DOMAIN Subtasks[c] : ags[<<c, i>>] # "none" =>
                    \E j \in DOMAIN cs2[c] : Notes(cs2, ags, c, j, i)
    <3>1. cs2[c] = cs[c]
      BY <1>4, <2>1
    <3>2. \A j, i : Notes(cs2, ags, c, j, i) <=> Notes(cs, ags, c, j, i)
      BY <3>1 DEF Notes
    <3> QED
      BY <3>1, <3>2 DEF Noting
  <2>2. \A j \in DOMAIN cs2[b] : cs2[b][j].agent = None
    BY <1>4 DEF Pending
  <2> QED
    BY <1>4, <1>5, <2>1, <2>2 DEF Noting
<1>7. Sized(cs2, fed) /\ Sized(cs2, fed \union {b})
  BY <1>4 DEF Sized
<1>8. Consistent(cs2, q, ags, fed)
  BY <1>3, <1>6, <1>7 DEF Typed
<1>9. /\ q2 \in Seq(Tasks) /\ DOMAIN q2 = 1 .. Len(q) + n /\ Len(q) \in Nat
      /\ \A k \in 1 .. Len(q) : q2[k] = q[k]
      /\ \A k \in Len(q) + 1 .. Len(q) + n : q2[k] = <<b, k - Len(q)>>
  <2>1. q \in Seq(Tasks) /\ NewEntries(b) \in Seq(Tasks) /\ Len(NewEntries(b)) = n
    BY <1>1, <1>5 DEF Typed, NewEntries
  <2>2. q2 \in Seq(Tasks) /\ Len(q2) = Len(q) + n /\ Len(q) \in Nat
    BY <1>1, <2>1
  <2>3. \A k \in 1 .. Len(q) : q2[k] = q[k]
    BY <1>1, <2>1
  <2>4. ASSUME NEW k \in Len(q) + 1 .. Len(q) + n PROVE q2[k] = <<b, k - Len(q)>>
    <3>1. k - Len(q) \in 1 .. n /\ k \in 1 .. Len(q) + n /\ k > Len(q)
      BY <1>1, <2>2
    <3>2. q2[k] = NewEntries(b)[k - Len(q)]
      BY <2>1, <2>2, <3>1
    <3> QED
      BY <1>1, <3>1, <3>2 DEF NewEntries
  <2>5. DOMAIN q2 = 1 .. Len(q2)
    BY <2>2
  <2> QED
    BY <2>2, <2>3, <2>4, <2>5
<1>10. Queueing(q2, ags, fed \union {b})
  <2> HIDE DEF q2, n
  <2>0. /\ DOMAIN q = 1 .. Len(q)
        /\ \A k, m \in DOMAIN q : q[k] = q[m] => k = m
        /\ \A k \in DOMAIN q : q[k][1] \in fed /\ ags[q[k]] = "none"
    BY DEF Queueing, Typed
  <2>1. ASSUME NEW k \in DOMAIN q2
        PROVE  \/ k \in DOMAIN q /\ q2[k] = q[k]
               \/ /\ k \in Len(q) + 1 .. Len(q) + n /\ q2[k] = <<b, k - Len(q)>>
                  /\ k - Len(q) \in DOMAIN Subtasks[b]
    BY <1>1, <1>9, <2>0
  <2>2. ASSUME NEW k \in DOMAIN q2, NEW m \in DOMAIN q2, q2[k] = q2[m] PROVE k = m
    <3>1. k \in Int /\ m \in Int
      BY <1>9
    <3>2. CASE k \in DOMAIN q /\ q2[k] = q[k] /\ m \in DOMAIN q /\ q2[m] = q[m]
      BY <2>0, <2>2, <3>2
    <3>3. CASE q2[k] = <<b, k - Len(q)>> /\ q2[m] = <<b, m - Len(q)>>
      <4> DEFINE x == k - Len(q)
                 y == m - Len(q)
      <4>1. q2[k] = <<b, x>> /\ q2[m] = <<b, y>>
        BY <3>3
      <4> HIDE DEF x, y
      <4>2. <<b, x>> = <<b, y>>
        BY <2>2, <4>1, Zenon
      <4>3. x = y
        BY <4>2
      <4> QED
        BY <1>9, <3>1, <4>3 DEF x, y
    <3>4. ~ (q2[k][1] \in fed /\ q2[m][1] = b) /\ ~ (q2[m][1] \in fed /\ q2[k][1] = b)
      BY <2>2
    <3> QED
      BY <2>0, <2>1, <3>2, <3>3, <3>4
  <2>3. ASSUME NEW k \in DOMAIN q2 PROVE q2[k][1] \in fed \union {b} /\ ags[q2[k]] = "none"
    BY <1>5, <2>0, <2>1
  <2>4. ASSUME NEW t \in Tasks, t[1] \in fed \union {b}, ags[t] = "none"
        PROVE  \E k \in DOMAIN q2 : q2[k] = t
    <3>1. CASE t[1] \in fed
      <4>1. PICK k \in DOMAIN q : q[k] = t
        BY <2>4, <3>1 DEF Queueing
      <4>2. k \in 1 .. Len(q) /\ k \in 1 .. Len(q) + n
        BY <1>1, <1>9, <2>0
      <4>3. k \in DOMAIN q2 /\ q2[k] = t
        BY <1>9, <4>1, <4>2
      <4> QED
        BY <4>3
    <3>2. CASE t[1] = b
      <4>1. PICK i \in 1 .. n : t = <<b, i>>
        BY <1>1, <3>2, TaskIs
      <4>2. /\ i + Len(q) \in Len(q) + 1 .. Len(q) + n /\ i + Len(q) \in 1 .. Len(q) + n
            /\ (i + Len(q)) - Len(q) = i
        <5>1. i \in Nat /\ Len(q) \in Nat /\ 1 <= i /\ i <= n
          BY <1>1, <1>9
        <5> QED
          BY <1>1, <5>1
      <4> QED
        BY <1>9, <4>1, <4>2
    <3> QED
      BY <2>4, <3>1, <3>2
  <2>5. \A t \in Tasks : ags[t] # "none" => t[1] \in fed
    BY DEF Queueing
  <2> QED
    BY <2>2, <2>3, <2>4, <2>5 DEF Queueing
<1>11. Consistent(cs2, q2, ags, fed \union {b})
  BY <1>3, <1>6, <1>7, <1>9, <1>10 DEF Typed
<1> QED
  BY <1>8, <1>11 DEF cs2

\* Handling Done marks the child the agent is noted at, and no other.
LEMMA DoneKeeps ==
  ASSUME NEW fed, Consistent(children, queue, agent, fed),
         NEW a \in Agents, agent[a] = "done",
         NEW ags, ags = [agent EXCEPT ![a] = "handled"]
  PROVE  Consistent(Updated(a), queue, ags, fed)
<1> DEFINE cs == Updated(a)
<1> USE DEF Consistent
<1>1. /\ children \in [Batches -> Seq(ChildType)] /\ \A b \in Batches : children[b] \in Seq(ChildType)
      /\ agent \in [Agents -> AgentStates] /\ ags \in [Agents -> AgentStates]
      /\ a # None /\ \A t \in Tasks : t \in Agents
  BY BatchesAssumption DEF Typed, Agents, AgentStates
<1>2. /\ ags[a] = "handled" /\ \A t \in Agents : t # a => ags[t] = agent[t]
      /\ \A t \in Agents : ags[t] = "none" <=> agent[t] = "none"
  BY <1>1
<1>3. ASSUME NEW b \in Batches
      PROVE  /\ cs[b] \in Seq(ChildType) /\ DOMAIN cs[b] = DOMAIN children[b]
             /\ \A j \in DOMAIN children[b] :
                  /\ cs[b][j].agent = children[b][j].agent
                  /\ children[b][j].agent # a => cs[b][j] = children[b][j]
                  /\ children[b][j].agent = a => cs[b][j].status = "Completed"
  <2>1. cs[b] = [j \in DOMAIN children[b] |->
                   IF children[b][j].agent = a
                   THEN [children[b][j] EXCEPT !.status = "Completed"] ELSE children[b][j]]
    BY DEF Updated
  <2>2. DOMAIN children[b] = 1 .. Len(children[b]) /\ Len(children[b]) \in Nat
    BY <1>1
  <2>3. \A j \in DOMAIN children[b] : children[b][j] \in ChildType
    BY <1>1
  <2>4. \A r \in ChildType : /\ [r EXCEPT !.status = "Completed"] \in ChildType
                             /\ [r EXCEPT !.status = "Completed"].agent = r.agent
                             /\ [r EXCEPT !.status = "Completed"].status = "Completed"
    BY DEF ChildType
  <2> HIDE DEF cs, Consistent
  <2>5. ASSUME NEW j \in DOMAIN children[b]
        PROVE  /\ cs[b][j] \in ChildType /\ cs[b][j].agent = children[b][j].agent
               /\ children[b][j].agent # a => cs[b][j] = children[b][j]
               /\ children[b][j].agent = a => cs[b][j].status = "Completed"
    <3>1. children[b][j] \in ChildType
      BY <2>3
    <3>2. cs[b][j] = IF children[b][j].agent = a
                     THEN [children[b][j] EXCEPT !.status = "Completed"] ELSE children[b][j]
      BY <2>1
    <3> QED
      BY <2>4, <3>1, <3>2
  <2>6. cs[b] \in [1 .. Len(children[b]) -> ChildType] /\ DOMAIN cs[b] = DOMAIN children[b]
    BY <2>1, <2>2, <2>5
  <2> QED
    BY <2>2, <2>5, <2>6
<1>4. Typed(cs, queue, ags) /\ Sized(cs, fed)
  <2>1. cs = [b \in Batches |-> cs[b]]
    BY DEF Updated
  <2> HIDE DEF cs
  <2>2. cs \in [Batches -> Seq(ChildType)]
    BY <1>3, <2>1
  <2> QED
    BY <1>1, <1>3, <2>2 DEF Typed, Sized
<1> HIDE DEF cs
<1>5. Queueing(queue, ags, fed)
  <2>1. \A k \in DOMAIN queue : queue[k] \in Agents
    BY <1>1 DEF Typed
  <2> QED
    BY <1>1, <1>2, <2>1 DEF Queueing
<1>6. Noting(cs, ags)
  <2>1. ASSUME NEW b \in Batches, NEW j \in DOMAIN children[b], NEW i \in DOMAIN Subtasks[b],
               Notes(children, agent, b, j, i)
        PROVE  Notes(cs, ags, b, j, i)
    <3>1. <<b, i>> \in Agents
      BY <1>1, TaskIs
    <3>2. CASE <<b, i>> = a
      BY <1>2, <1>3, <2>1, <3>2 DEF Notes
    <3>3. CASE <<b, i>> # a
      BY <1>2, <1>3, <2>1, <3>1, <3>3 DEF Notes
    <3> QED
      BY <3>2, <3>3
  <2>2. ASSUME NEW b \in Batches, NEW j \in DOMAIN children[b], children[b][j] = Pending
        PROVE  cs[b][j] = Pending
    <3>1. children[b][j].agent = None
      BY <2>2 DEF Pending
    <3> QED
      BY <1>1, <1>3, <2>2, <3>1
  <2>3. \A b \in Batches : \A i \in DOMAIN Subtasks[b] :
          ags[<<b, i>>] # "none" => agent[<<b, i>>] # "none"
    BY <1>1, <1>2, TaskIs
  <2>4. \A b \in Batches : /\ DOMAIN cs[b] = DOMAIN children[b]
                           /\ \A j \in DOMAIN children[b] : cs[b][j].agent = children[b][j].agent
    BY <1>3
  <2> SUFFICES ASSUME NEW b \in Batches
      PROVE  /\ \A j \in DOMAIN cs[b] : \/ cs[b][j] = Pending
                                         \/ \E i \in DOMAIN Subtasks[b] : Notes(cs, ags, b, j, i)
             /\ \A j, l \in DOMAIN cs[b] :
                  cs[b][j].agent = cs[b][l].agent /\ cs[b][j].agent # None => j = l
             /\ \A i \in DOMAIN Subtasks[b] : ags[<<b, i>>] # "none" =>
                  \E j \in DOMAIN cs[b] : Notes(cs, ags, b, j, i)
    BY DEF Noting
  <2>5. /\ \A j \in DOMAIN children[b] : \/ children[b][j] = Pending
                                          \/ \E i \in DOMAIN Subtasks[b] : Notes(children, agent, b, j, i)
        /\ \A j, l \in DOMAIN children[b] :
             children[b][j].agent = children[b][l].agent /\ children[b][j].agent # None => j = l
        /\ \A i \in DOMAIN Subtasks[b] : agent[<<b, i>>] # "none" =>
             \E j \in DOMAIN children[b] : Notes(children, agent, b, j, i)
    BY DEF Noting
  <2> HIDE DEF Consistent
  <2>6. \A j \in DOMAIN cs[b] : \/ cs[b][j] = Pending
                                \/ \E i \in DOMAIN Subtasks[b] : Notes(cs, ags, b, j, i)
    BY <2>1, <2>2, <2>4, <2>5
  <2>7. \A j, l \in DOMAIN cs[b] :
          cs[b][j].agent = cs[b][l].agent /\ cs[b][j].agent # None => j = l
    BY <2>4, <2>5
  <2>8. \A i \in DOMAIN Subtasks[b] : ags[<<b, i>>] # "none" =>
          \E j \in DOMAIN cs[b] : Notes(cs, ags, b, j, i)
    BY <2>1, <2>3, <2>4, <2>5
  <2> QED
    BY <2>6, <2>7, <2>8
<1> QED
  BY <1>4, <1>5, <1>6 DEF cs

\* Different elements of a finite set go to different ones of it: each is reached.
LEMMA AllReached ==
  ASSUME NEW S, IsFiniteSet(S), NEW f \in [S -> S], \A x, y \in S : f[x] = f[y] => x = y
  PROVE  \A y \in S : \E x \in S : f[x] = y
<1>1. f \in Injection(S, S)
  BY DEF Injection, IsInjective
<1>2. f \in Surjection(S, S)
  BY <1>1, FS_Injection
<1> QED
  BY <1>2 DEF Surjection

\* A batch is complete exactly if all of its subtasks' agents have been handled: no
\* child is counted for two agents, and no agent is left without a child.
LEMMA CompleteMeansHandled ==
  ASSUME NEW cs, NEW q, NEW ags, NEW fed, Consistent(cs, q, ags, fed),
         NEW b \in Batches, b \in fed
  PROVE  IsComplete(cs, b) <=> \A i \in DOMAIN Subtasks[b] : ags[<<b, i>>] = "handled"
<1> DEFINE S == DOMAIN Subtasks[b]
<1>1. DOMAIN cs[b] = S /\ IsFiniteSet(S)
  BY SubtasksNumbered DEF Consistent, Sized
<1>2. /\ \A j \in S : cs[b][j] = Pending \/ \E i \in S : Notes(cs, ags, b, j, i)
      /\ \A j, k \in S : cs[b][j].agent = cs[b][k].agent /\ cs[b][j].agent # None => j = k
      /\ \A i \in S : ags[<<b, i>>] # "none" => \E j \in S : Notes(cs, ags, b, j, i)
  BY <1>1 DEF Consistent, Noting
<1>3. \A i \in S : <<b, i>> # None
  BY TaskIs, BatchesAssumption
<1>4. \A i, h, j, k \in S : Notes(cs, ags, b, j, i) /\ Notes(cs, ags, b, k, h) =>
        (i = h <=> j = k)
  <2> SUFFICES ASSUME NEW i \in S, NEW h \in S, NEW j \in S, NEW k \in S,
                      Notes(cs, ags, b, j, i), Notes(cs, ags, b, k, h)
               PROVE  i = h <=> j = k
    OBVIOUS
  <2>1. cs[b][j].agent = <<b, i>> /\ cs[b][k].agent = <<b, h>>
    BY DEF Notes
  <2>2. i = h => j = k
    BY <1>2, <1>3, <2>1
  <2>3. j = k => i = h
    BY <2>1
  <2> QED
    BY <2>2, <2>3
<1>5. ASSUME IsComplete(cs, b), NEW i \in S PROVE ags[<<b, i>>] = "handled"
  <2> DEFINE f == [j \in S |-> CHOOSE h \in S : Notes(cs, ags, b, j, h)]
  <2>1. ASSUME NEW j \in S PROVE f[j] \in S /\ Notes(cs, ags, b, j, f[j])
    <3>1. cs[b][j] # Pending
      BY <1>1, <1>5 DEF IsComplete, Pending
    <3> QED
      BY <1>2, <3>1
  <2>2. f \in [S -> S]
    BY <2>1
  <2> HIDE DEF f
  <2>3. \A j, k \in S : f[j] = f[k] => j = k
    BY <1>4, <2>1
  <2>4. PICK j \in S : f[j] = i
    <3> HIDE DEF S
    <3> QED
      BY <1>1, <2>2, <2>3, AllReached
  <2>5. Notes(cs, ags, b, j, i) /\ cs[b][j].status = "Completed"
    BY <1>1, <1>5, <2>1, <2>4 DEF IsComplete
  <2> QED
    BY <2>5 DEF Notes
<1>6. ASSUME \A i \in S : ags[<<b, i>>] = "handled" PROVE IsComplete(cs, b)
  <2> DEFINE g == [i \in S |-> CHOOSE j \in S : Notes(cs, ags, b, j, i)]
  <2>1. ASSUME NEW i \in S PROVE g[i] \in S /\ Notes(cs, ags, b, g[i], i)
    BY <1>2, <1>6
  <2>2. g \in [S -> S]
    BY <2>1
  <2> HIDE DEF g
  <2>3. \A i, h \in S : g[i] = g[h] => i = h
    BY <1>4, <2>1
  <2>4. ASSUME NEW j \in S PROVE cs[b][j].status = "Completed"
    <3>1. PICK i \in S : g[i] = j
      <4> HIDE DEF S
      <4> QED
        BY <1>1, <2>2, <2>3, AllReached
    <3> QED
      BY <1>6, <2>1, <3>1 DEF Notes
  <2> QED
    BY <1>1, <2>4 DEF IsComplete
<1> QED
  BY <1>5, <1>6

---------------------------------------------------------------------------
(* The invariant *)

\* What the loop that starts tasks does to agents: the runnable tasks it takes, which
\* had none, get one.
LEMMA Spawned ==
  ASSUME NEW cs, NEW q, NEW count \in Nat, NEW ags, NEW fed, Consistent(cs, q, ags, fed),
         SpawnReady(cs, q, count, ags)
  PROVE  /\ Consistent(children', queue', agent', fed) /\ running' \in Nat
         /\ \A a \in Agents : ags[a] # "none" => agent'[a] = ags[a]
         /\ \A a \in Agents : agent'[a] # ags[a] =>
              a \in Tasks /\ agent'[a] = "working" /\ Runnable(cs, a)
<1> DEFINE K == Taken(cs, q, count)
<1>1. K \in SUBSET (DOMAIN q) /\ \A k \in K : Runnable(cs, q[k])
  BY DEF Taken, Ready
<1>2. /\ children' = NoteStarts(cs, q, K) /\ queue' = Retain(q, DOMAIN q \ K)
      /\ running' = count + Cardinality(K)
      /\ agent' = [a \in Agents |-> IF a \in {q[k] : k \in K} THEN "working" ELSE ags[a]]
  BY DEF SpawnReady
<1> HIDE DEF K
<1>3. Consistent(children', queue', agent', fed)
  BY <1>1, <1>2, StartsKeep
<1>4. q \in Seq(Tasks) /\ \A k \in K : q[k] \in Tasks /\ ags[q[k]] = "none"
  BY <1>1 DEF Consistent, Typed, Queueing
<1>5. running' \in Nat
  BY <1>1, <1>2, <1>4, PlacesRanked
<1> QED
  BY <1>1, <1>2, <1>3, <1>4, <1>5

\* The first step of the handler of SpawnParallel registers the batch.
LEMMA RegisterStep ==
  ASSUME IInv, NEW b \in Batches, HandleSpawnParallel(b)
  PROVE  /\ b \notin Fed /\ provider' = provider
         /\ IF provider
            THEN /\ SpawnReady([children EXCEPT ![b] = NewChildren(b)], queue \o NewEntries(b),
                               running, agent)
                 /\ Fed' = Fed \union {b}
                 /\ Consistent([children EXCEPT ![b] = NewChildren(b)], queue \o NewEntries(b),
                               agent, Fed \union {b})
            ELSE /\ Fed' = Fed /\ UNCHANGED <<queue, running, agent>>
                 /\ Consistent(children', queue, agent, Fed)
<1>1. b \notin Fed /\ provider' = provider
  BY DEF HandleSpawnParallel, Fed
<1>2. /\ Consistent([children EXCEPT ![b] = NewChildren(b)], queue \o NewEntries(b),
                    agent, Fed \union {b})
      /\ Consistent([children EXCEPT ![b] = NewChildren(b)], queue, agent, Fed)
  BY <1>1, RegisterKeeps DEF IInv
<1>3. call' = [call EXCEPT ![b] = "waiting"] /\ call \in [Batches -> {"idle", "sent", "waiting", "answered"}]
  BY DEF HandleSpawnParallel, IInv, TypeOK
<1>4. provider => Fed' = Fed \union {b}
  BY <1>1, <1>3 DEF Fed
<1>5. ~ provider => Fed' = Fed
  BY <1>1 DEF Fed
<1>6. NewChildren(b) = [i \in DOMAIN Subtasks[b] |-> [status |-> "Pending", agent |-> None]]
  BY DEF NewChildren, Pending
<1>7. NewEntries(b) = [i \in DOMAIN Subtasks[b] |-> <<b, i>>]
  BY DEF NewEntries
<1>8. provider => SpawnReady([children EXCEPT ![b] = NewChildren(b)], queue \o NewEntries(b),
                             running, agent)
  BY <1>6, <1>7 DEF HandleSpawnParallel
<1>9. ~ provider => /\ children' = [children EXCEPT ![b] = NewChildren(b)]
                    /\ UNCHANGED <<queue, running, agent>>
  BY <1>6, <1>7 DEF HandleSpawnParallel
<1> QED
  BY <1>1, <1>2, <1>4, <1>5, <1>8, <1>9

\* The handler of Done marks the child, and starts tasks if the count falls.
LEMMA DoneStep ==
  ASSUME IInv, NEW a \in Agents, HandleDone(a),
         NEW ags, ags = [agent EXCEPT ![a] = "handled"]
  PROVE  /\ Consistent(Updated(a), queue, ags, Fed) /\ provider' = provider
         /\ call' = Answered(Updated(a), a)
         /\ IF running > 0
            THEN SpawnReady(Updated(a), queue, running - 1, ags)
            ELSE children' = Updated(a) /\ agent' = ags /\ UNCHANGED <<queue, running>>
         /\ stolen' = IF running > 0 /\ a \in Ordinary THEN stolen + 1 ELSE stolen
<1>1. Consistent(Updated(a), queue, ags, Fed)
  BY DoneKeeps DEF IInv, HandleDone
<1> QED
  BY <1>1 DEF HandleDone, CountDone

\* A call that is answered had a child of the agent, so it was waiting and queued.
LEMMA AnswersWaiting ==
  ASSUME IInv, NEW a \in Agents, NEW b \in Batches,
         NEW j \in DOMAIN Updated(a)[b], Updated(a)[b][j].agent = a
  PROVE  b \in Fed /\ a \in Tasks /\ a[1] = b
<1>1. j \in DOMAIN children[b] /\ children[b][j].agent = a /\ a # None
  <2>1. Updated(a)[b] = [k \in DOMAIN children[b] |->
                   IF children[b][k].agent = a
                   THEN [children[b][k] EXCEPT !.status = "Completed"] ELSE children[b][k]]
    BY DEF Updated
  <2>2. j \in DOMAIN children[b] /\ children[b][j] \in ChildType
    BY <2>1 DEF IInv, TypeOK
  <2>3. [children[b][j] EXCEPT !.status = "Completed"].agent = children[b][j].agent
    BY <2>2 DEF ChildType
  <2> QED
    BY <2>1, <2>2, <2>3, BatchesAssumption DEF Agents
<1>2. children[b][j] # Pending
  BY <1>1 DEF Pending
<1>3. PICK i \in DOMAIN Subtasks[b] : Notes(children, agent, b, j, i)
  BY <1>1, <1>2 DEF IInv, Consistent, Noting
<1>4. a = <<b, i>> /\ agent[a] # "none" /\ a \in Tasks
  BY <1>1, <1>3, TaskIs DEF Notes
<1> QED
  BY <1>4 DEF IInv, Consistent, Queueing

\* Who is answered.
LEMMA AnsweredCalls ==
  ASSUME IInv, NEW a \in Agents, HandleDone(a)
  PROVE  /\ call' \in [Batches -> {"idle", "sent", "waiting", "answered"}]
         /\ Fed' = Fed
         /\ \A b \in Batches : call'[b] # call[b] => call'[b] = "answered" /\ b \in Fed
<1>1. call' = Answered(Updated(a), a) /\ provider' = provider
  BY DEF HandleDone
<1>2. ASSUME NEW b \in Batches
      PROVE  call'[b] = call[b] \/ (call'[b] = "answered" /\ b \in Fed)
  <2> DEFINE cs == Updated(a)
  <2>1. (\E j \in DOMAIN cs[b] : cs[b][j].agent = a) => b \in Fed
    BY AnswersWaiting
  <2> HIDE DEF cs
  <2>2. call'[b] = IF (\E j \in DOMAIN cs[b] : cs[b][j].agent = a) /\ IsComplete(cs, b)
                   THEN "answered" ELSE call[b]
    BY <1>1 DEF Answered, cs
  <2> QED
    BY <2>1, <2>2
<1>3. call' \in [Batches -> {"idle", "sent", "waiting", "answered"}]
  <2>1. call' = [b \in Batches |-> call'[b]]
    BY <1>1 DEF Answered
  <2> QED
    BY <1>2, <2>1 DEF IInv, TypeOK
<1>4. Fed' = Fed
  BY <1>1, <1>2 DEF Fed
<1> QED
  BY <1>2, <1>3, <1>4

\* Agents that are in no queue and have been noted may run and end.
LEMMA AgentMoves ==
  ASSUME IInv, NEW a \in Agents, NEW s \in {"working", "done", "failed"},
         agent' = [agent EXCEPT ![a] = s], agent[a] # "none" \/ a \in Ordinary,
         agent[a] # "handled" \/ a \in Ordinary,
         UNCHANGED <<provider, call, children, queue, running, stolen>>
  PROVE  IInv'
<1>1. /\ agent \in [Agents -> AgentStates] /\ agent' \in [Agents -> AgentStates]
      /\ Typed(children, queue, agent) /\ Sized(children, Fed) /\ Queueing(queue, agent, Fed)
      /\ Noting(children, agent) /\ \A t \in Tasks : t \in Agents
  BY DEF IInv, TypeOK, Consistent, Typed, AgentStates, Agents
<1>2. \A t \in Tasks : /\ agent'[t] = "none" <=> agent[t] = "none"
                       /\ agent'[t] = "handled" <=> agent[t] = "handled"
  BY <1>1, BatchesAssumption
<1>3. Queueing(queue, agent', Fed)
  <2>1. \A k \in DOMAIN queue : queue[k] \in Tasks
    BY <1>1 DEF Typed
  <2> QED
    BY <1>1, <1>2, <2>1 DEF Queueing
<1>4. Noting(children, agent')
  <2>1. \A b \in Batches : \A i \in DOMAIN Subtasks[b] :
          /\ agent'[<<b, i>>] # "none" <=> agent[<<b, i>>] # "none"
          /\ \A j : Notes(children, agent', b, j, i) <=> Notes(children, agent, b, j, i)
    BY <1>2, TaskIs DEF Notes
  <2> QED
    BY <1>1, <2>1 DEF Noting
<1>5. Fed' = Fed
  BY DEF Fed
<1>6. Consistent(children', queue', agent', Fed')
  BY <1>1, <1>3, <1>4, <1>5 DEF Consistent, Typed
<1>7. TypeOK'
  BY <1>1 DEF IInv, TypeOK
<1> QED
  BY <1>6, <1>7 DEF IInv

\* Queue, children and agents agree in every state.
LEMMA Inductive ==
  /\ Init => IInv
  /\ IInv /\ [Next]_vars => IInv'
<1>1. ASSUME Init PROVE IInv
  <2>1. TypeOK
    BY <1>1 DEF Init, TypeOK, AgentStates
  <2>2. Fed = {} /\ queue = <<>> /\ \A t \in Agents : agent[t] = "none"
    BY <1>1 DEF Init, Fed
  <2>3. \A b \in Batches : DOMAIN children[b] = {}
    BY <1>1 DEF Init
  <2>4. Sized(children, Fed) /\ Queueing(queue, agent, Fed)
    BY <2>2, <2>3 DEF Sized, Queueing, Agents
  <2>5. Noting(children, agent)
    <3>1. \A b \in Batches : \A i \in DOMAIN Subtasks[b] : agent[<<b, i>>] = "none"
      BY <2>2, TaskIs DEF Agents
    <3> QED
      BY <2>3, <3>1 DEF Noting
  <2> QED
    BY <2>1, <2>4, <2>5 DEF IInv, Consistent, Typed, TypeOK
<1>2. ASSUME IInv, [Next]_vars PROVE IInv'
  <2> USE <1>2
  <2>1. ASSUME NEW b \in Batches, HandleSpawnParallel(b) PROVE IInv'
    <3>1. Consistent(children', queue', agent', Fed') /\ running' \in Nat
      <4>1. CASE provider
        <5> DEFINE cs == [children EXCEPT ![b] = NewChildren(b)]
                   q == queue \o NewEntries(b)
        <5>1. SpawnReady(cs, q, running, agent) /\ Consistent(cs, q, agent, Fed')
          BY <2>1, <4>1, RegisterStep
        <5>2. running \in Nat
          BY DEF IInv, TypeOK
        <5> HIDE DEF cs, q
        <5> QED
          BY <5>1, <5>2, Spawned
      <4>2. CASE ~ provider
        BY <2>1, <4>2, RegisterStep DEF IInv, TypeOK
      <4> QED
        BY <4>1, <4>2
    <3>2. call' \in [Batches -> {"idle", "sent", "waiting", "answered"}]
      BY <2>1 DEF HandleSpawnParallel, IInv, TypeOK
    <3> QED
      BY <2>1, <3>1, <3>2 DEF HandleSpawnParallel, IInv, TypeOK, Consistent, Typed
  <2>2. ASSUME NEW a \in Agents, HandleDone(a) PROVE IInv'
    <3>0. running \in Nat /\ (running > 0 => running - 1 \in Nat)
      BY DEF IInv, TypeOK
    <3>1. Consistent(children', queue', agent', Fed) /\ running' \in Nat
      <4>1. CASE running > 0
        BY <2>2, <3>0, <4>1, DoneStep, Spawned
      <4>2. CASE ~ (running > 0)
        BY <2>2, <3>0, <4>2, DoneStep
      <4> QED
        BY <4>1, <4>2
    <3>2. provider' = provider /\ stolen' \in Nat
      <4>1. stolen' = IF running > 0 /\ a \in Ordinary THEN stolen + 1 ELSE stolen
        BY <2>2, DoneStep
      <4> QED
        BY <2>2, <4>1 DEF HandleDone, IInv, TypeOK
    <3> QED
      BY <2>2, <3>1, <3>2, AnsweredCalls DEF IInv, TypeOK, Consistent, Typed
  <2>3. ASSUME NEW b \in Batches, Call(b) PROVE IInv'
    <3>1. Fed' = Fed
      BY <2>3 DEF Call, Fed, IInv, TypeOK
    <3>2. TypeOK'
      BY <2>3 DEF Call, IInv, TypeOK
    <3> QED
      BY <2>3, <3>1, <3>2 DEF Call, IInv
  <2>4. ASSUME NEW a \in Ordinary, SpawnOrdinary(a) PROVE IInv'
    BY <2>4, AgentMoves DEF SpawnOrdinary, Agents
  <2>5. ASSUME NEW a \in Agents, Finish(a) \/ Fail(a) PROVE IInv'
    BY <2>5, AgentMoves DEF Finish, Fail
  <2>6. CASE UNCHANGED vars
    <3>1. Fed' = Fed
      BY <2>6 DEF vars, Fed
    <3> QED
      BY <2>6, <3>1 DEF vars, IInv, TypeOK
  <2> QED
    BY <2>1, <2>2, <2>3, <2>4, <2>5, <2>6 DEF Next, Handle
<1> QED
  BY <1>1, <1>2

\* Calls, children, queue, count and agents keep their types.
THEOREM TypeCorrect == Spec => []TypeOK
<1>1. Spec => []IInv
  BY Inductive, PTL DEF Spec
<1>2. IInv => TypeOK
  BY DEF IInv
<1> QED
  BY <1>1, <1>2, PTL

---------------------------------------------------------------------------
(* What the runs check *)

\* Each step leaves an agent's run as it was, starts it, or takes it on.
LEMMA TaskMoves ==
  ASSUME IInv, [Next]_vars, NEW t \in Tasks
  PROVE  agent[t] = "handled" => agent'[t] = "handled"
<1> USE DEF IInv, TypeOK
<1>0. t \in Agents /\ t \notin Ordinary
  BY BatchesAssumption DEF Agents
<1>1. ASSUME NEW b \in Batches, HandleSpawnParallel(b), agent[t] = "handled"
      PROVE  agent'[t] = "handled"
  <2>0. running \in Nat /\ agent[t] # "none"
    BY <1>1
  <2> HIDE DEF IInv, TypeOK
  <2>1. CASE provider
    <3>1. \A x \in Agents : agent[x] # "none" => agent'[x] = agent[x]
      <4> DEFINE cs == [children EXCEPT ![b] = NewChildren(b)]
                 q == queue \o NewEntries(b)
      <4>1. SpawnReady(cs, q, running, agent) /\ Consistent(cs, q, agent, Fed \union {b})
        BY <1>1, <2>1, RegisterStep
      <4> HIDE DEF cs, q
      <4> QED
        BY <2>0, <4>1, Spawned
    <3> QED
      BY <1>0, <1>1, <2>0, <3>1
  <2>2. CASE ~ provider
    BY <1>1, <2>2, RegisterStep
  <2> QED
    BY <2>1, <2>2
<1>2. ASSUME NEW a \in Agents, HandleDone(a), agent[t] = "handled"
      PROVE  agent'[t] = "handled"
  <2> DEFINE ags == [agent EXCEPT ![a] = "handled"]
  <2>1. ags[t] = "handled"
    BY <1>0, <1>2
  <2>2. running \in Nat /\ (running > 0 => running - 1 \in Nat)
    OBVIOUS
  <2>3. /\ Consistent(Updated(a), queue, ags, Fed)
        /\ IF running > 0 THEN SpawnReady(Updated(a), queue, running - 1, ags) ELSE agent' = ags
    BY <1>2, DoneStep
  <2> HIDE DEF ags, IInv, TypeOK
  <2>4. CASE running > 0
    <3>1. \A x \in Agents : ags[x] # "none" => agent'[x] = ags[x]
      BY <2>2, <2>3, <2>4, Spawned
    <3> QED
      BY <1>0, <2>1, <3>1
  <2>5. CASE ~ (running > 0)
    BY <2>1, <2>3, <2>5
  <2> QED
    BY <2>4, <2>5
<1>3. ASSUME NEW a \in Agents, Finish(a) \/ Fail(a), agent[t] = "handled"
      PROVE  agent'[t] = "handled"
  BY <1>0, <1>3 DEF Finish, Fail
<1>4. ASSUME NEW a \in Ordinary, SpawnOrdinary(a), agent[t] = "handled"
      PROVE  agent'[t] = "handled"
  BY <1>0, <1>4 DEF SpawnOrdinary
<1>5. ASSUME NEW b \in Batches, Call(b) PROVE agent' = agent
  BY <1>5 DEF Call
<1>6. CASE UNCHANGED vars
  BY <1>6 DEF vars
<1> QED
  BY <1>1, <1>2, <1>3, <1>4, <1>5, <1>6 DEF Next, Handle

\* A runnable task's dependencies have been handled.
LEMMA RunnableMeans ==
  ASSUME NEW cs, NEW ags, Noting(cs, ags), NEW t \in Tasks, Runnable(cs, t)
  PROVE  \A d \in Deps(t[1], t[2]) : \E i \in DOMAIN Subtasks[t[1]] :
           Key(t[1], i) = d /\ ags[<<t[1], i>>] = "handled"
<1> SUFFICES ASSUME NEW d \in Deps(t[1], t[2])
             PROVE  \E i \in DOMAIN Subtasks[t[1]] :
                      Key(t[1], i) = d /\ ags[<<t[1], i>>] = "handled"
  OBVIOUS
<1> DEFINE b == t[1]
<1>1. b \in Batches
  BY TaskIs
<1>2. PICK j \in DOMAIN cs[b] : cs[b][j].status = "Completed" /\ Key(b, j) = d
  BY DEF Runnable, CompletedKeys
<1>3. cs[b][j] # Pending
  BY <1>2 DEF Pending
<1> HIDE DEF b
<1>4. PICK i \in DOMAIN Subtasks[b] : Notes(cs, ags, b, j, i)
  BY <1>1, <1>2, <1>3 DEF Noting
<1>5. Key(b, i) = d /\ ags[<<b, i>>] = "handled"
  BY <1>2, <1>4 DEF Notes
<1> QED
  BY <1>5 DEF b

\* DependentsWait, of the agents a handler has reached.
Waited(ags) == \A t \in Tasks : ags[t] # "none" =>
  \A d \in Deps(t[1], t[2]) : \E i \in DOMAIN Subtasks[t[1]] :
    Key(t[1], i) = d /\ ags[<<t[1], i>>] = "handled"

\* Starting runnable tasks keeps it.
LEMMA SpawnsWaited ==
  ASSUME NEW cs, NEW q, NEW count \in Nat, NEW ags, NEW fed, Consistent(cs, q, ags, fed),
         SpawnReady(cs, q, count, ags), Waited(ags)
  PROVE  Waited(agent')
<1>1. /\ \A a \in Agents : ags[a] # "none" => agent'[a] = ags[a]
      /\ \A a \in Agents : agent'[a] # ags[a] =>
           a \in Tasks /\ agent'[a] = "working" /\ Runnable(cs, a)
  BY Spawned
<1>2. \A b \in Batches : \A i \in DOMAIN Subtasks[b] : <<b, i>> \in Agents
  BY TaskIs DEF Agents
<1> SUFFICES ASSUME NEW t \in Tasks, agent'[t] # "none", NEW d \in Deps(t[1], t[2])
             PROVE  \E i \in DOMAIN Subtasks[t[1]] :
                      Key(t[1], i) = d /\ agent'[<<t[1], i>>] = "handled"
  BY DEF Waited
<1>3. t \in Agents /\ t[1] \in Batches
  BY TaskIs DEF Agents
<1>4. \E i \in DOMAIN Subtasks[t[1]] : Key(t[1], i) = d /\ ags[<<t[1], i>>] = "handled"
  <2>1. CASE ags[t] # "none"
    BY <2>1 DEF Waited
  <2>2. CASE Runnable(cs, t)
    <3>1. Noting(cs, ags)
      BY DEF Consistent
    <3> QED
      BY <2>2, <3>1, RunnableMeans
  <2> QED
    BY <1>1, <1>3, <2>1, <2>2
<1> QED
  BY <1>1, <1>2, <1>3, <1>4

\* No agent starts before, for each key its subtask depends on, an agent of that key has
\* been handled: the child whose completion made it runnable is that of such an agent.
THEOREM DependentsFollow == Spec => []DependentsWait
<1>1. Init => DependentsWait
  BY DEF Init, DependentsWait, Agents
<1>2. IInv /\ DependentsWait /\ [Next]_vars => DependentsWait'
  <2> SUFFICES ASSUME IInv, DependentsWait, [Next]_vars PROVE Waited(agent')
    BY DEF DependentsWait, Waited
  <2>0. /\ Waited(agent) /\ running \in Nat /\ agent \in [Agents -> AgentStates]
        /\ \A t \in Tasks : t \in Agents /\ t \notin Ordinary
    BY BatchesAssumption DEF DependentsWait, Waited, IInv, TypeOK, Agents
  <2>1. ASSUME NEW b \in Batches, HandleSpawnParallel(b) PROVE Waited(agent')
    <3>1. CASE provider
      BY <2>0, <2>1, <3>1, RegisterStep, SpawnsWaited
    <3>2. CASE ~ provider
      BY <2>0, <2>1, <3>2, RegisterStep
    <3> QED
      BY <3>1, <3>2
  <2>2. ASSUME NEW a \in Agents, HandleDone(a) PROVE Waited(agent')
    <3> DEFINE ags == [agent EXCEPT ![a] = "handled"]
    <3>1. /\ \A t \in Tasks : agent[t] = "handled" => ags[t] = "handled"
          /\ \A t \in Tasks : ags[t] # "none" => agent[t] # "none"
      BY <2>0, <2>2 DEF HandleDone
    <3>2. /\ Consistent(Updated(a), queue, ags, Fed)
          /\ IF running > 0 THEN SpawnReady(Updated(a), queue, running - 1, ags) ELSE agent' = ags
      BY <2>2, DoneStep
    <3> HIDE DEF ags
    <3>3. Waited(ags)
      BY <2>0, <3>1, TaskIs DEF Waited
    <3>4. CASE running > 0
      <4>1. running - 1 \in Nat
        BY <2>0, <3>4
      <4> QED
        BY <3>2, <3>3, <3>4, <4>1, SpawnsWaited
    <3>5. CASE ~ (running > 0)
      BY <3>2, <3>3, <3>5
    <3> QED
      BY <3>4, <3>5
  <2>3. ASSUME NEW a \in Agents, Finish(a) \/ Fail(a) PROVE Waited(agent')
    <3>1. \A t \in Tasks : agent'[t] # "none" => agent[t] # "none"
      BY <2>0, <2>3 DEF Finish, Fail
    <3> QED
      BY <2>0, <3>1, TaskMoves, TaskIs DEF Waited
  <2>4. ASSUME NEW a \in Ordinary, SpawnOrdinary(a) PROVE Waited(agent')
    <3>1. \A t \in Tasks : agent'[t] # "none" => agent[t] # "none"
      BY <2>0, <2>4 DEF SpawnOrdinary
    <3> QED
      BY <2>0, <3>1, TaskMoves, TaskIs DEF Waited
  <2>5. ASSUME NEW b \in Batches, Call(b) PROVE Waited(agent')
    BY <2>0, <2>5 DEF Call
  <2>6. CASE UNCHANGED vars
    BY <2>0, <2>6 DEF vars
  <2> QED
    BY <2>1, <2>2, <2>3, <2>4, <2>5, <2>6 DEF Next, Handle
<1> QED
  BY <1>1, <1>2, Inductive, PTL DEF Spec

\* The loop that starts tasks leaves alone what has been handled.
LEMMA SpawnsHandled ==
  ASSUME NEW cs, NEW q, NEW count \in Nat, NEW ags, NEW fed, Consistent(cs, q, ags, fed),
         SpawnReady(cs, q, count, ags), NEW t \in Tasks
  PROVE  agent'[t] = "handled" <=> ags[t] = "handled"
<1>1. t \in Agents
  BY DEF Agents
<1>2. /\ ags[t] # "none" => agent'[t] = ags[t]
      /\ agent'[t] # ags[t] => agent'[t] = "working"
  BY <1>1, Spawned
<1> QED
  BY <1>2

AllHandled(ags, b) == \A i \in DOMAIN Subtasks[b] : ags[<<b, i>>] = "handled"

\* The tool is answered exactly when the agents of all of the batch's subtasks have been
\* handled: finalize_parallel_batch runs for the batch of the agent, which was not
\* complete before, and no other batch has the agent.
THEOREM AnswersComplete == Spec => []AnswerIsComplete
<1>1. Init => AnswerIsComplete
  <2> SUFFICES ASSUME Init, NEW b \in Batches
               PROVE  call[b] = "answered" <=> AllHandled(agent, b)
    BY DEF AnswerIsComplete, AllHandled
  <2>1. PICK i \in DOMAIN Subtasks[b] : TRUE
    BY SubtasksNumbered
  <2>2. <<b, i>> \in Agents
    BY TaskIs DEF Agents
  <2> QED
    BY <2>1, <2>2 DEF Init, AllHandled
<1>2. IInv /\ AnswerIsComplete /\ [Next]_vars => AnswerIsComplete'
  <2> SUFFICES ASSUME IInv, AnswerIsComplete, [Next]_vars, NEW b \in Batches
               PROVE  call'[b] = "answered" <=> AllHandled(agent', b)
    BY DEF AnswerIsComplete, AllHandled
  <2>0. /\ call[b] = "answered" <=> AllHandled(agent, b)
        /\ call \in [Batches -> {"idle", "sent", "waiting", "answered"}]
        /\ running \in Nat /\ agent \in [Agents -> AgentStates]
        /\ \A t \in Tasks : t \in Agents /\ t \notin Ordinary
        /\ \A i \in DOMAIN Subtasks[b] : <<b, i>> \in Tasks
    BY BatchesAssumption, TaskIs DEF AnswerIsComplete, AllHandled, IInv, TypeOK, Agents
  <2>a. ASSUME \A t \in Tasks : agent'[t] = "handled" <=> agent[t] = "handled"
        PROVE  AllHandled(agent', b) <=> AllHandled(agent, b)
    BY <2>0, <2>a DEF AllHandled
  <2>1. ASSUME NEW c \in Batches, HandleSpawnParallel(c)
        PROVE  call'[b] = "answered" <=> AllHandled(agent', b)
    <3>1. \A t \in Tasks : agent'[t] = "handled" <=> agent[t] = "handled"
      <4>1. CASE provider
        <5> DEFINE cs == [children EXCEPT ![c] = NewChildren(c)]
                   q == queue \o NewEntries(c)
        <5>1. SpawnReady(cs, q, running, agent) /\ Consistent(cs, q, agent, Fed \union {c})
          BY <2>1, <4>1, RegisterStep
        <5> HIDE DEF cs, q
        <5> QED
          BY <2>0, <5>1, SpawnsHandled
      <4>2. CASE ~ provider
        BY <2>1, <4>2, RegisterStep
      <4> QED
        BY <4>1, <4>2
    <3>2. call'[b] = "answered" <=> call[b] = "answered"
      BY <2>0, <2>1 DEF HandleSpawnParallel
    <3> QED
      BY <2>0, <2>a, <3>1, <3>2
  <2>2. ASSUME NEW a \in Agents, HandleDone(a)
        PROVE  call'[b] = "answered" <=> AllHandled(agent', b)
    <3> DEFINE ags == [agent EXCEPT ![a] = "handled"]
               cs == Updated(a)
    <3>1. /\ Consistent(cs, queue, ags, Fed)
          /\ IF running > 0 THEN SpawnReady(cs, queue, running - 1, ags) ELSE agent' = ags
          /\ call' = Answered(cs, a)
      BY <2>2, DoneStep
    <3>2. /\ agent[a] = "done" /\ ags[a] = "handled"
          /\ \A t \in Agents : t # a => ags[t] = agent[t]
      BY <2>0, <2>2 DEF HandleDone
    <3>3. call'[b] = IF (\E j \in DOMAIN cs[b] : cs[b][j].agent = a) /\ IsComplete(cs, b)
                     THEN "answered" ELSE call[b]
      BY <3>1 DEF Answered
    <3>4. (\E j \in DOMAIN cs[b] : cs[b][j].agent = a) => b \in Fed /\ a \in Tasks /\ a[1] = b
      BY AnswersWaiting
    <3> HIDE DEF ags, cs
    <3>5. AllHandled(agent', b) <=> AllHandled(ags, b)
      <4>1. CASE running > 0
        <5>1. running - 1 \in Nat
          BY <2>0, <4>1
        <5>2. \A t \in Tasks : agent'[t] = "handled" <=> ags[t] = "handled"
          BY <3>1, <4>1, <5>1, SpawnsHandled
        <5> QED
          BY <2>0, <5>2 DEF AllHandled
      <4>2. CASE ~ (running > 0)
        BY <3>1, <4>2
      <4> QED
        BY <4>1, <4>2
    <3>6. CASE \E j \in DOMAIN cs[b] : cs[b][j].agent = a
      <4>1. b \in Fed /\ a \in Tasks /\ a[1] = b
        BY <3>4, <3>6
      <4>2. a = <<b, a[2]>> /\ a[2] \in DOMAIN Subtasks[b]
        BY <4>1, TaskIs
      <4>3. ~ AllHandled(agent, b) /\ call[b] # "answered"
        BY <2>0, <3>2, <4>2 DEF AllHandled
      <4>4. IsComplete(cs, b) <=> AllHandled(ags, b)
        BY <3>1, <4>1, CompleteMeansHandled DEF AllHandled
      <4> QED
        BY <3>3, <3>5, <3>6, <4>3, <4>4
    <3>7. CASE ~ \E j \in DOMAIN cs[b] : cs[b][j].agent = a
      <4>1. \A i \in DOMAIN Subtasks[b] : <<b, i>> # a
        <5>1. ASSUME NEW i \in DOMAIN Subtasks[b], <<b, i>> = a PROVE FALSE
          <6>1. ags[<<b, i>>] # "none"
            BY <3>2, <5>1
          <6>2. PICK j \in DOMAIN cs[b] : Notes(cs, ags, b, j, i)
            BY <3>1, <6>1 DEF Consistent, Noting
          <6> QED
            BY <3>7, <5>1, <6>2 DEF Notes
        <5> QED
          BY <5>1
      <4>2. AllHandled(ags, b) <=> AllHandled(agent, b)
        BY <2>0, <3>2, <4>1 DEF AllHandled
      <4> QED
        BY <2>0, <3>3, <3>5, <3>7, <4>2
    <3> QED
      BY <3>6, <3>7
  <2>3. ASSUME NEW a \in Agents, Finish(a) \/ Fail(a)
        PROVE  call'[b] = "answered" <=> AllHandled(agent', b)
    <3>1. /\ call' = call
          /\ \A t \in Tasks : agent'[t] = "handled" <=> agent[t] = "handled"
      BY <2>0, <2>3 DEF Finish, Fail
    <3> QED
      BY <2>0, <2>a, <3>1
  <2>4. ASSUME NEW a \in Ordinary, SpawnOrdinary(a)
        PROVE  call'[b] = "answered" <=> AllHandled(agent', b)
    <3>1. /\ call' = call
          /\ \A t \in Tasks : agent'[t] = "handled" <=> agent[t] = "handled"
      BY <2>0, <2>4 DEF SpawnOrdinary
    <3> QED
      BY <2>0, <2>a, <3>1
  <2>5. ASSUME NEW c \in Batches, Call(c)
        PROVE  call'[b] = "answered" <=> AllHandled(agent', b)
    <3>1. agent' = agent /\ (call'[b] = "answered" <=> call[b] = "answered")
      BY <2>0, <2>5 DEF Call
    <3> QED
      BY <2>0, <3>1
  <2>6. CASE UNCHANGED vars
    BY <2>0, <2>6 DEF vars
  <2> QED
    BY <2>1, <2>2, <2>3, <2>4, <2>5, <2>6 DEF Next, Handle
<1> QED
  BY <1>1, <1>2, Inductive, PTL DEF Spec

\* The agents in flight, of the agents a handler has reached.
LiveOf(ags) == {t \in Tasks : ags[t] \in {"working", "done", "failed"}}

\* What the loop takes fits under the limit: the last place it takes is as many places
\* from the first one ready as it takes places.
LEMMA TakenFit ==
  ASSUME NEW q \in Seq(Tasks), NEW cs, NEW count \in Nat, count <= MaxConcurrent
  PROVE  count + Cardinality(Taken(cs, q, count)) <= MaxConcurrent
<1> DEFINE R == Ready(cs, q)
           K == Taken(cs, q, count)
           n == Cardinality(K)
<1>1. R \in SUBSET (DOMAIN q) /\ K \in SUBSET (DOMAIN q)
  BY DEF Taken, Ready
<1>2. K = {k \in R : count + Rank(R, k) <= MaxConcurrent}
  BY DEF Taken
<1> HIDE DEF R, K
<1>3. n \in Nat /\ \A m \in 1 .. n : \E k \in K : Rank(K, k) = m
  BY <1>1, PlacesRanked
<1>4. /\ Cardinality(R) \in Nat /\ \A k \in R : Rank(R, k) \in 1 .. Cardinality(R)
      /\ \A j, k \in R : j <= k => Rank(R, j) <= Rank(R, k)
  BY <1>1, PlacesRanked
<1> HIDE DEF n
<1>5. count + n <= MaxConcurrent
  <2>1. CASE n # 0
    <3>1. n \in 1 .. n
      BY <1>3, <2>1
    <3>2. PICK k \in K : Rank(K, k) = n
      BY <1>3, <3>1
    <3>3. k \in R /\ count + Rank(R, k) <= MaxConcurrent
      BY <1>2
    <3>4. ASSUME NEW j \in R, j <= k PROVE j \in K
      <4>1. Rank(R, j) <= Rank(R, k) /\ Rank(R, j) \in Nat /\ Rank(R, k) \in Nat
        BY <1>4, <3>3, <3>4
      <4>2. count + Rank(R, j) <= MaxConcurrent
        BY <3>3, <4>1, BatchesAssumption
      <4> QED
        BY <1>2, <4>2
    <3>5. {j \in K : j <= k} = {j \in R : j <= k}
      BY <1>2, <3>4
    <3>6. Rank(R, k) = n
      BY <3>2, <3>5 DEF Rank
    <3> QED
      BY <3>3, <3>6
  <2>2. CASE n = 0
    BY <2>2
  <2> QED
    BY <2>1, <2>2
<1> QED
  BY <1>5 DEF n, K

\* The loop starts as many agents as it counts, and stops at the limit.
LEMMA SpawnsCounted ==
  ASSUME NEW cs, NEW q, NEW count \in Nat, NEW ags, NEW fed, Consistent(cs, q, ags, fed),
         SpawnReady(cs, q, count, ags), count <= MaxConcurrent, IsFiniteSet(LiveOf(ags))
  PROVE  \E n \in Nat : /\ running' = count + n /\ running' <= MaxConcurrent
                        /\ IsFiniteSet(LiveOf(agent'))
                        /\ Cardinality(LiveOf(agent')) = Cardinality(LiveOf(ags)) + n
<1> DEFINE R == Ready(cs, q)
           K == Taken(cs, q, count)
           T == {q[k] : k \in K}
           n == Cardinality(K)
<1>1. R \in SUBSET (DOMAIN q) /\ K \in SUBSET (DOMAIN q) /\ q \in Seq(Tasks)
  BY DEF Taken, Ready, Consistent, Typed
<1>2. IsFiniteSet(K) /\ n \in Nat
  BY <1>1, PlacesRanked
<1>3. running' = count + n /\ agent' = [a \in Agents |-> IF a \in T THEN "working" ELSE ags[a]]
  BY DEF SpawnReady
<1>4. count + n <= MaxConcurrent
  BY <1>1, TakenFit
<1>5. /\ \A k \in K : q[k] \in Tasks /\ ags[q[k]] = "none"
      /\ \A k, m \in K : q[k] = q[m] => k = m
  BY <1>1 DEF Consistent, Queueing
<1>6. IsFiniteSet(T) /\ Cardinality(T) = n
  <2> DEFINE f == [k \in K |-> q[k]]
  <2>1. f \in Surjection(K, T)
    BY DEF Surjection
  <2>2. f \in Injection(K, T)
    BY <1>5 DEF Injection, IsInjective
  <2> HIDE DEF f, K, T
  <2> QED
    BY <1>2, <2>1, <2>2, FS_Surjection
<1>7. LiveOf(agent') = LiveOf(ags) \union T /\ LiveOf(ags) \cap T = {}
  BY <1>3, <1>5 DEF LiveOf, Agents
<1> HIDE DEF R, K, T
<1>8. /\ IsFiniteSet(LiveOf(agent'))
      /\ Cardinality(LiveOf(agent')) = Cardinality(LiveOf(ags)) + n
  <2>1. /\ IsFiniteSet(LiveOf(ags) \union T)
        /\ Cardinality(LiveOf(ags) \union T) =
             Cardinality(LiveOf(ags)) + Cardinality(T) - Cardinality(LiveOf(ags) \cap T)
    BY <1>6, FS_Union
  <2>2. Cardinality(LiveOf(ags) \cap T) = 0 /\ Cardinality(LiveOf(ags)) \in Nat
    BY <1>7, FS_EmptySet, FS_CardinalityType
  <2> QED
    BY <1>2, <1>6, <1>7, <2>1, <2>2
<1> QED
  BY <1>2, <1>3, <1>4, <1>8

\* CountCovers, of finitely many agents in flight: there may be any number of batches.
Covers == IsFiniteSet(Live) /\ CountCovers

\* Every step keeps it: a slot is freed with its agent, and one counted with each start.
LEMMA LiveCovered == Spec => []Covers
<1>1. Init => Covers
  <2> SUFFICES ASSUME Init PROVE Covers
    OBVIOUS
  <2>1. Live = {} /\ running = 0 /\ stolen = 0
    BY DEF Init, Live, Agents
  <2> QED
    BY <2>1, FS_EmptySet, BatchesAssumption DEF Covers, CountCovers
<1>2. IInv /\ Covers /\ [Next]_vars => Covers'
  <2> SUFFICES ASSUME IInv, Covers, [Next]_vars PROVE Covers'
    OBVIOUS
  <2> DEFINE L == LiveOf(agent)
  <2>0. /\ Live = L /\ Live' = LiveOf(agent')
        /\ IsFiniteSet(L) /\ Cardinality(L) \in Nat /\ running \in Nat /\ stolen \in Nat
        /\ running <= MaxConcurrent /\ running <= Cardinality(L)
        /\ Cardinality(L) <= running + stolen
        /\ agent \in [Agents -> AgentStates]
        /\ \A t \in Tasks : t \in Agents /\ t \notin Ordinary
        /\ MaxConcurrent \in Nat
    BY BatchesAssumption, FS_CardinalityType DEF Covers, CountCovers, Live, LiveOf, IInv, TypeOK, Agents
  <2>a. ASSUME LiveOf(agent') = L, UNCHANGED <<running, stolen>> PROVE Covers'
    BY <2>0, <2>a DEF Covers, CountCovers
  <2>b. ASSUME IsFiniteSet(LiveOf(agent')), running' <= MaxConcurrent,
               running' <= Cardinality(LiveOf(agent')),
               Cardinality(LiveOf(agent')) <= running' + stolen'
        PROVE  Covers'
    BY <2>0, <2>b DEF Covers, CountCovers
  <2>1. ASSUME NEW b \in Batches, HandleSpawnParallel(b) PROVE Covers'
    <3>1. CASE provider
      <4> DEFINE cs == [children EXCEPT ![b] = NewChildren(b)]
                 q == queue \o NewEntries(b)
      <4>1. SpawnReady(cs, q, running, agent) /\ Consistent(cs, q, agent, Fed \union {b})
        BY <2>1, <3>1, RegisterStep
      <4> HIDE DEF cs, q
      <4>2. PICK n \in Nat : /\ running' = running + n /\ running' <= MaxConcurrent
                             /\ IsFiniteSet(LiveOf(agent'))
                             /\ Cardinality(LiveOf(agent')) = Cardinality(L) + n
        BY <2>0, <4>1, SpawnsCounted
      <4>3. stolen' = stolen
        BY <2>1 DEF HandleSpawnParallel
      <4>4. /\ running' <= Cardinality(LiveOf(agent'))
            /\ Cardinality(LiveOf(agent')) <= running' + stolen'
        <5> HIDE DEF L
        <5> QED
          BY <2>0, <4>2, <4>3
      <4> QED
        BY <2>b, <4>2, <4>4
    <3>2. CASE ~ provider
      <4>1. UNCHANGED <<running, agent, stolen>>
        BY <2>1, <3>2, RegisterStep DEF HandleSpawnParallel
      <4> QED
        BY <2>a, <4>1
    <3> QED
      BY <3>1, <3>2
  <2>2. ASSUME NEW a \in Agents, HandleDone(a) PROVE Covers'
    <3> DEFINE ags == [agent EXCEPT ![a] = "handled"]
               cs == Updated(a)
               M == LiveOf(ags)
    <3>1. /\ Consistent(cs, queue, ags, Fed)
          /\ IF running > 0 THEN SpawnReady(cs, queue, running - 1, ags)
             ELSE agent' = ags /\ UNCHANGED running
          /\ stolen' = IF running > 0 /\ a \in Ordinary THEN stolen + 1 ELSE stolen
      BY <2>2, DoneStep
    <3>2. /\ a \in Ordinary => M = L
          /\ a \in Tasks => M = L \ {a} /\ a \in L
      BY <2>0, <2>2 DEF HandleDone, LiveOf
    <3> HIDE DEF ags, cs, M, L
    <3>3. /\ IsFiniteSet(M) /\ Cardinality(M) \in Nat
          /\ a \in Ordinary => Cardinality(M) = Cardinality(L)
          /\ a \in Tasks => Cardinality(M) = Cardinality(L) - 1
          /\ a \in Ordinary <=> a \notin Tasks
      BY <2>0, <3>2, FS_RemoveElement, FS_CardinalityType DEF Agents
    <3>4. CASE running > 0
      <4>1. running - 1 \in Nat /\ running - 1 <= MaxConcurrent
        BY <2>0, <3>4
      <4>2. PICK n \in Nat : /\ running' = (running - 1) + n /\ running' <= MaxConcurrent
                             /\ IsFiniteSet(LiveOf(agent'))
                             /\ Cardinality(LiveOf(agent')) = Cardinality(M) + n
        BY <3>1, <3>3, <3>4, <4>1, SpawnsCounted DEF M
      <4>3. /\ running' <= Cardinality(LiveOf(agent'))
            /\ Cardinality(LiveOf(agent')) <= running' + stolen'
        BY <2>0, <3>1, <3>3, <3>4, <4>2
      <4> QED
        BY <2>b, <4>2, <4>3
    <3>5. CASE ~ (running > 0)
      <4>1. agent' = ags /\ running' = 0 /\ running = 0 /\ stolen' = stolen
        BY <2>0, <3>1, <3>5
      <4>2. LiveOf(agent') = M
        BY <4>1 DEF M
      <4>3. /\ IsFiniteSet(LiveOf(agent')) /\ running' <= MaxConcurrent
            /\ running' <= Cardinality(LiveOf(agent'))
            /\ Cardinality(LiveOf(agent')) <= running' + stolen'
        BY <2>0, <3>3, <4>1, <4>2
      <4> QED
        BY <2>b, <4>3
    <3> QED
      BY <3>4, <3>5
  <2>3. ASSUME NEW a \in Agents, Finish(a) \/ Fail(a) PROVE Covers'
    <3>1. LiveOf(agent') = L /\ UNCHANGED <<running, stolen>>
      BY <2>0, <2>3 DEF Finish, Fail, LiveOf
    <3> QED
      BY <2>a, <3>1
  <2>4. ASSUME NEW a \in Ordinary, SpawnOrdinary(a) PROVE Covers'
    <3>1. LiveOf(agent') = L /\ UNCHANGED <<running, stolen>>
      BY <2>0, <2>4 DEF SpawnOrdinary, LiveOf
    <3> QED
      BY <2>a, <3>1
  <2>5. ASSUME NEW b \in Batches, Call(b) PROVE Covers'
    BY <2>a, <2>5 DEF Call
  <2>6. CASE UNCHANGED vars
    BY <2>a, <2>6 DEF vars
  <2> QED
    BY <2>1, <2>2, <2>3, <2>4, <2>5, <2>6 DEF Next, Handle
<1> QED
  BY <1>1, <1>2, Inductive, PTL DEF Spec

\* The count never exceeds the limit or the agents in flight, and is short of them by no
\* more than what the ends of ordinary sub-agents took from it.
THEOREM CountsCover == Spec => []CountCovers
<1>1. Covers => CountCovers
  BY DEF Covers
<1> QED
  BY <1>1, LiveCovered, PTL

---------------------------------------------------------------------------
(* Nothing waits that could run *)

\* What is left although it was ready is left because the limit is reached.
LEMMA TakenFill ==
  ASSUME NEW q \in Seq(Tasks), NEW cs, NEW count \in Nat, count <= MaxConcurrent,
         NEW k \in Ready(cs, q) \ Taken(cs, q, count)
  PROVE  count + Cardinality(Taken(cs, q, count)) = MaxConcurrent
<1> DEFINE R == Ready(cs, q)
           K == Taken(cs, q, count)
           r == MaxConcurrent - count
<1>1. R \in SUBSET (DOMAIN q) /\ K \in SUBSET (DOMAIN q)
  BY DEF Taken, Ready
<1>2. K = {j \in R : count + Rank(R, j) <= MaxConcurrent} /\ k \in R \ K
  BY DEF Taken
<1>3. count + Cardinality(K) <= MaxConcurrent
  BY TakenFit
<1> HIDE DEF R, K
<1>4. /\ Cardinality(R) \in Nat /\ \A j \in R : Rank(R, j) \in 1 .. Cardinality(R)
      /\ \A i, j \in R : i <= j => Rank(R, i) <= Rank(R, j)
      /\ \A m \in 1 .. Cardinality(R) : \E j \in R : Rank(R, j) = m
  BY <1>1, PlacesRanked
<1>5. Cardinality(K) \in Nat /\ \A j \in K : Rank(K, j) \in 1 .. Cardinality(K)
  BY <1>1, PlacesRanked
<1>6. r \in Nat /\ r <= Cardinality(R) /\ MaxConcurrent \in Nat
  <2>1. /\ Rank(R, k) \in 1 .. Cardinality(R) /\ ~ (count + Rank(R, k) <= MaxConcurrent)
    BY <1>2, <1>4
  <2> QED
    BY <1>4, <2>1, BatchesAssumption
<1>7. CASE r # 0
  <2>1. r \in 1 .. Cardinality(R)
    BY <1>4, <1>6, <1>7
  <2>2. PICK m \in R : Rank(R, m) = r
    BY <1>4, <2>1
  <2>3. ASSUME NEW j \in R, j <= m PROVE j \in K
    <3>1. Rank(R, j) <= r /\ Rank(R, j) \in 1 .. Cardinality(R)
      BY <1>4, <2>2, <2>3
    <3> QED
      BY <1>2, <1>4, <1>6, <3>1
  <2>4. {j \in K : j <= m} = {j \in R : j <= m}
    BY <1>2, <2>3
  <2>5. Rank(K, m) = r
    BY <2>2, <2>4 DEF Rank
  <2>6. m \in K
    BY <1>2, <1>6, <2>2
  <2>7. r <= Cardinality(K)
    BY <1>5, <2>5, <2>6
  <2> QED
    BY <1>3, <1>5, <1>6, <2>7 DEF K
<1>8. CASE r = 0
  BY <1>3, <1>5, <1>6, <1>8 DEF K
<1> QED
  BY <1>7, <1>8

\* A queued subtask that could run waits only for a slot.
Full(cs, q, count) ==
  \A k \in DOMAIN q : Runnable(cs, q[k]) => count = MaxConcurrent

\* The loop leaves it so: what it started makes nothing else ready.
LEMMA SpawnsFill ==
  ASSUME NEW cs, NEW q, NEW count \in Nat, NEW ags, NEW fed, Consistent(cs, q, ags, fed),
         SpawnReady(cs, q, count, ags), count <= MaxConcurrent
  PROVE  Full(children', queue', running')
<1> DEFINE K == Taken(cs, q, count)
           D == DOMAIN q \ K
<1>1. q \in Seq(Tasks) /\ K \in SUBSET (DOMAIN q) /\ D \in SUBSET (DOMAIN q)
  BY DEF Consistent, Typed, Taken, Ready
<1>2. /\ children' = NoteStarts(cs, q, K) /\ queue' = Retain(q, D)
      /\ running' = count + Cardinality(K)
  BY DEF SpawnReady
<1> HIDE DEF K, D
<1>3. PICK at : KeptFrom(queue', q, D, at)
  BY <1>1, <1>2, Retained
<1>4. queue' \in Seq(Tasks)
  BY <1>1, <1>2, Retained
<1> SUFFICES ASSUME NEW k \in DOMAIN queue', Runnable(children', queue'[k])
             PROVE  running' = MaxConcurrent
  BY DEF Full
<1>5. at[k] \in D /\ queue'[k] = q[at[k]]
  <2>1. k \in 1 .. Len(queue')
    BY <1>4
  <2> QED
    BY <1>3, <2>1 DEF KeptFrom
<1>6. queue'[k][1] \in Batches
  BY <1>4, TaskIs
<1>7. Runnable(cs, queue'[k])
  <2> DEFINE b == queue'[k][1]
  <2>1. CompletedKeys(children', b) \subseteq CompletedKeys(cs, b)
    <3> SUFFICES ASSUME NEW j \in DOMAIN children'[b], children'[b][j].status = "Completed"
                 PROVE  j \in DOMAIN cs[b] /\ cs[b][j].status = "Completed"
      BY DEF CompletedKeys
    <3>1. j \in DOMAIN cs[b]
      BY <1>2, <1>6 DEF NoteStarts
    <3>2. \/ children'[b][j] = cs[b][j]
          \/ children'[b][j].status = "Running"
      BY <1>2, <1>6, <3>1 DEF NoteStarts
    <3> QED
      BY <3>1, <3>2
  <2> QED
    BY <2>1 DEF Runnable
<1>8. at[k] \in Ready(cs, q) \ Taken(cs, q, count)
  BY <1>5, <1>7 DEF Ready, D, K
<1> QED
  BY <1>1, <1>2, <1>8, TakenFill DEF K

\* A subtask whose dependencies have completed waits in the queue only while as many
\* agents are in flight as the limit allows: no Done is handled without the loop that
\* starts tasks, as long as the count is that of the agents.  (Once an ordinary sub-agent
\* has lowered it, the Done of an agent can find it at zero and start nothing.)
ReadyOnlyAtLimit == stolen = 0 =>
  \A t \in Queued : Runnable(children, t) => Cardinality(Live) = MaxConcurrent

THEOREM ReadyWaitsForRoom == Spec => []ReadyOnlyAtLimit
<1> DEFINE Filled == stolen = 0 => Full(children, queue, running)
<1>1. Init => Filled
  BY DEF Init, Full
<1>2. IInv /\ Covers /\ Filled /\ [Next]_vars => Filled'
  <2> SUFFICES ASSUME IInv, Covers, Filled, [Next]_vars, stolen' = 0
               PROVE  Full(children', queue', running')
    OBVIOUS
  <2>0. /\ running \in Nat /\ stolen \in Nat /\ running <= MaxConcurrent
        /\ stolen = 0 => Full(children, queue, running)
        /\ agent \in [Agents -> AgentStates] /\ queue \in Seq(Tasks)
        /\ \A b \in Batches : \A j \in DOMAIN children[b] : children[b][j] \in ChildType
    BY DEF IInv, TypeOK, Covers, CountCovers
  <2>a. ASSUME UNCHANGED <<children, queue, running, stolen>>
        PROVE  Full(children', queue', running')
    BY <2>0, <2>a DEF Full
  <2> HIDE DEF Filled
  <2>1. ASSUME NEW b \in Batches, HandleSpawnParallel(b)
        PROVE  Full(children', queue', running')
    <3>1. CASE provider
      <4> DEFINE cs == [children EXCEPT ![b] = NewChildren(b)]
                 q == queue \o NewEntries(b)
      <4>1. SpawnReady(cs, q, running, agent) /\ Consistent(cs, q, agent, Fed \union {b})
        BY <2>1, <3>1, RegisterStep
      <4> HIDE DEF cs, q
      <4> QED
        BY <2>0, <4>1, SpawnsFill
    <3>2. CASE ~ provider
      <4>1. \A k \in DOMAIN queue : FALSE
        BY <3>2 DEF Fed, IInv, Consistent, Queueing
      <4>2. queue' = queue
        BY <2>1, <3>2, RegisterStep
      <4> QED
        BY <4>1, <4>2 DEF Full
    <3> QED
      BY <3>1, <3>2
  <2>2. ASSUME NEW a \in Agents, HandleDone(a) PROVE Full(children', queue', running')
    <3> DEFINE ags == [agent EXCEPT ![a] = "handled"]
               cs == Updated(a)
    <3>1. /\ Consistent(cs, queue, ags, Fed)
          /\ IF running > 0 THEN SpawnReady(cs, queue, running - 1, ags)
             ELSE children' = cs /\ UNCHANGED <<queue, running>>
          /\ stolen' = IF running > 0 /\ a \in Ordinary THEN stolen + 1 ELSE stolen
      BY <2>2, DoneStep
    <3>2. CASE running > 0
      <4>1. running - 1 \in Nat /\ running - 1 <= MaxConcurrent
        BY <2>0, <3>2, BatchesAssumption
      <4> HIDE DEF ags, cs
      <4> QED
        BY <3>1, <3>2, <4>1, SpawnsFill
    <3>3. CASE ~ (running > 0)
      <4>1. stolen = 0 /\ running = 0
        BY <2>0, <3>1, <3>3
      <4>2. Live = {}
        <5>1. IsFiniteSet(Live) /\ Cardinality(Live) \in Nat /\ Cardinality(Live) <= running + stolen
          BY FS_CardinalityType DEF Covers, CountCovers
        <5>2. Cardinality(Live) = 0
          BY <4>1, <5>1
        <5> QED
          BY <5>1, <5>2, FS_EmptySet
      <4>3. a \notin Tasks
        BY <2>2, <4>2 DEF HandleDone, Live
      <4>4. ASSUME NEW b \in Batches, NEW j \in DOMAIN children[b] PROVE cs[b][j] = children[b][j]
        <5>1. children[b][j].agent # a
          BY <2>0, <4>3, BatchesAssumption DEF ChildType, Agents
        <5> QED
          BY <5>1 DEF Updated
      <4>5. \A b \in Batches : DOMAIN cs[b] = DOMAIN children[b]
        BY DEF Updated
      <4>6. \A k \in DOMAIN queue : Runnable(cs, queue[k]) => Runnable(children, queue[k])
        <5> SUFFICES ASSUME NEW k \in DOMAIN queue, Runnable(cs, queue[k])
                     PROVE  Runnable(children, queue[k])
          OBVIOUS
        <5>1. queue[k][1] \in Batches
          BY <2>0, TaskIs
        <5> HIDE DEF cs
        <5>2. CompletedKeys(cs, queue[k][1]) = CompletedKeys(children, queue[k][1])
          BY <4>4, <4>5, <5>1 DEF CompletedKeys
        <5> QED
          BY <5>2 DEF Runnable
      <4> QED
        BY <2>0, <3>1, <3>3, <4>1, <4>6 DEF Full
    <3> QED
      BY <3>2, <3>3
  <2>3. ASSUME NEW a \in Agents, Finish(a) \/ Fail(a) PROVE Full(children', queue', running')
    BY <2>a, <2>3 DEF Finish, Fail
  <2>4. ASSUME NEW a \in Ordinary, SpawnOrdinary(a) PROVE Full(children', queue', running')
    BY <2>a, <2>4 DEF SpawnOrdinary
  <2>5. ASSUME NEW b \in Batches, Call(b) PROVE Full(children', queue', running')
    BY <2>a, <2>5 DEF Call
  <2>6. CASE UNCHANGED vars
    BY <2>a, <2>6 DEF vars
  <2> QED
    BY <2>1, <2>2, <2>3, <2>4, <2>5, <2>6 DEF Next, Handle
<1>3. Covers /\ Filled /\ IInv => ReadyOnlyAtLimit
  <2> SUFFICES ASSUME Covers, Filled, IInv, stolen = 0,
                      NEW k \in DOMAIN queue, Runnable(children, queue[k])
               PROVE  Cardinality(Live) = MaxConcurrent
    BY DEF ReadyOnlyAtLimit, Queued
  <2>1. running = MaxConcurrent
    BY DEF Full
  <2>2. /\ Cardinality(Live) \in Nat /\ running \in Nat
        /\ running <= Cardinality(Live) /\ Cardinality(Live) <= running + 0
    BY FS_CardinalityType DEF Covers, CountCovers, IInv, TypeOK
  <2> QED
    BY <2>1, <2>2
<1> HIDE DEF Filled
<1> QED
  BY <1>1, <1>2, <1>3, Inductive, LiveCovered, PTL DEF Spec

\* A subtask of a queued batch is never lost: it is in the queue, at one place, until its
\* agent starts, and from then on its agent is noted at one child, of its key.
NothingIsLost == \A b \in Fed : \A i \in DOMAIN Subtasks[b] :
  IF agent[<<b, i>>] = "none"
  THEN \E k \in DOMAIN queue : \A m \in DOMAIN queue : queue[m] = <<b, i>> <=> m = k
  ELSE /\ <<b, i>> \notin Queued
       /\ \E j \in DOMAIN children[b] : /\ Key(b, j) = Key(b, i)
            /\ \A m \in DOMAIN children[b] : children[b][m].agent = <<b, i>> <=> m = j

THEOREM EverySubtaskPlaced == Spec => []NothingIsLost
<1>1. IInv => NothingIsLost
  <2> SUFFICES ASSUME IInv, NEW b \in Fed, NEW i \in DOMAIN Subtasks[b]
               PROVE  IF agent[<<b, i>>] = "none"
                      THEN \E k \in DOMAIN queue : \A m \in DOMAIN queue :
                             queue[m] = <<b, i>> <=> m = k
                      ELSE /\ <<b, i>> \notin Queued
                           /\ \E j \in DOMAIN children[b] : /\ Key(b, j) = Key(b, i)
                                /\ \A m \in DOMAIN children[b] :
                                     children[b][m].agent = <<b, i>> <=> m = j
    BY DEF NothingIsLost
  <2>0. Queueing(queue, agent, Fed) /\ Noting(children, agent) /\ b \in Batches
    BY DEF IInv, Consistent, Fed
  <2> DEFINE t == <<b, i>>
  <2>1. t \in Tasks /\ t[1] = b /\ t # None
    BY <2>0, TaskIs, BatchesAssumption
  <2>2. CASE agent[t] = "none"
    <3>1. PICK k \in DOMAIN queue : queue[k] = t
      <4> HIDE DEF t
      <4> QED
        BY <2>0, <2>1, <2>2 DEF Queueing
    <3>2. \A m \in DOMAIN queue : queue[m] = t <=> m = k
      BY <2>0, <3>1 DEF Queueing
    <3> QED
      BY <2>2, <3>2
  <2>3. CASE agent[t] # "none"
    <3>1. t \notin Queued
      BY <2>0, <2>3 DEF Queued, Queueing
    <3>2. PICK j \in DOMAIN children[b] : Notes(children, agent, b, j, i)
      BY <2>0, <2>3 DEF Noting
    <3>3. children[b][j].agent = t /\ Key(b, j) = Key(b, i)
      BY <3>2 DEF Notes
    <3>4. \A m \in DOMAIN children[b] : children[b][m].agent = t <=> m = j
      <4> HIDE DEF t
      <4> QED
        BY <2>0, <2>1, <3>3 DEF Noting
    <3> QED
      BY <2>3, <3>1, <3>3, <3>4
  <2> QED
    BY <2>2, <2>3
<1> QED
  BY <1>1, Inductive, PTL DEF Spec

================================================================================
