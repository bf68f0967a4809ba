-------------------------- MODULE TaskQueueProofs --------------------------
(***************************************************************************)
(* The linked lists of task_queue.c implement sequences of tasks, for any  *)
(* number of nodes, queues and tasks.                                      *)
(*                                                                         *)
(* The invariant says that there is a sequence of nodes for each list such *)
(* that the links are those of the sequences, and that every node is free  *)
(* once or in one of them once (Linked).  Each operation has its new       *)
(* sequences: one node longer at the end, or one node shorter.  The walk   *)
(* along next finds exactly these sequences (ChainIs), because the first   *)
(* place where it left them would have no predecessor.                     *)
(***************************************************************************)
EXTENDS TaskQueue, FiniteSetTheorems, SequenceTheorems, TLAPS

-----------------------------------------------------------------------------
(* The inductive invariant.                                                *)

Typed ==
  /\ task \in [NodeIds -> TaskPtr]
  /\ prev \in [NodeIds -> NodePtr] /\ next \in [NodeIds -> NodePtr]
  /\ available_indices \in Seq(NodeIds)
  /\ head \in [Lists -> NodePtr] /\ tail \in [Lists -> NodePtr]
  /\ size \in [Lists -> Nat]
  /\ job_node \in [Tasks -> NodePtr]

\* Node n is in the free stack; in a list of f.
Free(n) == \E i \in 1 .. Len(available_indices) : available_indices[i] = n
Used(f, n) == \E l \in Lists : \E i \in 1 .. size[l] : f[l][i] = n

\* head and tail are the ends of f[l].
Ends(f, l) ==
  /\ size[l] = 0 => head[l] = NULL /\ tail[l] = NULL
  /\ size[l] > 0 => head[l] = f[l][1] /\ tail[l] = f[l][size[l]]

\* The links of the i-th node of f[l], which has a task.
Links(f, l, i) ==
  /\ next[f[l][i]] = IF i = size[l] THEN NULL ELSE f[l][i + 1]
  /\ prev[f[l][i]] = IF i = 1 THEN NULL ELSE f[l][i - 1]
  /\ task[f[l][i]] # {}

Jobs(f) ==
  /\ \A j \in Plain, t \in Tasks : job_node[t] # NULL =>
       \E i \in 1 .. size[<<j, 0>>] : f[<<j, 0>>][i] = job_node[t]
  /\ \A t, u \in Tasks : job_node[t] # NULL /\ job_node[t] = job_node[u] => t = u

Once(f) ==
  /\ \A l, m \in Lists : \A i \in 1 .. size[l], j \in 1 .. size[m] :
       f[l][i] = f[m][j] => l = m /\ i = j
  /\ \A i, j \in 1 .. Len(available_indices) :
       available_indices[i] = available_indices[j] => i = j
  /\ \A n \in NodeIds : Free(n) <=> ~Used(f, n)

Linked(f) ==
  /\ f \in [Lists -> Seq(NodeIds)]
  /\ \A l \in Lists : Len(f[l]) = size[l] /\ Ends(f, l)
  /\ \A l \in Lists : \A i \in 1 .. size[l] : Links(f, l, i)
  /\ Once(f) /\ Jobs(f)

ListsInvariant == Typed /\ \E f : Linked(f)

-----------------------------------------------------------------------------
(* Sequences.                                                              *)

LEMMA AppendFacts ==
  ASSUME NEW S, NEW s \in Seq(S), NEW x \in S
  PROVE  /\ Append(s, x) \in Seq(S) /\ Len(Append(s, x)) = Len(s) + 1 /\ Len(s) \in Nat
         /\ \A i \in 1 .. Len(s) + 1 : Append(s, x)[i] = IF i = Len(s) + 1 THEN x ELSE s[i]
OBVIOUS

LEMMA FrontFacts ==
  ASSUME NEW S, NEW s \in Seq(S), s # <<>>
  PROVE  /\ Front(s) \in Seq(S) /\ Len(Front(s)) = Len(s) - 1 /\ Last(s) = s[Len(s)] /\ Last(s) \in S
         /\ Len(s) \in Nat \ {0}
         /\ \A i \in 1 .. Len(s) - 1 : Front(s)[i] = s[i]
<1>1. Len(s) \in Nat \ {0} /\ s[Len(s)] \in S /\ Last(s) = s[Len(s)]
  BY DEF Last
<1>2. /\ SubSeq(s, 1, Len(s) - 1) \in Seq(S) /\ Len(SubSeq(s, 1, Len(s) - 1)) = Len(s) - 1
      /\ \A i \in 1 .. Len(s) - 1 : SubSeq(s, 1, Len(s) - 1)[i] = s[i]
  <2>0. Len(s) - 1 \in Nat /\ Len(s) - 1 <= Len(s)
    BY <1>1
  <2>1. PICK n \in Nat : n = Len(s) - 1 /\ n <= Len(s)
    BY <2>0, Zenon
  <2>2. SubSeq(s, 1, n) \in Seq(S) /\ Len(SubSeq(s, 1, n)) = n
    BY <1>1, <2>1
  <2>3. \A i \in 1 .. n : SubSeq(s, 1, n)[i] = s[i]
    BY <1>1, <2>1
  <2>4. QED
    BY <2>1, <2>2, <2>3
<1>3. QED
  BY <1>1, <1>2 DEF Front

LEMMA RemoveAtFacts ==
  ASSUME NEW S, NEW s \in Seq(S), NEW k \in 1 .. Len(s)
  PROVE  /\ RemoveAt(s, k) \in Seq(S) /\ Len(RemoveAt(s, k)) = Len(s) - 1
         /\ \A i \in 1 .. Len(s) - 1 : RemoveAt(s, k)[i] = IF i < k THEN s[i] ELSE s[i + 1]
<1>1. Len(s) \in Nat
  OBVIOUS
<1>2. PICK a, b : a = SubSeq(s, 1, k - 1) /\ b = SubSeq(s, k + 1, Len(s))
  OBVIOUS
<1>3. a \in Seq(S) /\ Len(a) = k - 1 /\ \A i \in 1 .. k - 1 : a[i] = s[i]
  BY <1>1, <1>2
<1>4. b \in Seq(S) /\ Len(b) = Len(s) - k /\ \A i \in 1 .. Len(s) - k : b[i] = s[i + k]
  BY <1>1, <1>2
<1>5. /\ a \o b \in Seq(S) /\ Len(a \o b) = Len(a) + Len(b)
      /\ \A i \in 1 .. Len(a) + Len(b) : (a \o b)[i] = IF i <= Len(a) THEN a[i] ELSE b[i - Len(a)]
  BY <1>3, <1>4, ConcatProperties
<1>6. Len(a \o b) = Len(s) - 1
  BY <1>1, <1>3, <1>4, <1>5
<1>7. ASSUME NEW i \in 1 .. Len(s) - 1
      PROVE  (a \o b)[i] = IF i < k THEN s[i] ELSE s[i + 1]
  <2>1. CASE i < k
    BY <1>1, <1>3, <1>4, <1>5, <2>1
  <2>2. CASE i >= k
    <3>1. (a \o b)[i] = b[i - (k - 1)] /\ i - (k - 1) \in 1 .. Len(s) - k
      BY <1>1, <1>3, <1>4, <1>5, <2>2
    <3>2. PICK j \in 1 .. Len(s) - k : j = i - (k - 1) /\ j + k = i + 1
      BY <1>1, <3>1
    <3>3. QED
      BY <1>4, <2>2, <3>1, <3>2
  <2>3. i \in Int /\ k \in Int
    BY <1>1
  <2>4. i < k \/ i >= k
    BY <2>3
  <2>5. QED
    BY <2>1, <2>2, <2>4
<1>8. QED
  BY <1>2, <1>5, <1>6, <1>7 DEF RemoveAt

\* A set of numbers that is not empty has a least element.
LEMMA Least ==
  ASSUME NEW T \in SUBSET Nat, T # {}
  PROVE  \E x \in T : \A y \in T : x <= y
<1> DEFINE R == OpToRel(<, Nat)
<1>1. IsWellFoundedOn(R, Nat)
  BY NatLessThanWellFounded
<1>2. \A a, b \in Nat : <<a, b>> \in R <=> a < b
  BY DEF OpToRel
<1> HIDE DEF R
<1>3. PICK x \in T : \A y \in T : ~(<<y, x>> \in R)
  BY <1>1, WFMin
<1>4. ASSUME NEW y \in T PROVE x <= y
  <2>1. x \in Nat /\ y \in Nat /\ ~(<<y, x>> \in R)
    BY <1>3
  <2>2. ~(y < x)
    BY <1>2, <2>1
  <2>3. QED
    BY <2>1, <2>2
<1>5. QED
  BY <1>4

\* An injective sequence of nodes is no longer than the set it is from.
LEMMA NoMoreThan ==
  ASSUME NEW S, IsFiniteSet(S), NEW n \in Nat, NEW s, \A i \in 1 .. n : s[i] \in S,
         \A i, j \in 1 .. n : s[i] = s[j] => i = j
  PROVE  n <= Cardinality(S)
<1> DEFINE g == [i \in 1 .. n |-> s[i]]
<1>1. g \in [1 .. n -> S] /\ \A i, j \in 1 .. n : g[i] = g[j] => i = j
  OBVIOUS
<1> HIDE DEF g
<1>2. IsFiniteSet(1 .. n) /\ Cardinality(1 .. n) = IF 1 > n THEN 0 ELSE n - 1 + 1
  BY FS_Interval
<1>3. Cardinality(1 .. n) = n /\ Cardinality(S) \in Nat
  BY <1>2, FS_CardinalityType
<1>4. ~(Cardinality(S) < Cardinality(1 .. n))
  BY <1>1, <1>2, FS_PigeonHole
<1>5. QED
  BY <1>3, <1>4

LEMMA NodeCount ==
  /\ IsFiniteSet(NodeIds) /\ Cardinality(NodeIds) = MAX_TASK_NUM /\ MAX_TASK_NUM \in Nat
  /\ \A n \in NodeIds : IsFiniteSet(NodeIds \ {n}) /\ Cardinality(NodeIds \ {n}) = MAX_TASK_NUM - 1
  /\ NULL \notin NodeIds
<1>1. MAX_TASK_NUM \in Nat \ {0}
  BY NodeAssumption
<1>2. IsFiniteSet(NodeIds) /\ Cardinality(NodeIds) = MAX_TASK_NUM
  <2>1. PICK b \in Int : b = MAX_TASK_NUM - 1 /\ b >= 0
    BY <1>1
  <2>2. IsFiniteSet(0 .. b) /\ Cardinality(0 .. b) = IF 0 > b THEN 0 ELSE b - 0 + 1
    BY FS_Interval
  <2>3. Cardinality(0 .. b) = MAX_TASK_NUM
    BY <1>1, <2>1, <2>2
  <2>4. QED
    BY <2>1, <2>2, <2>3 DEF NodeIds
<1>3. ASSUME NEW n \in NodeIds
      PROVE  IsFiniteSet(NodeIds \ {n}) /\ Cardinality(NodeIds \ {n}) = MAX_TASK_NUM - 1
  BY <1>2, FS_RemoveElement
<1>4. NULL \notin NodeIds
  BY <1>1 DEF NULL, NodeIds
<1>5. QED
  BY <1>1, <1>2, <1>3, <1>4

-----------------------------------------------------------------------------
(* What the walk along the links finds.                                    *)

\* s has n nodes, from h along nx; g satisfies the recursion of Chain.
Along(n, h, nx, s) ==
  /\ n > 0 => s[1] = h
  /\ \A i \in 1 .. n : s[i] # NULL
  /\ \A i \in 1 .. n : i # 1 => s[i] = nx[s[i - 1]]
Follows(n, h, nx, g) ==
  \A i \in 1 .. n : g[i] = IF i = 1 THEN h ELSE IF g[i - 1] = NULL THEN NULL ELSE nx[g[i - 1]]

\* There is one walk.
LEMMA OneWalk ==
  ASSUME NEW n \in Nat, NEW h, NEW nx, NEW s, NEW g, Along(n, h, nx, s), Follows(n, h, nx, g)
  PROVE  \A i \in 1 .. n : g[i] = s[i]
<1> DEFINE T == {i \in 1 .. n : g[i] # s[i]}
<1>1. T \in SUBSET Nat /\ T = {i \in 1 .. n : g[i] # s[i]}
  OBVIOUS
<1> HIDE DEF T
<1>2. SUFFICES ASSUME T # {} PROVE FALSE
  BY <1>1
<1>3. PICK x \in T : \A y \in T : x <= y
  BY <1>1, <1>2, Least
<1>4. x \in 1 .. n /\ g[x] # s[x]
  BY <1>1, <1>3
<1>5. g[x] = IF x = 1 THEN h ELSE IF g[x - 1] = NULL THEN NULL ELSE nx[g[x - 1]]
  BY <1>4 DEF Follows
<1>6. x # 1
  BY <1>4, <1>5 DEF Along
<1>7. x - 1 \in 1 .. n /\ x - 1 < x
  BY <1>4, <1>6
<1>8. x - 1 \notin T
  BY <1>1, <1>3, <1>4, <1>7
<1>9. g[x - 1] = s[x - 1]
  BY <1>1, <1>7, <1>8
<1>10. g[x] = nx[s[x - 1]]
  BY <1>5, <1>6, <1>7, <1>9 DEF Along
<1>11. QED
  BY <1>4, <1>6, <1>10 DEF Along

LEMMA ChainIs ==
  ASSUME Typed, NEW f, Linked(f), NEW l \in Lists
  PROVE  Chain(l) = f[l]
<1>1. /\ f[l] \in Seq(NodeIds) /\ Len(f[l]) = size[l] /\ Ends(f, l) /\ size[l] \in Nat
      /\ \A i \in 1 .. size[l] : Links(f, l, i)
  BY DEF Linked, Typed
<1>2. PICK n \in Nat : n = size[l]
  BY <1>1
<1>3. PICK s \in Seq(NodeIds) : s = f[l]
  BY <1>1
<1>4. Len(s) = n /\ s = [i \in 1 .. n |-> s[i]] /\ \A i \in 1 .. n : s[i] \in NodeIds /\ s[i] # NULL
  BY <1>1, <1>2, <1>3, NodeCount
<1>5. n > 0 => s[1] = head[l]
  BY <1>1, <1>2, <1>3 DEF Ends
<1>6. \A i \in 1 .. n : i # 1 => s[i] = next[s[i - 1]]
  <2> SUFFICES ASSUME NEW i \in 1 .. n, i # 1 PROVE s[i] = next[s[i - 1]]
    OBVIOUS
  <2>1. PICK j \in 1 .. n : j = i - 1 /\ j # n /\ j + 1 = i
    <3>1. i - 1 \in 1 .. n /\ i - 1 # n /\ (i - 1) + 1 = i
      OBVIOUS
    <3>2. QED
      BY <3>1, Zenon
  <2>2. Links(f, l, j)
    BY <1>1, <1>2, <2>1
  <2>3. next[s[j]] = s[j + 1]
    BY <1>2, <1>3, <2>1, <2>2 DEF Links
  <2>4. QED
    BY <2>1, <2>3
<1>7. s = [i \in 1 .. n |-> IF i = 1 THEN head[l] ELSE IF s[i - 1] = NULL THEN NULL ELSE next[s[i - 1]]]
  <2>1. ASSUME NEW i \in 1 .. n
        PROVE  s[i] = IF i = 1 THEN head[l] ELSE IF s[i - 1] = NULL THEN NULL ELSE next[s[i - 1]]
    <3>1. CASE i = 1
      BY <1>5, <3>1
    <3>2. CASE i # 1
      <4>1. i - 1 \in 1 .. n
        BY <3>2
      <4>2. s[i - 1] # NULL /\ s[i] = next[s[i - 1]]
        BY <1>4, <1>6, <3>2, <4>1
      <4>3. QED
        BY <3>2, <4>2
    <3>3. QED
      BY <3>1, <3>2
  <2>2. QED
    BY <1>4, <2>1
<1> DEFINE g == CHOOSE w : w = [i \in 1 .. n |-> IF i = 1 THEN head[l] ELSE
                                IF w[i - 1] = NULL THEN NULL ELSE next[w[i - 1]]]
<1>8. g = [i \in 1 .. n |-> IF i = 1 THEN head[l] ELSE IF g[i - 1] = NULL THEN NULL ELSE next[g[i - 1]]]
  BY <1>7, Zenon
<1>9. Chain(l) = [i \in 1 .. n |-> g[i]]
  BY <1>2 DEF Chain
<1> HIDE DEF g
<1>10. \A i \in 1 .. n : g[i] = s[i]
  <2>1. Along(n, head[l], next, s)
    BY <1>4, <1>5, <1>6 DEF Along
  <2>2. Follows(n, head[l], next, g)
    BY <1>8, Zenon DEF Follows
  <2>3. PICK h, nx, w : h = head[l] /\ nx = next /\ w = g
    BY Zenon
  <2>4. Along(n, h, nx, s) /\ Follows(n, h, nx, w)
    BY <2>1, <2>2, <2>3, Zenon
  <2>5. \A i \in 1 .. n : w[i] = s[i]
    BY <2>4, OneWalk
  <2>6. QED
    BY <2>3, <2>5, Zenon
<1>11. QED
  BY <1>3, <1>4, <1>9, <1>10

-----------------------------------------------------------------------------
(* The operations on lists.                                                *)

LEMMA NodeOf ==
  ASSUME Typed, NEW f, Linked(f), NEW l \in Lists
  PROVE  /\ f[l] \in Seq(NodeIds) /\ Len(f[l]) = size[l] /\ size[l] \in Nat
         /\ \A i \in 1 .. size[l] : f[l][i] \in NodeIds /\ f[l][i] # NULL
<1>1. f[l] \in Seq(NodeIds) /\ Len(f[l]) = size[l] /\ size[l] \in Nat
  BY DEF Linked, Typed
<1>2. QED
  BY <1>1, NodeCount

\* A pool that has given out a node can take one back.
LEMMA RoomToFree ==
  ASSUME Typed, NEW f, Linked(f), NEW l \in Lists, NEW k \in 1 .. size[l]
  PROVE  Len(available_indices) < MAX_TASK_NUM
<1>1. PICK n \in NodeIds : n = f[l][k]
  BY NodeOf
<1>2. Used(f, n)
  BY <1>1 DEF Used
<1>3. ~Free(n)
  BY <1>2 DEF Linked, Once
<1>4. PICK s \in Seq(NodeIds) : s = available_indices
  BY DEF Typed
<1>5. \A i \in 1 .. Len(s) : s[i] \in NodeIds \ {n}
  BY <1>3, <1>4 DEF Free
<1>6. \A i, j \in 1 .. Len(s) : s[i] = s[j] => i = j
  BY <1>4 DEF Linked, Once
<1>7. Len(s) <= Cardinality(NodeIds \ {n})
  <2>1. PICK c, T : c \in Nat /\ c = Len(s) /\ T = NodeIds \ {n}
    <3>1. Len(s) \in Nat
      OBVIOUS
    <3>2. QED
      BY <3>1, Zenon
  <2>2. IsFiniteSet(T)
    BY <2>1, NodeCount
  <2>3. c <= Cardinality(T)
    BY <1>5, <1>6, <2>1, <2>2, NoMoreThan
  <2>4. QED
    BY <2>1, <2>3
<1>8. Cardinality(NodeIds \ {n}) = MAX_TASK_NUM - 1 /\ MAX_TASK_NUM \in Nat
  BY <1>1, NodeCount, Zenon
<1>9. QED
  BY <1>4, <1>7, <1>8, LenProperties

\* What a push of t at the end of l does, n being the node it gets.
NodeTaken(f, n) ==
  /\ n \in NodeIds /\ n # NULL /\ Free(n)
  /\ \A m \in Lists : \A i \in 1 .. size[m] : f[m][i] # n
  /\ Len(available_indices) \in Nat \ {0} /\ available_indices[Len(available_indices)] = n
  /\ available_indices' \in Seq(NodeIds)
  /\ Len(available_indices') = Len(available_indices) - 1
  /\ \A i \in 1 .. Len(available_indices) - 1 : available_indices'[i] = available_indices[i]
NodeLinked(l, t, n) ==
  /\ \A x \in NodeIds : task'[x] = IF x = n THEN {t} ELSE task[x]
  /\ \A x \in NodeIds : prev'[x] = IF x = n THEN tail[l] ELSE prev[x]
  /\ \A x \in NodeIds : next'[x] = IF x = n THEN NULL
                                   ELSE IF x = tail[l] /\ size[l] # 0 THEN n ELSE next[x]
  /\ \A m \in Lists : size'[m] = IF m = l THEN size[l] + 1 ELSE size[m]
  /\ \A m \in Lists : tail'[m] = IF m = l THEN n ELSE tail[m]
  /\ \A m \in Lists : head'[m] = IF m = l /\ size[l] = 0 THEN n ELSE head[m]
ListsTyped ==
  /\ task \in [NodeIds -> TaskPtr] /\ prev \in [NodeIds -> NodePtr]
  /\ next \in [NodeIds -> NodePtr] /\ head \in [Lists -> NodePtr]
  /\ tail \in [Lists -> NodePtr] /\ size \in [Lists -> Nat]

LEMMA PushFacts ==
  ASSUME Typed, NEW f, Linked(f), NEW l \in Lists, NEW t \in Tasks, available_indices # <<>>,
         task_list_push_back(l, t), NEW n, n = Last(available_indices)
  PROVE  NodeTaken(f, n) /\ NodeLinked(l, t, n) /\ ListsTyped'
<1>1. /\ task \in [NodeIds -> TaskPtr] /\ prev \in [NodeIds -> NodePtr] /\ next \in [NodeIds -> NodePtr]
      /\ available_indices \in Seq(NodeIds) /\ head \in [Lists -> NodePtr]
      /\ tail \in [Lists -> NodePtr] /\ size \in [Lists -> Nat]
  BY DEF Typed
<1>2. /\ available_indices' = Front(available_indices)
      /\ task' = [task EXCEPT ![n] = {t}] /\ prev' = [prev EXCEPT ![n] = tail[l]]
      /\ next' = [m \in NodeIds |-> IF m = n THEN NULL
                                    ELSE IF m = tail[l] /\ size[l] # 0 THEN n ELSE next[m]]
      /\ head' = (IF size[l] = 0 THEN [head EXCEPT ![l] = n] ELSE head)
      /\ tail' = [tail EXCEPT ![l] = n] /\ size' = [size EXCEPT ![l] = @ + 1]
  BY DEF task_list_push_back, task_list_empty
<1>3. /\ Len(available_indices) \in Nat \ {0} /\ n = available_indices[Len(available_indices)]
      /\ n \in NodeIds /\ available_indices' \in Seq(NodeIds)
      /\ Len(available_indices') = Len(available_indices) - 1
      /\ \A i \in 1 .. Len(available_indices) - 1 : available_indices'[i] = available_indices[i]
  BY <1>1, <1>2, FrontFacts
<1>4. Free(n)
  BY <1>3 DEF Free
<1>5. ~Used(f, n)
  BY <1>3, <1>4 DEF Linked, Once
<1>6. \A m \in Lists : \A i \in 1 .. size[m] : f[m][i] # n
  BY <1>5 DEF Used
<1>7. n # NULL /\ n \in NodePtr /\ NULL \in NodePtr /\ tail[l] \in NodePtr /\ {t} \in TaskPtr
  BY <1>1, <1>3, NodeCount DEF NodePtr, TaskPtr
<1>8. /\ \A x \in NodeIds : task'[x] = IF x = n THEN {t} ELSE task[x]
      /\ task' \in [NodeIds -> TaskPtr]
  BY <1>1, <1>2, <1>3, <1>7
<1>9. /\ \A x \in NodeIds : prev'[x] = IF x = n THEN tail[l] ELSE prev[x]
      /\ prev' \in [NodeIds -> NodePtr]
  BY <1>1, <1>2, <1>3, <1>7
<1>10. /\ \A x \in NodeIds : next'[x] = IF x = n THEN NULL
                                        ELSE IF x = tail[l] /\ size[l] # 0 THEN n ELSE next[x]
       /\ next' \in [NodeIds -> NodePtr]
  BY <1>1, <1>2, <1>3, <1>7
<1>11. /\ \A m \in Lists : size'[m] = IF m = l THEN size[l] + 1 ELSE size[m]
       /\ size' \in [Lists -> Nat]
  BY <1>1, <1>2
<1>12. /\ \A m \in Lists : tail'[m] = IF m = l THEN n ELSE tail[m]
       /\ tail' \in [Lists -> NodePtr]
  BY <1>1, <1>2, <1>7
<1>13. /\ \A m \in Lists : head'[m] = IF m = l /\ size[l] = 0 THEN n ELSE head[m]
       /\ head' \in [Lists -> NodePtr]
  BY <1>1, <1>2, <1>7
<1>14. NodeTaken(f, n)
  BY <1>3, <1>4, <1>6, <1>7 DEF NodeTaken
<1>15. NodeLinked(l, t, n)
  BY <1>8, <1>9, <1>10, <1>11, <1>12, <1>13 DEF NodeLinked
<1>16. ListsTyped'
  BY <1>8, <1>9, <1>10, <1>11, <1>12, <1>13 DEF ListsTyped
<1>17. QED
  BY <1>14, <1>15, <1>16

\* Linked, but for the jobs; the nodes of f other than n are where they were,
\* or elsewhere in the same list.
Arranged(f) ==
  /\ f \in [Lists -> Seq(NodeIds)]
  /\ \A l \in Lists : Len(f[l]) = size[l] /\ Ends(f, l)
  /\ \A l \in Lists : \A i \in 1 .. size[l] : Links(f, l, i)
  /\ Once(f)
Kept(f, g) == \A m \in Lists : \A i \in 1 .. size[m] : g[m][i] = f[m][i] /\ i \in 1 .. size'[m]
AtEnd(n, f, l) == size[l] \in 1 .. size[l] /\ f[l][size[l]] = n
KeptBut(n, f, g) ==
  \A m \in Lists : \A i \in 1 .. size[m] :
    f[m][i] # n => \E j \in 1 .. size'[m] : g[m][j] = f[m][i]

\* A push makes the sequence of its list one node longer, at the end.
LEMMA PushLinked ==
  ASSUME Typed, NEW f, Linked(f), NEW l \in Lists, NEW t \in Tasks, available_indices # <<>>,
         task_list_push_back(l, t), NEW n, n = Last(available_indices),
         NEW g, g = [f EXCEPT ![l] = Append(f[l], n)]
  PROVE  Arranged(g)' /\ Kept(f, g) /\ AtEnd(n, g, l)'
<1>0. PICK L \in Nat : L = size[l]
  BY NodeOf
<1>1. /\ n \in NodeIds /\ n # NULL /\ Free(n) /\ \A m \in Lists : \A i \in 1 .. size[m] : f[m][i] # n
      /\ Len(available_indices) \in Nat \ {0} /\ available_indices[Len(available_indices)] = n
      /\ Len(available_indices') = Len(available_indices) - 1
      /\ \A i \in 1 .. Len(available_indices) - 1 : available_indices'[i] = available_indices[i]
  BY PushFacts DEF NodeTaken
<1>2. /\ \A x \in NodeIds : task'[x] = IF x = n THEN {t} ELSE task[x]
      /\ \A x \in NodeIds : prev'[x] = IF x = n THEN tail[l] ELSE prev[x]
      /\ \A x \in NodeIds : next'[x] = IF x = n THEN NULL
                                       ELSE IF x = tail[l] /\ size[l] # 0 THEN n ELSE next[x]
      /\ \A m \in Lists : size'[m] = IF m = l THEN L + 1 ELSE size[m]
      /\ \A m \in Lists : tail'[m] = IF m = l THEN n ELSE tail[m]
      /\ \A m \in Lists : head'[m] = IF m = l /\ size[l] = 0 THEN n ELSE head[m]
  <2>1. NodeLinked(l, t, n)
    BY PushFacts
  <2>2. QED
    BY <1>0, <2>1 DEF NodeLinked
<1>3. /\ f \in [Lists -> Seq(NodeIds)] /\ f[l] \in Seq(NodeIds) /\ Len(f[l]) = L
      /\ \A m \in Lists : size[m] \in Nat /\ Len(f[m]) = size[m] /\ Ends(f, m)
      /\ \A m \in Lists : \A i \in 1 .. size[m] : Links(f, m, i) /\ f[m][i] \in NodeIds
      /\ Once(f)
  BY <1>0, NodeOf DEF Linked
<1>4. /\ Append(f[l], n) \in Seq(NodeIds) /\ Len(Append(f[l], n)) = L + 1
      /\ \A i \in 1 .. L + 1 : Append(f[l], n)[i] = IF i = L + 1 THEN n ELSE f[l][i]
  BY <1>1, <1>3, AppendFacts
<1>5. /\ g \in [Lists -> Seq(NodeIds)] /\ \A m \in Lists : m # l => g[m] = f[m]
      /\ Len(g[l]) = L + 1 /\ \A i \in 1 .. L + 1 : g[l][i] = IF i = L + 1 THEN n ELSE f[l][i]
  BY <1>3, <1>4
<1>6. \A m \in Lists : \A i \in 1 .. size[m] :
        i \in 1 .. size'[m] /\ g[m][i] = f[m][i] /\ ~(m = l /\ i = L + 1)
  <2> SUFFICES ASSUME NEW m \in Lists, NEW i \in 1 .. size[m]
               PROVE  i \in 1 .. size'[m] /\ g[m][i] = f[m][i] /\ ~(m = l /\ i = L + 1)
    OBVIOUS
  <2>1. CASE m = l
    BY <1>0, <1>2, <1>5, <2>1
  <2>2. CASE m # l
    BY <1>2, <1>5, <2>2
  <2>3. QED
    BY <2>1, <2>2
<1>7. \A m \in Lists : \A i \in 1 .. size'[m] : i \in 1 .. size[m] \/ (m = l /\ i = L + 1)
  <2> SUFFICES ASSUME NEW m \in Lists, NEW i \in 1 .. size'[m]
               PROVE  i \in 1 .. size[m] \/ (m = l /\ i = L + 1)
    OBVIOUS
  <2>1. CASE m = l
    BY <1>0, <1>2, <2>1
  <2>2. CASE m # l
    BY <1>2, <2>2
  <2>3. QED
    BY <2>1, <2>2
<1>8. g[l][L + 1] = n /\ L + 1 \in 1 .. L + 1 /\ size'[l] = L + 1 /\ L + 1 # 0
  BY <1>2, <1>5
<1>9. ASSUME NEW m \in Lists PROVE Len(g[m]) = size'[m] /\ Ends(g, m)'
  <2>1. CASE m = l
    <3>1. tail'[l] = g[l][size'[l]] /\ Len(g[l]) = size'[l]
      BY <1>2, <1>5, <1>8
    <3>2. head'[l] = g[l][1]
      <4>1. CASE L = 0
        BY <1>0, <1>2, <1>8, <4>1
      <4>2. CASE L # 0
        <5>1. head[l] = f[l][1] /\ 1 \in 1 .. size[l]
          BY <1>0, <1>3, <4>2 DEF Ends
        <5>2. QED
          BY <1>0, <1>2, <1>6, <4>2, <5>1
      <4>3. QED
        BY <4>1, <4>2
    <3>3. QED
      BY <1>8, <2>1, <3>1, <3>2 DEF Ends
  <2>2. CASE m # l
    BY <1>2, <1>3, <1>5, <2>2 DEF Ends
  <2>3. QED
    BY <2>1, <2>2
<1>10. ASSUME NEW m \in Lists, NEW i \in 1 .. size'[m] PROVE Links(g, m, i)'
  <2>1. CASE m = l /\ i = L + 1
    <3>1. next'[n] = NULL /\ task'[n] = {t} /\ prev'[n] = tail[l]
      BY <1>1, <1>2
    <3>2. tail[l] = IF i = 1 THEN NULL ELSE g[l][i - 1]
      <4>1. CASE L = 0
        BY <1>0, <1>3, <2>1, <4>1 DEF Ends
      <4>2. CASE L # 0
        <5>1. tail[l] = f[l][L] /\ L \in 1 .. size[l]
          BY <1>0, <1>3, <4>2 DEF Ends
        <5>2. i # 1 /\ i - 1 = L
          BY <2>1, <4>2
        <5>3. QED
          BY <1>6, <5>1, <5>2
      <4>3. QED
        BY <4>1, <4>2
    <3>3. {t} # {}
      OBVIOUS
    <3>4. g[m][i] = n /\ i = size'[m]
      BY <1>8, <2>1
    <3>5. prev'[g[m][i]] = IF i = 1 THEN NULL ELSE g[m][i - 1]
      BY <2>1, <3>1, <3>2, <3>4
    <3>6. next'[g[m][i]] = NULL /\ task'[g[m][i]] # {}
      BY <3>1, <3>3, <3>4
    <3>7. next'[g[m][i]] = IF i = size'[m] THEN NULL ELSE g[m][i + 1]
      BY <3>4, <3>6
    <3>8. QED
      BY <3>5, <3>6, <3>7, Zenon DEF Links
  <2>2. CASE i \in 1 .. size[m] /\ ~(m = l /\ i = L + 1)
    <3>0. i \in 1 .. size[m]
      BY <2>2
    <3>1. PICK x \in NodeIds : x = f[m][i] /\ x = g[m][i] /\ x # n /\ Links(f, m, i)
      <4>1. f[m][i] \in NodeIds /\ f[m][i] = g[m][i] /\ f[m][i] # n /\ Links(f, m, i)
        BY <1>1, <1>3, <1>6, <3>0
      <4>2. QED
        BY <4>1, Zenon
    <3>2. task'[x] # {} /\ prev'[x] = IF i = 1 THEN NULL ELSE f[m][i - 1]
      <4>1. task'[x] = task[x] /\ prev'[x] = prev[x]
        BY <1>2, <3>1
      <4>2. QED
        BY <3>1, <4>1 DEF Links
    <3>3. i # 1 => f[m][i - 1] = g[m][i - 1]
      <4>1. i # 1 => i - 1 \in 1 .. size[m]
        BY <1>3, <3>0
      <4>2. QED
        BY <1>6, <4>1
    <3>4. next'[x] = IF i = size'[m] THEN NULL ELSE g[m][i + 1]
      <4>1. CASE m = l /\ i = L
        <5>1. x = tail[l] /\ size[l] # 0
          BY <1>0, <1>3, <3>0, <3>1, <4>1 DEF Ends
        <5>2. next'[x] = n
          BY <1>2, <3>1, <5>1
        <5>3. i # size'[m] /\ g[m][i + 1] = n
          <6>1. size'[m] = L + 1 /\ i + 1 = L + 1 /\ L # L + 1
            BY <1>8, <4>1
          <6>2. QED
            BY <1>8, <4>1, <6>1, Zenon
        <5>4. QED
          BY <5>2, <5>3
      <4>2. CASE ~(m = l /\ i = L)
        <5>1. ~(x = tail[l] /\ size[l] # 0)
          <6> SUFFICES ASSUME x = tail[l], size[l] # 0 PROVE FALSE
            OBVIOUS
          <6>1. L \in 1 .. size[l] /\ x = f[l][L]
            BY <1>0, <1>3 DEF Ends
          <6>2. m = l /\ i = L
            BY <1>3, <3>0, <3>1, <6>1 DEF Once
          <6>3. QED
            BY <4>2, <6>2
        <5>2. next'[x] = next[x]
          BY <1>2, <3>1, <5>1
        <5>3. next[x] = IF i = size[m] THEN NULL ELSE f[m][i + 1]
          BY <3>1 DEF Links
        <5>4. (i = size[m]) <=> (i = size'[m])
          <6>1. CASE m = l
            BY <1>0, <1>2, <2>2, <3>0, <4>2, <6>1
          <6>2. CASE m # l
            BY <1>2, <6>2
          <6>3. QED
            BY <6>1, <6>2
        <5>5. i # size[m] => f[m][i + 1] = g[m][i + 1]
          <6>1. i # size[m] => i + 1 \in 1 .. size[m]
            BY <1>3, <3>0
          <6>2. QED
            BY <1>6, <6>1
        <5>6. QED
          BY <5>2, <5>3, <5>4, <5>5
      <4>3. QED
        BY <4>1, <4>2
    <3>5. QED
      BY <3>1, <3>2, <3>3, <3>4 DEF Links
  <2>3. QED
    BY <1>6, <1>7, <2>1, <2>2
<1>11. Once(g)'
  <2>1. ASSUME NEW m \in Lists, NEW k \in Lists, NEW i \in 1 .. size'[m], NEW j \in 1 .. size'[k],
               g[m][i] = g[k][j]
        PROVE  m = k /\ i = j
    <3>1. CASE i \in 1 .. size[m] /\ j \in 1 .. size[k]
      <4>1. f[m][i] = f[k][j]
        BY <1>6, <2>1, <3>1
      <4>2. QED
        BY <1>3, <3>1, <4>1 DEF Once
    <3>2. CASE i \in 1 .. size[m] /\ k = l /\ j = L + 1
      <4>1. f[m][i] # n /\ g[m][i] = f[m][i]
        BY <1>1, <1>6, <3>2
      <4>2. g[k][j] = n
        BY <1>8, <3>2
      <4>3. QED
        BY <2>1, <4>1, <4>2
    <3>3. CASE m = l /\ i = L + 1 /\ j \in 1 .. size[k]
      <4>1. f[k][j] # n /\ g[k][j] = f[k][j]
        BY <1>1, <1>6, <3>3
      <4>2. g[m][i] = n
        BY <1>8, <3>3
      <4>3. QED
        BY <2>1, <4>1, <4>2
    <3>4. CASE m = l /\ i = L + 1 /\ k = l /\ j = L + 1
      BY <3>4
    <3>5. QED
      BY <1>7, <3>1, <3>2, <3>3, <3>4
  <2>2. \A i, j \in 1 .. Len(available_indices') :
          available_indices'[i] = available_indices'[j] => i = j
    BY <1>1, <1>3 DEF Once
  <2>3. ASSUME NEW x \in NodeIds PROVE Free(x)' <=> Free(x) /\ x # n
    <3>1. \A i \in 1 .. Len(available_indices) - 1 : available_indices'[i] # n
      BY <1>1, <1>3 DEF Once
    <3>2. \A i \in 1 .. Len(available_indices) : i # Len(available_indices) => i \in 1 .. Len(available_indices) - 1
      BY <1>1
    <3>3. \A i \in 1 .. Len(available_indices) - 1 : i \in 1 .. Len(available_indices)
      BY <1>1
    <3>4. QED
      BY <1>1, <3>1, <3>2, <3>3 DEF Free
  <2>4. ASSUME NEW x \in NodeIds PROVE Used(g, x)' <=> Used(f, x) \/ x = n
    <3>1. Used(f, x) => Used(g, x)'
      BY <1>6 DEF Used
    <3>2. x = n => Used(g, x)'
      BY <1>8 DEF Used
    <3>3. ASSUME Used(g, x)', x # n PROVE Used(f, x)
      <4>0. PICK m \in Lists : \E i \in 1 .. size'[m] : g[m][i] = x
        BY <3>3 DEF Used
      <4>1. PICK i \in 1 .. size'[m] : g[m][i] = x
        BY <4>0
      <4>2. i \in 1 .. size[m]
        BY <1>7, <1>8, <3>3, <4>1
      <4>3. QED
        BY <1>6, <4>1, <4>2 DEF Used
    <3>4. QED
      BY <3>1, <3>2, <3>3
  <2>5. \A x \in NodeIds : Free(x) <=> ~Used(f, x)
    BY <1>3 DEF Once
  <2>6. \A x \in NodeIds : Free(x)' <=> ~Used(g, x)'
    BY <2>3, <2>4, <2>5
  <2>7. QED
    BY <2>1, <2>2, <2>6 DEF Once
<1>12. QED
  BY <1>5, <1>6, <1>8, <1>9, <1>10, <1>11 DEF Arranged, Kept, AtEnd

\* What taking out n = f[l][k], between a and b, does.
NodeReturned(f, n) ==
  /\ available_indices' \in Seq(NodeIds) /\ Len(available_indices) \in Nat
  /\ Len(available_indices') = Len(available_indices) + 1
  /\ \A i \in 1 .. Len(available_indices) + 1 :
       available_indices'[i] = IF i = Len(available_indices) + 1 THEN n ELSE available_indices[i]
  /\ \A i \in 1 .. Len(available_indices) : available_indices[i] # n
NodeUnlinked(l, a, b) ==
  /\ \A x \in NodeIds : prev'[x] = IF x = b THEN a ELSE prev[x]
  /\ \A x \in NodeIds : next'[x] = IF x = a THEN b ELSE next[x]
  /\ \A m \in Lists : size'[m] = IF m = l THEN size[l] - 1 ELSE size[m]
  /\ \A m \in Lists : tail'[m] = IF m = l /\ b = NULL THEN a ELSE tail[m]
  /\ \A m \in Lists : head'[m] = IF m = l /\ a = NULL THEN b ELSE head[m]
  /\ task' = task

LEMMA RemoveFacts ==
  ASSUME Typed, NEW f, Linked(f), NEW l \in Lists, NEW k \in 1 .. size[l], NEW n, n = f[l][k],
         task_list_remove_node(l, n), NEW a, a = prev[n], NEW b, b = next[n]
  PROVE  NodeReturned(f, n) /\ NodeUnlinked(l, a, b) /\ ListsTyped' /\ n \in NodeIds
<1>1. /\ task \in [NodeIds -> TaskPtr] /\ prev \in [NodeIds -> NodePtr] /\ next \in [NodeIds -> NodePtr]
      /\ available_indices \in Seq(NodeIds) /\ head \in [Lists -> NodePtr]
      /\ tail \in [Lists -> NodePtr] /\ size \in [Lists -> Nat]
  BY DEF Typed
<1>2. /\ prev' = (IF b # NULL THEN [prev EXCEPT ![b] = a] ELSE prev)
      /\ tail' = (IF b = NULL THEN [tail EXCEPT ![l] = a] ELSE tail)
      /\ next' = (IF a # NULL THEN [next EXCEPT ![a] = b] ELSE next)
      /\ head' = (IF a = NULL THEN [head EXCEPT ![l] = b] ELSE head)
      /\ size' = [size EXCEPT ![l] = @ - 1]
      /\ available_indices' = Append(available_indices, n) /\ task' = task
  BY DEF task_list_remove_node, task_node_free
<1>3. n \in NodeIds /\ a \in NodePtr /\ b \in NodePtr
  BY <1>1, NodeOf
<1>4. NULL \notin NodeIds
  BY NodeCount
<1>5. \A x \in NodePtr : x # NULL => x \in NodeIds
  BY DEF NodePtr
<1>6. ~Free(n)
  <2>1. Used(f, n)
    BY DEF Used
  <2>2. QED
    BY <1>3, <2>1 DEF Linked, Once
<1>7. NodeReturned(f, n)
  <2>1. /\ available_indices' \in Seq(NodeIds) /\ Len(available_indices) \in Nat
        /\ Len(available_indices') = Len(available_indices) + 1
        /\ \A i \in 1 .. Len(available_indices) + 1 :
             available_indices'[i] = IF i = Len(available_indices) + 1 THEN n ELSE available_indices[i]
    BY <1>1, <1>2, <1>3, AppendFacts
  <2>2. \A i \in 1 .. Len(available_indices) : available_indices[i] # n
    BY <1>6 DEF Free
  <2>3. QED
    BY <2>1, <2>2 DEF NodeReturned
<1>8. /\ \A x \in NodeIds : prev'[x] = IF x = b THEN a ELSE prev[x]
      /\ prev' \in [NodeIds -> NodePtr]
  BY <1>1, <1>2, <1>3, <1>4, <1>5
<1>9. /\ \A x \in NodeIds : next'[x] = IF x = a THEN b ELSE next[x]
      /\ next' \in [NodeIds -> NodePtr]
  BY <1>1, <1>2, <1>3, <1>4, <1>5
<1>10. /\ \A m \in Lists : tail'[m] = IF m = l /\ b = NULL THEN a ELSE tail[m]
       /\ tail' \in [Lists -> NodePtr]
  BY <1>1, <1>2, <1>3
<1>11. /\ \A m \in Lists : head'[m] = IF m = l /\ a = NULL THEN b ELSE head[m]
       /\ head' \in [Lists -> NodePtr]
  BY <1>1, <1>2, <1>3
<1>12. /\ \A m \in Lists : size'[m] = IF m = l THEN size[l] - 1 ELSE size[m]
       /\ size' \in [Lists -> Nat]
  <2>1. size[l] - 1 \in Nat
    BY <1>1
  <2>2. QED
    BY <1>1, <1>2, <2>1
<1>13. NodeUnlinked(l, a, b)
  BY <1>2, <1>8, <1>9, <1>10, <1>11, <1>12 DEF NodeUnlinked
<1>14. ListsTyped'
  BY <1>1, <1>2, <1>8, <1>9, <1>10, <1>11, <1>12 DEF ListsTyped
<1>15. QED
  BY <1>3, <1>7, <1>13, <1>14

\* A removal makes the sequence of its list one node shorter.
LEMMA RemoveLinked ==
  ASSUME Typed, NEW f, Linked(f), NEW l \in Lists, NEW k \in 1 .. size[l], NEW n, n = f[l][k],
         task_list_remove_node(l, n), NEW g, g = [f EXCEPT ![l] = RemoveAt(f[l], k)]
  PROVE  Arranged(g)' /\ KeptBut(n, f, g)
<1>0. PICK L \in Nat : L = size[l]
  BY NodeOf
<1>3. /\ f \in [Lists -> Seq(NodeIds)] /\ f[l] \in Seq(NodeIds) /\ Len(f[l]) = L /\ k \in 1 .. L
      /\ \A m \in Lists : size[m] \in Nat /\ Len(f[m]) = size[m] /\ Ends(f, m)
      /\ \A m \in Lists : \A i \in 1 .. size[m] :
           Links(f, m, i) /\ f[m][i] \in NodeIds /\ f[m][i] # NULL
      /\ Once(f)
  BY <1>0, NodeOf DEF Linked
<1>1. PICK a, b : /\ a = prev[n] /\ a = (IF k = 1 THEN NULL ELSE f[l][k - 1])
                  /\ b = next[n] /\ b = (IF k = L THEN NULL ELSE f[l][k + 1])
  <2>1. Links(f, l, k)
    BY <1>3
  <2>2. prev[n] = (IF k = 1 THEN NULL ELSE f[l][k - 1]) /\ next[n] = (IF k = L THEN NULL ELSE f[l][k + 1])
    BY <1>0, <2>1 DEF Links
  <2>3. QED
    BY <2>2
<1>2. NodeReturned(f, n) /\ NodeUnlinked(l, a, b) /\ n \in NodeIds
  BY <1>1, RemoveFacts
<1>4. /\ \A x \in NodeIds : prev'[x] = IF x = b THEN a ELSE prev[x]
      /\ \A x \in NodeIds : next'[x] = IF x = a THEN b ELSE next[x]
      /\ \A m \in Lists : size'[m] = IF m = l THEN L - 1 ELSE size[m]
      /\ \A m \in Lists : tail'[m] = IF m = l /\ b = NULL THEN a ELSE tail[m]
      /\ \A m \in Lists : head'[m] = IF m = l /\ a = NULL THEN b ELSE head[m]
      /\ task' = task
  BY <1>0, <1>2 DEF NodeUnlinked
<1>5. /\ RemoveAt(f[l], k) \in Seq(NodeIds) /\ Len(RemoveAt(f[l], k)) = L - 1
      /\ \A i \in 1 .. L - 1 : RemoveAt(f[l], k)[i] = IF i < k THEN f[l][i] ELSE f[l][i + 1]
  BY <1>3, RemoveAtFacts
<1>6. /\ g \in [Lists -> Seq(NodeIds)] /\ \A m \in Lists : m # l => g[m] = f[m]
      /\ Len(g[l]) = L - 1 /\ \A i \in 1 .. L - 1 : g[l][i] = IF i < k THEN f[l][i] ELSE f[l][i + 1]
  BY <1>3, <1>5
<1>7. \A m, p \in Lists : \A i \in 1 .. size[m], j \in 1 .. size[p] : f[m][i] = f[p][j] => m = p /\ i = j
  BY <1>3 DEF Once
<1>8. size'[l] = L - 1 /\ \A m \in Lists : m # l => size'[m] = size[m]
  BY <1>4

\* The place in f of what g has at i.
<1>9. ASSUME NEW m \in Lists, NEW i \in 1 .. size'[m]
      PROVE  \E o \in 1 .. size[m] :
               /\ g[m][i] = f[m][o] /\ ~(m = l /\ o = k)
               /\ (m # l => o = i) /\ (m = l => o = IF i < k THEN i ELSE i + 1)
  <2>1. CASE m = l
    <3>0. i \in 1 .. L - 1 /\ k \in 1 .. L /\ size[m] = L
      BY <1>0, <1>3, <1>8, <2>1
    <3>1. CASE i < k
      <4>1. i \in 1 .. L /\ i # k
        BY <3>0, <3>1
      <4>2. g[m][i] = f[m][i]
        BY <1>6, <2>1, <3>0, <3>1
      <4>3. QED
        BY <2>1, <3>0, <3>1, <4>1, <4>2
    <3>2. CASE ~(i < k)
      <4>1. i + 1 \in 1 .. L /\ i + 1 # k
        BY <3>0, <3>2
      <4>2. g[m][i] = f[m][i + 1]
        BY <1>6, <2>1, <3>0, <3>2
      <4>3. QED
        BY <2>1, <3>0, <3>2, <4>1, <4>2
    <3>3. QED
      BY <3>1, <3>2
  <2>2. CASE m # l
    BY <1>6, <1>8, <2>2
  <2>3. QED
    BY <2>1, <2>2
<1>10. ASSUME NEW m \in Lists, NEW o \in 1 .. size[m], ~(m = l /\ o = k)
       PROVE  \E i \in 1 .. size'[m] : g[m][i] = f[m][o]
  <2>1. CASE m = l
    <3>0. o \in 1 .. L /\ k \in 1 .. L /\ o # k /\ size'[m] = L - 1
      BY <1>0, <1>3, <1>8, <1>10, <2>1
    <3>1. CASE o < k
      <4>1. o \in 1 .. L - 1
        BY <3>0, <3>1
      <4>2. QED
        BY <1>6, <2>1, <3>0, <3>1, <4>1
    <3>2. CASE ~(o < k)
      <4>1. PICK i \in 1 .. L - 1 : ~(i < k) /\ i + 1 = o
        <5>1. o - 1 \in 1 .. L - 1 /\ ~(o - 1 < k) /\ (o - 1) + 1 = o
          BY <3>0, <3>2
        <5>2. QED
          BY <5>1, Zenon
      <4>2. g[l][i] = f[l][o]
        BY <1>6, <4>1
      <4>3. QED
        BY <2>1, <3>0, <4>2
    <3>3. QED
      BY <3>1, <3>2
  <2>2. CASE m # l
    BY <1>6, <1>8, <2>2
  <2>3. QED
    BY <2>1, <2>2
<1>11. ASSUME NEW m \in Lists PROVE Len(g[m]) = size'[m] /\ Ends(g, m)'
  <2>1. CASE m # l
    BY <1>3, <1>4, <1>6, <1>8, <2>1 DEF Ends
  <2>2. CASE m = l
    <3>1. Len(g[m]) = size'[m]
      BY <1>6, <1>8, <2>2
    <3>2. head[l] = f[l][1] /\ tail[l] = f[l][L]
      BY <1>0, <1>3 DEF Ends
    <3>3. (a = NULL <=> k = 1) /\ (b = NULL <=> k = L)
      <4>1. (k # 1 => k - 1 \in 1 .. size[l]) /\ (k # L => k + 1 \in 1 .. size[l])
        BY <1>0, <1>3
      <4>2. (k # 1 => f[l][k - 1] # NULL) /\ (k # L => f[l][k + 1] # NULL)
        BY <1>3, <4>1
      <4>3. QED
        BY <1>1, <4>2
    <3>4. ASSUME size'[l] = 0 PROVE head'[l] = NULL /\ tail'[l] = NULL
      <4>1. k = 1 /\ k = L
        BY <1>3, <1>8, <3>4
      <4>2. a = NULL /\ b = NULL
        BY <3>3, <4>1
      <4>3. QED
        BY <1>4, <4>2
    <3>5. ASSUME size'[l] > 0 PROVE head'[l] = g[l][1]
      <4>0. 1 \in 1 .. L - 1
        BY <1>8, <3>5
      <4>1. CASE k = 1
        <5>1. k # L /\ g[l][1] = f[l][k + 1] /\ a = NULL
          BY <1>6, <3>3, <4>0, <4>1
        <5>2. QED
          BY <1>1, <1>4, <5>1
      <4>2. CASE k # 1
        <5>1. g[l][1] = f[l][1] /\ a # NULL
          BY <1>3, <1>6, <3>3, <4>0, <4>2
        <5>2. QED
          BY <1>4, <3>2, <5>1
      <4>3. QED
        BY <4>1, <4>2
    <3>6. ASSUME size'[l] > 0 PROVE tail'[l] = g[l][L - 1]
      <4>0. L - 1 \in 1 .. L - 1
        BY <1>8, <3>6
      <4>1. CASE k = L
        <5>1. k # 1 /\ g[l][L - 1] = f[l][k - 1] /\ b = NULL
          BY <1>6, <3>3, <4>0, <4>1
        <5>2. QED
          BY <1>1, <1>4, <5>1
      <4>2. CASE k # L
        <5>1. ~(L - 1 < k) /\ (L - 1) + 1 = L
          BY <1>3, <4>2
        <5>2. g[l][L - 1] = f[l][L] /\ b # NULL
          BY <1>6, <3>3, <4>0, <4>2, <5>1
        <5>3. QED
          BY <1>4, <3>2, <5>2
      <4>3. QED
        BY <4>1, <4>2
    <3>7. QED
      BY <1>8, <2>2, <3>1, <3>4, <3>5, <3>6 DEF Ends
  <2>3. QED
    BY <2>1, <2>2

<1>12. ASSUME NEW m \in Lists, NEW i \in 1 .. size'[m] PROVE Links(g, m, i)'
  <2>1. PICK o \in 1 .. size[m] :
          /\ g[m][i] = f[m][o] /\ ~(m = l /\ o = k)
          /\ (m # l => o = i) /\ (m = l => o = IF i < k THEN i ELSE i + 1)
    BY <1>9
  <2>2. PICK x \in NodeIds : x = f[m][o] /\ x = g[m][i] /\ Links(f, m, o)
    <3>1. f[m][o] \in NodeIds /\ Links(f, m, o)
      BY <1>3
    <3>2. QED
      BY <2>1, <3>1, Zenon
  <2>3. /\ next[x] = IF o = size[m] THEN NULL ELSE f[m][o + 1]
        /\ prev[x] = IF o = 1 THEN NULL ELSE f[m][o - 1]
        /\ task'[x] # {}
    BY <1>4, <2>2 DEF Links
  <2>4. x = a => m = l /\ k # 1 /\ o = k - 1
    <3> SUFFICES ASSUME x = a PROVE m = l /\ k # 1 /\ o = k - 1
      OBVIOUS
    <3>1. k # 1
      BY <1>1, NodeCount
    <3>2. k - 1 \in 1 .. size[l] /\ f[l][k - 1] = f[m][o]
      BY <1>0, <1>1, <1>3, <2>2, <3>1
    <3>3. QED
      BY <1>7, <3>1, <3>2
  <2>5. x = b => m = l /\ k # L /\ o = k + 1
    <3> SUFFICES ASSUME x = b PROVE m = l /\ k # L /\ o = k + 1
      OBVIOUS
    <3>1. k # L
      BY <1>1, NodeCount
    <3>2. k + 1 \in 1 .. size[l] /\ f[l][k + 1] = f[m][o]
      BY <1>0, <1>1, <1>3, <2>2, <3>1
    <3>3. QED
      BY <1>7, <3>1, <3>2
  <2>6. CASE m # l
    <3>1. next'[x] = next[x] /\ prev'[x] = prev[x]
      BY <1>4, <2>4, <2>5, <2>6
    <3>2. o = i /\ size'[m] = size[m] /\ g[m] = f[m]
      BY <1>6, <1>8, <2>1, <2>6
    <3>3. next'[x] = IF i = size'[m] THEN NULL ELSE g[m][i + 1]
      BY <2>3, <3>1, <3>2
    <3>4. prev'[x] = IF i = 1 THEN NULL ELSE g[m][i - 1]
      BY <2>3, <3>1, <3>2
    <3>5. QED
      BY <2>2, <2>3, <3>3, <3>4, Zenon DEF Links
  <2>7. CASE m = l
    <3>0. /\ i \in 1 .. L - 1 /\ o \in 1 .. L /\ k \in 1 .. L /\ o # k /\ size'[m] = L - 1
          /\ o = IF i < k THEN i ELSE i + 1
      BY <1>0, <1>3, <1>8, <2>1, <2>7
    <3>1. \A j \in 1 .. L - 1 : g[m][j] = IF j < k THEN f[l][j] ELSE f[l][j + 1]
      BY <1>6, <2>7
    <3>2. next'[x] = IF i = L - 1 THEN NULL ELSE g[m][i + 1]
      <4>1. CASE o = k - 1
        <5>1. i = k - 1 /\ k # 1
          BY <3>0, <4>1
        <5>2. next'[x] = b
          BY <1>1, <1>4, <2>2, <2>7, <4>1, <5>1
        <5>3. CASE k = L
          BY <1>1, <5>1, <5>2, <5>3
        <5>4. CASE k # L
          <6>1. i # L - 1 /\ i + 1 \in 1 .. L - 1 /\ ~(i + 1 < k) /\ (i + 1) + 1 = k + 1
            BY <3>0, <5>1, <5>4
          <6>2. g[m][i + 1] = f[l][k + 1]
            BY <3>1, <6>1
          <6>3. QED
            BY <1>1, <5>2, <5>4, <6>1, <6>2
        <5>5. QED
          BY <5>3, <5>4
      <4>2. CASE o # k - 1
        <5>1. next'[x] = IF o = L THEN NULL ELSE f[l][o + 1]
          BY <1>0, <1>4, <2>3, <2>4, <2>7, <4>2
        <5>2. (o = L) <=> (i = L - 1)
          BY <3>0, <4>2
        <5>3. ASSUME i # L - 1 PROVE g[m][i + 1] = f[l][o + 1]
          <6>1. i + 1 \in 1 .. L - 1
            BY <3>0, <5>3
          <6>2. CASE i < k
            BY <3>0, <3>1, <4>2, <6>1, <6>2
          <6>3. CASE ~(i < k)
            BY <3>0, <3>1, <4>2, <6>1, <6>3
          <6>4. QED
            BY <6>2, <6>3
        <5>4. QED
          BY <5>1, <5>2, <5>3
      <4>3. QED
        BY <4>1, <4>2
    <3>3. prev'[x] = IF i = 1 THEN NULL ELSE g[m][i - 1]
      <4>1. CASE o = k + 1
        <5>1. i = k /\ k # L
          BY <3>0, <4>1
        <5>2. prev'[x] = a
          BY <1>1, <1>4, <2>2, <2>7, <4>1, <5>1
        <5>3. CASE k = 1
          BY <1>1, <5>1, <5>2, <5>3
        <5>4. CASE k # 1
          <6>1. i # 1 /\ i - 1 \in 1 .. L - 1 /\ i - 1 < k /\ i - 1 = k - 1
            BY <3>0, <5>1, <5>4
          <6>2. g[m][i - 1] = f[l][k - 1]
            BY <3>1, <6>1
          <6>3. QED
            BY <1>1, <5>2, <5>4, <6>1, <6>2
        <5>5. QED
          BY <5>3, <5>4
      <4>2. CASE o # k + 1
        <5>1. prev'[x] = IF o = 1 THEN NULL ELSE f[l][o - 1]
          BY <1>4, <2>3, <2>5, <2>7, <4>2
        <5>2. (o = 1) <=> (i = 1)
          BY <3>0, <4>2
        <5>3. ASSUME i # 1 PROVE g[m][i - 1] = f[l][o - 1]
          <6>1. i - 1 \in 1 .. L - 1
            BY <3>0, <5>3
          <6>2. CASE i < k
            BY <3>0, <3>1, <4>2, <6>1, <6>2
          <6>3. CASE ~(i < k)
            <7>1. ~(i - 1 < k) /\ (i - 1) + 1 = o - 1
              BY <3>0, <4>2, <6>3
            <7>2. QED
              BY <3>1, <6>1, <7>1
          <6>4. QED
            BY <6>2, <6>3
        <5>4. QED
          BY <5>1, <5>2, <5>3
      <4>3. QED
        BY <4>1, <4>2
    <3>4. next'[x] = IF i = size'[m] THEN NULL ELSE g[m][i + 1]
      BY <3>0, <3>2
    <3>5. QED
      BY <2>2, <2>3, <3>3, <3>4, Zenon DEF Links
  <2>8. QED
    BY <2>6, <2>7
<1>13. Once(g)'
  <2>1. ASSUME NEW m \in Lists, NEW p \in Lists, NEW i \in 1 .. size'[m], NEW j \in 1 .. size'[p],
               g[m][i] = g[p][j]
        PROVE  m = p /\ i = j
    <3>1. PICK o \in 1 .. size[m] :
            /\ g[m][i] = f[m][o] /\ ~(m = l /\ o = k)
            /\ (m # l => o = i) /\ (m = l => o = IF i < k THEN i ELSE i + 1)
      BY <1>9
    <3>2. PICK u \in 1 .. size[p] :
            /\ g[p][j] = f[p][u] /\ ~(p = l /\ u = k)
            /\ (p # l => u = j) /\ (p = l => u = IF j < k THEN j ELSE j + 1)
      BY <1>9
    <3>3. m = p /\ o = u
      BY <1>7, <2>1, <3>1, <3>2
    <3>4. CASE m # l
      BY <3>1, <3>2, <3>3, <3>4
    <3>5. CASE m = l
      <4>1. i \in Int /\ j \in Int /\ k \in Int
        BY <1>3, <1>8, <3>3, <3>5
      <4>2. QED
        BY <3>1, <3>2, <3>3, <3>5, <4>1
    <3>6. QED
      BY <3>4, <3>5
  <2>2. ASSUME NEW i \in 1 .. Len(available_indices'), NEW j \in 1 .. Len(available_indices'),
               available_indices'[i] = available_indices'[j]
        PROVE  i = j
    BY <1>2, <1>3, <2>2 DEF NodeReturned, Once
  <2>3. ASSUME NEW x \in NodeIds PROVE Free(x)' <=> Free(x) \/ x = n
    <3>1. Free(x) => Free(x)'
      BY <1>2 DEF NodeReturned, Free
    <3>2. x = n => Free(x)'
      BY <1>2 DEF NodeReturned, Free
    <3>3. ASSUME Free(x)', x # n PROVE Free(x)
      <4>1. PICK i \in 1 .. Len(available_indices') : available_indices'[i] = x
        BY <3>3 DEF Free
      <4>2. i \in 1 .. Len(available_indices) /\ available_indices[i] = x
        BY <1>2, <3>3, <4>1 DEF NodeReturned
      <4>3. QED
        BY <4>2 DEF Free
    <3>4. QED
      BY <3>1, <3>2, <3>3
  <2>4. ASSUME NEW x \in NodeIds PROVE Used(g, x)' <=> Used(f, x) /\ x # n
    <3>1. ASSUME Used(g, x)' PROVE Used(f, x) /\ x # n
      <4>1. PICK m \in Lists : \E i \in 1 .. size'[m] : g[m][i] = x
        BY <3>1 DEF Used
      <4>2. PICK i \in 1 .. size'[m] : g[m][i] = x
        BY <4>1
      <4>3. PICK o \in 1 .. size[m] : x = f[m][o] /\ ~(m = l /\ o = k)
        BY <1>9, <4>2
      <4>4. Used(f, x)
        BY <4>3 DEF Used
      <4>5. x # n
        BY <1>7, <4>3
      <4>6. QED
        BY <4>4, <4>5
    <3>2. ASSUME Used(f, x), x # n PROVE Used(g, x)'
      <4>1. PICK m \in Lists : \E o \in 1 .. size[m] : f[m][o] = x
        BY <3>2 DEF Used
      <4>2. PICK o \in 1 .. size[m] : f[m][o] = x
        BY <4>1
      <4>3. ~(m = l /\ o = k)
        BY <3>2, <4>2
      <4>4. \E i \in 1 .. size'[m] : g[m][i] = x
        BY <1>10, <4>2, <4>3
      <4>5. QED
        BY <4>4 DEF Used
    <3>3. QED
      BY <3>1, <3>2
  <2>5. \A x \in NodeIds : Free(x) <=> ~Used(f, x)
    BY <1>3 DEF Once
  <2>6. \A x \in NodeIds : Free(x)' <=> ~Used(g, x)'
    BY <2>3, <2>4, <2>5
  <2>7. QED
    BY <2>1, <2>2, <2>6 DEF Once
<1>14. KeptBut(n, f, g)
  BY <1>10 DEF KeptBut
<1>15. QED
  BY <1>6, <1>11, <1>12, <1>13, <1>14 DEF Arranged

-----------------------------------------------------------------------------
(* The invariant holds.                                                    *)

\* A step that adds task t to the end of list l; one that takes out its k-th
\* node; one that finds the pool empty.
Pushed(f, l, t) ==
  \E g, n :
    /\ g = [f EXCEPT ![l] = Append(f[l], n)] /\ n \in NodeIds
    /\ \A m \in Lists : \A i \in 1 .. size[m] : f[m][i] # n
    /\ \A x \in NodeIds : task'[x] = IF x = n THEN {t} ELSE task[x]
    /\ Len(available_indices) \in Nat \ {0}
    /\ Len(available_indices') = Len(available_indices) - 1
    /\ Typed' /\ Linked(g)'
Removed(f, l, k) ==
  \E g :
    /\ g = [f EXCEPT ![l] = RemoveAt(f[l], k)] /\ k \in 1 .. size[l]
    /\ task' = task /\ returned' = task[f[l][k]]
    /\ Len(available_indices') = Len(available_indices) + 1
    /\ Typed' /\ Linked(g)'
Stopped == Halt /\ available_indices = <<>>

LEMMA TheLists ==
  /\ \A q \in Queues, t \in Tasks : <<q, Priority[t]>> \in Lists
  /\ \A q \in Queues, p \in Prio : <<q, p>> \in Lists
  /\ \A j \in Plain : <<j, 0>> \in Lists
  /\ \A q \in Queues, j \in Plain : q # j
  /\ \A j, k \in Plain : j = k
<1>1. Priority \in [Tasks -> Prio]
  BY TaskAssumption DEF Prio
<1>2. \A t \in Tasks : Priority[t] \in Prio
  BY <1>1
<1>3. QED
  BY <1>2, ListAssumption DEF Lists

LEMMA NoneLeft ==
  ASSUME Typed, NEW f, Linked(f), NEW l \in Lists, ~MayPush(l)
  PROVE  available_indices = <<>>
<1>1. Ends(f, l)
  BY DEF Linked
<1>2. QED
  BY <1>1 DEF MayPush, task_list_empty, Ends

\* ptask_queue_push, with every job where it was.
LEMMA PushStep ==
  ASSUME Typed, NEW f, Linked(f), NEW q \in Queues, NEW t \in Tasks, ptask_queue_push(q, t)
  PROVE  \/ Pushed(f, <<q, Priority[t]>>, t) /\ UNCHANGED <<returned, running>>
         \/ Stopped
<1>0. PICK l \in Lists : l = <<q, Priority[t]>>
  BY TheLists
<1>1. CASE ~MayPush(l)
  BY <1>0, <1>1, NoneLeft DEF ptask_queue_push, Stopped
<1>2. CASE MayPush(l)
  <2>1. task_list_push_back(l, t) /\ UNCHANGED <<job_node, returned, running>> /\ available_indices # <<>>
    BY <1>0, <1>2 DEF ptask_queue_push, MayPush
  <2>2. PICK n, g : n = Last(available_indices) /\ g = [f EXCEPT ![l] = Append(f[l], n)]
    OBVIOUS
  <2>3. NodeTaken(f, n) /\ NodeLinked(l, t, n) /\ ListsTyped'
    BY <2>1, <2>2, PushFacts
  <2>4. Arranged(g)' /\ Kept(f, g)
    BY <2>1, <2>2, PushLinked
  <2>5. Jobs(f)
    BY DEF Linked
  <2>6. ASSUME NEW j \in Plain, NEW u \in Tasks, job_node'[u] # NULL
        PROVE  \E i \in 1 .. size'[<<j, 0>>] : g[<<j, 0>>][i] = job_node'[u]
    <3>1. PICK i \in 1 .. size[<<j, 0>>] : f[<<j, 0>>][i] = job_node[u]
      BY <2>1, <2>5, <2>6 DEF Jobs
    <3>2. QED
      BY <2>1, <2>4, <3>1, TheLists DEF Kept
  <2>7. Jobs(g)'
    BY <2>1, <2>5, <2>6 DEF Jobs
  <2>8. Linked(g)'
    BY <2>4, <2>7 DEF Linked, Arranged
  <2>9. Typed'
    BY <2>1, <2>3 DEF Typed, ListsTyped, NodeTaken
  <2>10. Pushed(f, l, t)
    <3>1. /\ n \in NodeIds /\ \A m \in Lists : \A i \in 1 .. size[m] : f[m][i] # n
          /\ Len(available_indices) \in Nat \ {0}
          /\ Len(available_indices') = Len(available_indices) - 1
      BY <2>3 DEF NodeTaken
    <3>2. \A x \in NodeIds : task'[x] = IF x = n THEN {t} ELSE task[x]
      BY <2>3 DEF NodeLinked
    <3>3. QED
      BY <2>2, <2>8, <2>9, <3>1, <3>2, Zenon DEF Pushed
  <2>11. QED
    BY <1>0, <2>1, <2>10
<1>3. QED
  BY <1>1, <1>2

\* add_job: the new job's node is the last of jobq.
LEMMA AddStep ==
  ASSUME Typed, NEW f, Linked(f), NEW j \in Plain, NEW t \in Tasks, add_job(j, t)
  PROVE  \/ Pushed(f, <<j, 0>>, t) /\ UNCHANGED <<returned, running>>
         \/ Stopped
<1>0. PICK l \in Lists : l = <<j, 0>>
  BY TheLists
<1>1. CASE ~MayPush(l)
  BY <1>0, <1>1, NoneLeft DEF add_job, Stopped
<1>2. CASE MayPush(l)
  <2>1. /\ task_list_push_back(l, t) /\ available_indices # <<>> /\ UNCHANGED <<returned, running>>
        /\ job_node' = [job_node EXCEPT ![t] = tail'[l]]
    BY <1>0, <1>2 DEF add_job, MayPush
  <2>2. PICK n, g : n = Last(available_indices) /\ g = [f EXCEPT ![l] = Append(f[l], n)]
    OBVIOUS
  <2>3. NodeTaken(f, n) /\ NodeLinked(l, t, n) /\ ListsTyped'
    BY <2>1, <2>2, PushFacts
  <2>4. Arranged(g)' /\ Kept(f, g) /\ AtEnd(n, g, l)'
    BY <2>1, <2>2, PushLinked
  <2>5. Jobs(f) /\ job_node \in [Tasks -> NodePtr]
    BY DEF Linked, Typed
  <2>6. tail'[l] = n /\ n \in NodePtr
    BY <2>3 DEF NodeLinked, NodeTaken, NodePtr
  <2>7. /\ \A u \in Tasks : job_node'[u] = IF u = t THEN n ELSE job_node[u]
        /\ job_node' \in [Tasks -> NodePtr]
    BY <2>1, <2>5, <2>6
  <2>8. \A k \in Plain : <<k, 0>> = l
    BY <1>0, TheLists
  <2>9. ASSUME NEW k \in Plain, NEW u \in Tasks, job_node'[u] # NULL
        PROVE  \E i \in 1 .. size'[<<k, 0>>] : g[<<k, 0>>][i] = job_node'[u]
    <3>1. CASE u = t
      BY <2>4, <2>7, <2>8, <3>1 DEF AtEnd
    <3>2. CASE u # t
      <4>1. PICK i \in 1 .. size[<<k, 0>>] : f[<<k, 0>>][i] = job_node[u]
        BY <2>5, <2>7, <2>9, <3>2 DEF Jobs
      <4>2. QED
        BY <2>4, <2>7, <2>8, <3>2, <4>1 DEF Kept
    <3>3. QED
      BY <3>1, <3>2
  <2>10. \A u \in Tasks : job_node[u] # n
    <3>1. \A i \in 1 .. size[l] : f[l][i] # n
      BY <2>3 DEF NodeTaken
    <3>2. n # NULL
      BY <2>3 DEF NodeTaken
    <3>3. QED
      BY <1>0, <2>5, <3>1, <3>2 DEF Jobs
  <2>11. \A u, v \in Tasks : job_node'[u] # NULL /\ job_node'[u] = job_node'[v] => u = v
    BY <2>5, <2>7, <2>10 DEF Jobs
  <2>12. Jobs(g)'
    BY <2>9, <2>11 DEF Jobs
  <2>13. Linked(g)'
    BY <2>4, <2>12 DEF Linked, Arranged
  <2>14. Typed'
    BY <2>3, <2>7 DEF Typed, ListsTyped, NodeTaken
  <2>15. Pushed(f, l, t)
    <3>1. /\ n \in NodeIds /\ \A m \in Lists : \A i \in 1 .. size[m] : f[m][i] # n
          /\ Len(available_indices) \in Nat \ {0}
          /\ Len(available_indices') = Len(available_indices) - 1
      BY <2>3 DEF NodeTaken
    <3>2. \A x \in NodeIds : task'[x] = IF x = n THEN {t} ELSE task[x]
      BY <2>3 DEF NodeLinked
    <3>3. QED
      BY <2>2, <2>13, <2>14, <3>1, <3>2, Zenon DEF Pushed
  <2>16. QED
    BY <1>0, <2>1, <2>15
<1>3. QED
  BY <1>1, <1>2

\* Any removal, when every other node that a job has is still in jobq.
LEMMA RemoveStep ==
  ASSUME Typed, NEW f, Linked(f), NEW l \in Lists, NEW k \in 1 .. size[l], NEW n, n = f[l][k],
         task_list_remove_node(l, n), job_node' \in [Tasks -> NodePtr],
         \A u \in Tasks : job_node'[u] = job_node[u] \/ job_node'[u] = NULL,
         \A j \in Plain, u \in Tasks : job_node[u] = n => job_node'[u] = NULL
  PROVE  Removed(f, l, k)
<1>1. PICK g : g = [f EXCEPT ![l] = RemoveAt(f[l], k)]
  OBVIOUS
<1>2. Arranged(g)' /\ KeptBut(n, f, g)
  BY <1>1, RemoveLinked
<1>3. PICK a, b : a = prev[n] /\ b = next[n]
  OBVIOUS
<1>4. NodeReturned(f, n) /\ ListsTyped' /\ n \in NodeIds
  BY <1>3, RemoveFacts
<1>5. Jobs(f)
  BY DEF Linked
<1>6. ASSUME NEW j \in Plain, NEW u \in Tasks, job_node'[u] # NULL
      PROVE  \E i \in 1 .. size'[<<j, 0>>] : g[<<j, 0>>][i] = job_node'[u]
  <2>1. job_node'[u] = job_node[u] /\ job_node[u] # n
    BY <1>6
  <2>2. PICK i \in 1 .. size[<<j, 0>>] : f[<<j, 0>>][i] = job_node[u]
    BY <1>5, <1>6, <2>1 DEF Jobs
  <2>3. <<j, 0>> \in Lists
    BY TheLists
  <2>4. QED
    BY <1>2, <2>1, <2>2, <2>3 DEF KeptBut
<1>7. ASSUME NEW u \in Tasks, NEW v \in Tasks, job_node'[u] # NULL, job_node'[u] = job_node'[v]
      PROVE  u = v
  BY <1>5, <1>7 DEF Jobs
<1>8. Jobs(g)'
  BY <1>6, <1>7 DEF Jobs
<1>9. Linked(g)'
  BY <1>2, <1>8 DEF Linked, Arranged
<1>10. Typed'
  BY <1>4 DEF Typed, ListsTyped, NodeReturned
<1>11. task' = task /\ returned' = task[f[l][k]]
  BY DEF task_list_remove_node
<1>12. Len(available_indices') = Len(available_indices) + 1
  BY <1>4 DEF NodeReturned
<1>13. QED
  BY <1>1, <1>9, <1>10, <1>11, <1>12, Zenon DEF Removed

\* Nothing that is in a list fails the assertions of a removal.
LEMMA RemovalAllowed ==
  ASSUME Typed, NEW f, Linked(f), NEW l \in Lists, NEW k \in 1 .. size[l]
  PROVE  MayRemove(f[l][k])
<1>1. f[l][k] # NULL
  BY NodeOf
<1>2. QED
  BY <1>1, RoomToFree DEF MayRemove

\* ptask_queue_pop takes the head of the first list that is not empty; no job
\* is affected, for the ready and event queues are not jobq.
LEMMA PopStep ==
  ASSUME Typed, NEW f, Linked(f), NEW q \in Queues, ptask_queue_pop(q)
  PROVE  \E p \in Prio : /\ \A o \in Prio : o > p => size[<<q, o>>] = 0
                         /\ Removed(f, <<q, p>>, 1) /\ running' = running
<1>1. PICK p \in Prio :
        /\ HighestList(q, p)
        /\ IF MayRemove(head[<<q, p>>])
           THEN /\ task_list_remove_node(<<q, p>>, head[<<q, p>>])
                /\ pq_size' = [pq_size EXCEPT ![q] = @ - 1]
                /\ UNCHANGED <<job_node, running>>
           ELSE Halt
  BY DEF ptask_queue_pop
<1>2. PICK l \in Lists : l = <<q, p>>
  BY TheLists
<1>3. size[l] # 0 /\ \A o \in Prio : o > p => size[<<q, o>>] = 0
  BY <1>1, <1>2 DEF HighestList, task_list_empty
<1>4. 1 \in 1 .. size[l] /\ head[l] = f[l][1]
  <2>1. size[l] \in Nat /\ Ends(f, l)
    BY DEF Typed, Linked
  <2>2. QED
    BY <1>3, <2>1 DEF Ends
<1>5. PICK n : n = f[l][1] /\ n = head[l] /\ MayRemove(n)
  BY <1>4, RemovalAllowed
<1>6. task_list_remove_node(l, n) /\ UNCHANGED <<job_node, running>>
  BY <1>1, <1>2, <1>5
<1>7. ASSUME NEW j \in Plain, NEW u \in Tasks PROVE job_node[u] # n
  <2> SUFFICES ASSUME job_node[u] = n PROVE FALSE
    OBVIOUS
  <2>1. n # NULL
    BY <1>5 DEF MayRemove
  <2>2. PICK m \in Lists : m = <<j, 0>> /\ m # l
    <3>1. <<j, 0>> \in Lists /\ <<j, 0>> # l
      BY <1>2, TheLists
    <3>2. QED
      BY <3>1
  <2>3. PICK i \in 1 .. size[m] : f[m][i] = n
    BY <2>1, <2>2 DEF Linked, Jobs
  <2>4. m = l
    BY <1>4, <1>5, <2>3 DEF Linked, Once
  <2>5. QED
    BY <2>2, <2>4
<1>8. job_node' \in [Tasks -> NodePtr]
  BY <1>6 DEF Typed
<1>9. Removed(f, l, 1)
  <2>1. PICK k \in 1 .. size[l] : k = 1
    BY <1>4
  <2>2. Removed(f, l, k)
    BY <1>5, <1>6, <1>7, <1>8, <2>1, RemoveStep
  <2>3. QED
    BY <2>1, <2>2
<1>10. QED
  BY <1>2, <1>3, <1>6, <1>9

\* remove_job: the node the task remembers is in jobq.
LEMMA RemoveJobStep ==
  ASSUME Typed, NEW f, Linked(f), NEW j \in Plain, NEW t \in Tasks, remove_job(j, t)
  PROVE  \E k \in 1 .. size[<<j, 0>>] : Removed(f, <<j, 0>>, k) /\ running' = running
<1>0. PICK l \in Lists : l = <<j, 0>>
  BY TheLists
<1>1. PICK n : n = job_node[t] /\ n # NULL
  BY DEF remove_job
<1>2. Jobs(f)
  BY DEF Linked
<1>3. PICK k \in 1 .. size[l] : f[l][k] = n
  BY <1>0, <1>1, <1>2 DEF Jobs
<1>4. MayRemove(n)
  BY <1>3, RemovalAllowed
<1>5. /\ task_list_remove_node(l, n) /\ running' = running
      /\ job_node' = [job_node EXCEPT ![t] = NULL]
  BY <1>0, <1>1, <1>4 DEF remove_job
<1>6. job_node \in [Tasks -> NodePtr] /\ NULL \in NodePtr
  BY DEF Typed, NodePtr
<1>7. /\ job_node' \in [Tasks -> NodePtr]
      /\ \A u \in Tasks : job_node'[u] = IF u = t THEN NULL ELSE job_node[u]
  BY <1>5, <1>6
<1>8. \A u \in Tasks : job_node[u] = n => u = t
  BY <1>1, <1>2 DEF Jobs
<1>9. Removed(f, l, k)
  BY <1>3, <1>5, <1>7, <1>8, RemoveStep
<1>10. QED
  BY <1>0, <1>5, <1>9

\* At the start every node is free and every list empty.
LEMMA InitLinked == Init => ListsInvariant
<1> SUFFICES ASSUME Init PROVE ListsInvariant
  OBVIOUS
<1>1. PICK f : f = [l \in Lists |-> <<>>]
  OBVIOUS
<1>2. \A l \in Lists : size[l] = 0 /\ head[l] = NULL /\ tail[l] = NULL /\ f[l] = <<>>
  BY <1>1 DEF Init
<1>3. PICK a : a = [i \in 1 .. MAX_TASK_NUM |-> i - 1] /\ a = available_indices
  BY DEF Init
<1>4. /\ a \in Seq(NodeIds) /\ Len(a) = MAX_TASK_NUM /\ MAX_TASK_NUM \in Nat
      /\ \A i \in 1 .. MAX_TASK_NUM : a[i] = i - 1
  <2>1. MAX_TASK_NUM \in Nat
    BY NodeCount
  <2>2. \A i \in 1 .. MAX_TASK_NUM : i - 1 \in NodeIds
    BY <2>1 DEF NodeIds
  <2>3. QED
    BY <1>3, <2>1, <2>2
<1>5. Typed
  <2>1. NULL \in NodePtr /\ {} \in TaskPtr
    BY DEF NodePtr, TaskPtr
  <2>2. task \in [NodeIds -> TaskPtr] /\ prev \in [NodeIds -> NodePtr] /\ next \in [NodeIds -> NodePtr]
    BY <2>1 DEF Init
  <2>3. head \in [Lists -> NodePtr] /\ tail \in [Lists -> NodePtr] /\ size \in [Lists -> Nat]
    BY <2>1 DEF Init
  <2>4. job_node \in [Tasks -> NodePtr]
    BY <2>1 DEF Init
  <2>5. QED
    BY <1>3, <1>4, <2>2, <2>3, <2>4 DEF Typed
<1>6. f \in [Lists -> Seq(NodeIds)] /\ \A l \in Lists : Len(f[l]) = size[l] /\ Ends(f, l)
  BY <1>1, <1>2 DEF Ends
<1>7. \A l \in Lists : \A i \in 1 .. size[l] : FALSE
  BY <1>2
<1>8. \A n \in NodeIds : Free(n)
  <2> SUFFICES ASSUME NEW n \in NodeIds PROVE Free(n)
    OBVIOUS
  <2>1. PICK i \in 1 .. MAX_TASK_NUM : i - 1 = n
    <3>1. n + 1 \in 1 .. MAX_TASK_NUM /\ (n + 1) - 1 = n
      BY <1>4 DEF NodeIds
    <3>2. QED
      BY <3>1
  <2>2. QED
    BY <1>3, <1>4, <2>1 DEF Free
<1>9. \A n \in NodeIds : ~Used(f, n)
  BY <1>7 DEF Used
<1>10. \A i, j \in 1 .. Len(available_indices) : available_indices[i] = available_indices[j] => i = j
  BY <1>3, <1>4
<1>11. Once(f)
  BY <1>7, <1>8, <1>9, <1>10 DEF Once
<1>12. Jobs(f)
  BY DEF Jobs, Init
<1>13. Linked(f)
  BY <1>6, <1>7, <1>11, <1>12 DEF Linked
<1>14. QED
  BY <1>5, <1>13 DEF ListsInvariant

\* Stopping the kernel, and leaving every variable alone.
LEMMA StutterLinked ==
  ASSUME Typed, NEW f, Linked(f), UNCHANGED <<nodeVars, listVars, job_node>>
  PROVE  Typed' /\ Linked(f)'
<1>1. /\ task' = task /\ prev' = prev /\ next' = next /\ available_indices' = available_indices
      /\ head' = head /\ tail' = tail /\ size' = size /\ job_node' = job_node
  BY DEF nodeVars, listVars
<1>2. Typed'
  BY <1>1 DEF Typed
<1>3. \A l \in Lists : Len(f[l]) = size'[l] /\ Ends(f, l)'
  BY <1>1 DEF Linked, Ends
<1>4. \A l \in Lists : \A i \in 1 .. size'[l] : Links(f, l, i)'
  BY <1>1 DEF Linked, Links
<1>5. Once(f)'
  BY <1>1 DEF Linked, Once, Free, Used
<1>6. Jobs(f)'
  BY <1>1 DEF Linked, Jobs
<1>7. QED
  BY <1>2, <1>3, <1>4, <1>5, <1>6 DEF Linked

LEMMA NextLinked == ListsInvariant /\ [Next]_vars => ListsInvariant'
<1> SUFFICES ASSUME ListsInvariant, [Next]_vars PROVE ListsInvariant'
  OBVIOUS
<1>1. PICK f : Typed /\ Linked(f)
  BY DEF ListsInvariant
<1>2. ASSUME NEW l, NEW t, Pushed(f, l, t) PROVE ListsInvariant'
  BY <1>2 DEF Pushed, ListsInvariant
<1>3. ASSUME NEW l, NEW k, Removed(f, l, k) PROVE ListsInvariant'
  BY <1>3 DEF Removed, ListsInvariant
<1>4. ASSUME UNCHANGED <<nodeVars, listVars, job_node>> PROVE ListsInvariant'
  BY <1>1, <1>4, StutterLinked DEF ListsInvariant
<1>5. Stopped => UNCHANGED <<nodeVars, listVars, job_node>>
  BY DEF Stopped, Halt
<1>6. ASSUME NEW q \in Queues, NEW t \in Tasks, ptask_queue_push(q, t) PROVE ListsInvariant'
  BY <1>1, <1>2, <1>4, <1>5, <1>6, PushStep
<1>7. ASSUME NEW q \in Queues, ptask_queue_pop(q) PROVE ListsInvariant'
  BY <1>1, <1>3, <1>7, PopStep
<1>8. ASSUME NEW j \in Plain, NEW t \in Tasks, add_job(j, t) PROVE ListsInvariant'
  BY <1>1, <1>2, <1>4, <1>5, <1>8, AddStep
<1>9. ASSUME NEW j \in Plain, NEW t \in Tasks, remove_job(j, t) PROVE ListsInvariant'
  BY <1>1, <1>3, <1>9, RemoveJobStep
<1>10. CASE UNCHANGED vars
  BY <1>4, <1>10 DEF vars
<1>11. QED
  BY <1>6, <1>7, <1>8, <1>9, <1>10 DEF Next

\* In every reachable state of the pool and its lists the links are those of
\* some sequences of nodes that share no node with each other or with the free
\* stack, and every job is in jobq.
THEOREM ListsInvariantHolds == Spec => []ListsInvariant
BY InitLinked, NextLinked, PTL DEF Spec

-----------------------------------------------------------------------------
(* The lists are consistent.                                               *)

LEMMA Single ==
  ASSUME NEW T, NEW x \in T, \A y \in T : y = x
  PROVE  Cardinality(T) = 1
<1>1. T = {x}
  OBVIOUS
<1>2. QED
  BY <1>1, FS_Singleton

LEMMA AtMostPool ==
  ASSUME Typed, NEW f, Linked(f), NEW l \in Lists
  PROVE  size[l] <= MAX_TASK_NUM
<1>1. PICK c, s : c = size[l] /\ s = f[l] /\ c \in Nat
  BY NodeOf
<1>2. \A i \in 1 .. c : s[i] \in NodeIds
  BY <1>1, NodeOf
<1>3. \A i, j \in 1 .. c : s[i] = s[j] => i = j
  BY <1>1 DEF Linked, Once
<1>4. IsFiniteSet(NodeIds) /\ Cardinality(NodeIds) = MAX_TASK_NUM
  BY NodeCount
<1>5. PICK T : T = NodeIds
  OBVIOUS
<1>6. c <= Cardinality(T)
  BY <1>1, <1>2, <1>3, <1>4, <1>5, NoMoreThan
<1>7. QED
  BY <1>1, <1>4, <1>5, <1>6

\* The places of node n in the free stack and in the lists.
FreeAt(n) == {i \in DOMAIN available_indices : available_indices[i] = n}
UsedAt(n) == {li \in Lists \X (1 .. MAX_TASK_NUM) :
                li[2] <= size[li[1]] /\ Chain(li[1])[li[2]] = n}

LEMMA OnePlace ==
  ASSUME Typed, NEW f, Linked(f), NEW n \in NodeIds
  PROVE  Cardinality(FreeAt(n)) + Cardinality(UsedAt(n)) = 1
<1>1. DOMAIN available_indices = 1 .. Len(available_indices) /\ Len(available_indices) \in Nat
  BY DEF Typed
<1>2. \A l \in Lists : Chain(l) = f[l] /\ size[l] \in Nat /\ size[l] <= MAX_TASK_NUM
  BY ChainIs, AtMostPool, NodeOf
<1>3. Once(f) /\ MAX_TASK_NUM \in Nat
  BY NodeCount DEF Linked
<1>4. (FreeAt(n) # {}) <=> Free(n)
  BY <1>1 DEF FreeAt, Free
<1>5. ASSUME NEW l \in Lists, NEW i \in 1 .. size[l], f[l][i] = n PROVE <<l, i>> \in UsedAt(n)
  BY <1>2, <1>3, <1>5 DEF UsedAt
<1>6. ASSUME NEW x \in UsedAt(n)
      PROVE  \E l \in Lists : \E i \in 1 .. size[l] : f[l][i] = n /\ x = <<l, i>>
  <2>1. PICK l \in Lists, i \in 1 .. MAX_TASK_NUM :
          x = <<l, i>> /\ i <= size[l] /\ Chain(l)[i] = n
    BY DEF UsedAt
  <2>2. i \in 1 .. size[l] /\ f[l][i] = n
    BY <1>2, <1>3, <2>1
  <2>3. QED
    BY <2>1, <2>2
<1>7. CASE Free(n)
  <2>1. PICK x \in FreeAt(n) : TRUE
    BY <1>4, <1>7
  <2>2. \A y \in FreeAt(n) : y = x
    BY <1>1, <1>3, <2>1 DEF FreeAt, Once
  <2>3. Cardinality(FreeAt(n)) = 1
    <3>1. PICK T : T = FreeAt(n)
      OBVIOUS
    <3>2. Cardinality(T) = 1
      BY <2>2, <3>1, Single
    <3>3. QED
      BY <3>1, <3>2
  <2>4. ~Used(f, n)
    BY <1>3, <1>7 DEF Once
  <2>5. UsedAt(n) = {}
    BY <1>6, <2>4 DEF Used
  <2>6. QED
    BY <2>3, <2>5, FS_EmptySet
<1>8. CASE ~Free(n)
  <2>1. Used(f, n)
    BY <1>3, <1>8 DEF Once
  <2>2. PICK l \in Lists : \E i \in 1 .. size[l] : f[l][i] = n
    BY <2>1 DEF Used
  <2>3. PICK i \in 1 .. size[l] : f[l][i] = n
    BY <2>2
  <2>4. ASSUME NEW y \in UsedAt(n) PROVE y = <<l, i>>
    <3>1. PICK m \in Lists : \E j \in 1 .. size[m] : f[m][j] = n /\ y = <<m, j>>
      BY <1>6
    <3>2. PICK j \in 1 .. size[m] : f[m][j] = n /\ y = <<m, j>>
      BY <3>1
    <3>3. m = l /\ j = i
      BY <1>3, <2>3, <3>2 DEF Once
    <3>4. QED
      BY <3>2, <3>3
  <2>5. Cardinality(UsedAt(n)) = 1
    <3>1. PICK T, x : T = UsedAt(n) /\ x = <<l, i>>
      OBVIOUS
    <3>2. x \in T /\ \A y \in T : y = x
      BY <1>5, <2>3, <2>4, <3>1
    <3>3. Cardinality(T) = 1
      BY <3>2, Single
    <3>4. QED
      BY <3>1, <3>3
  <2>6. FreeAt(n) = {}
    BY <1>4, <1>8
  <2>7. QED
    BY <2>5, <2>6, FS_EmptySet
<1>9. QED
  BY <1>7, <1>8

LEMMA Backwards ==
  ASSUME Typed, NEW f, Linked(f)
  PROVE  BackwardsConsistent
<1>1. ASSUME NEW l \in Lists, f[l] = <<>> PROVE head[l] = NULL /\ tail[l] = NULL
  BY <1>1, NodeOf DEF Linked, Ends
<1>2. ASSUME NEW l \in Lists, f[l] # <<>>
      PROVE  /\ tail[l] = f[l][size[l]] /\ prev[head[l]] = NULL
             /\ next[tail[l]] = NULL
             /\ \A i \in 2 .. size[l] : prev[f[l][i]] = f[l][i - 1]
  <2>1. /\ size[l] \in Nat /\ size[l] > 0 /\ head[l] = f[l][1] /\ tail[l] = f[l][size[l]]
    <3>1. f[l] \in Seq(NodeIds) /\ Len(f[l]) = size[l] /\ Ends(f, l) /\ size[l] \in Nat
      BY NodeOf DEF Linked
    <3>2. size[l] # 0
      BY <1>2, <3>1, EmptySeq
    <3>3. QED
      BY <3>1, <3>2 DEF Ends
  <2>2. \A i \in 1 .. size[l] : Links(f, l, i)
    BY DEF Linked
  <2>3. Links(f, l, 1) /\ Links(f, l, size[l])
    BY <2>1, <2>2
  <2>4. ASSUME NEW i \in 2 .. size[l] PROVE prev[f[l][i]] = f[l][i - 1]
    <3>1. i \in 1 .. size[l] /\ i # 1
      BY <2>1
    <3>2. QED
      BY <2>2, <3>1 DEF Links
  <2>5. QED
    BY <2>1, <2>3, <2>4 DEF Links
<1>3. \A l \in Lists : Chain(l) = f[l]
  BY ChainIs
<1>4. QED
  BY <1>1, <1>2, <1>3 DEF BackwardsConsistent

\* The places taken in the lists of queue q; its count is their number.
Places(q) == {pi \in Prio \X (Nat \ {0}) : pi[2] <= size[<<q, pi[1]>>]}
SizeIs(q) == IsFiniteSet(Places(q)) /\ pq_size[q] = Cardinality(Places(q))
SizesKept == pq_size \in [Queues -> Int] /\ \A q \in Queues : SizeIs(q)

LEMMA QueueLists ==
  /\ \A q \in Queues, p \in Prio : <<q, p>> \in Lists
  /\ \A q, r \in Queues, o, p \in Prio : <<q, o>> = <<r, p>> => q = r /\ o = p
  /\ \A q \in Queues, p \in Prio, j \in Plain : <<q, p>> # <<j, 0>>
BY ListAssumption DEF Lists

LEMMA InitSizes == Init => SizesKept
<1> SUFFICES ASSUME Init PROVE SizesKept
  OBVIOUS
<1>1. pq_size \in [Queues -> Int] /\ \A q \in Queues : pq_size[q] = 0
  BY DEF Init
<1>2. ASSUME NEW q \in Queues PROVE Places(q) = {}
  <2>1. \A p \in Prio : size[<<q, p>>] = 0
    BY QueueLists DEF Init
  <2>2. QED
    BY <2>1 DEF Places
<1>3. QED
  BY <1>1, <1>2, FS_EmptySet DEF SizesKept, SizeIs

\* The lists of a queue are as they were.
LEMMA SameSize ==
  ASSUME NEW q \in Queues, SizeIs(q), pq_size'[q] = pq_size[q],
         \A p \in Prio : size'[<<q, p>>] = size[<<q, p>>]
  PROVE  SizeIs(q)'
<1>1. Places(q)' = Places(q)
  BY DEF Places
<1>2. QED
  BY <1>1 DEF SizeIs

\* One list of a queue is a place longer, or shorter.
LEMMA Longer ==
  ASSUME Typed, NEW q \in Queues, NEW p \in Prio, SizeIs(q), pq_size'[q] = pq_size[q] + 1,
         \A o \in Prio : size'[<<q, o>>] = IF o = p THEN size[<<q, o>>] + 1 ELSE size[<<q, o>>]
  PROVE  SizeIs(q)'
<1>1. PICK n \in Nat : n = size[<<q, p>>]
  BY QueueLists DEF Typed
<1>2. \A o \in Prio : size[<<q, o>>] \in Nat
  BY QueueLists DEF Typed
<1>3. \A o \in Prio, i \in Nat \ {0} :
        <<o, i>> \in Places(q)' <=> <<o, i>> \in Places(q) \/ (o = p /\ i = n + 1)
  BY <1>1, <1>2 DEF Places
<1>4. Places(q) \subseteq Prio \X (Nat \ {0}) /\ Places(q)' \subseteq Prio \X (Nat \ {0})
  BY DEF Places
<1>5. Places(q)' = Places(q) \cup {<<p, n + 1>>}
  BY <1>3, <1>4
<1>6. <<p, n + 1>> \notin Places(q)
  BY <1>1 DEF Places
<1>7. QED
  BY <1>5, <1>6, FS_AddElement DEF SizeIs

LEMMA Shorter ==
  ASSUME Typed, NEW q \in Queues, NEW p \in Prio, SizeIs(q), pq_size'[q] = pq_size[q] - 1,
         size[<<q, p>>] # 0,
         \A o \in Prio : size'[<<q, o>>] = IF o = p THEN size[<<q, o>>] - 1 ELSE size[<<q, o>>]
  PROVE  SizeIs(q)'
<1>1. PICK n \in Nat \ {0} : n = size[<<q, p>>]
  BY QueueLists DEF Typed
<1>2. \A o \in Prio : size[<<q, o>>] \in Nat
  BY QueueLists DEF Typed
<1>3. \A o \in Prio, i \in Nat \ {0} :
        <<o, i>> \in Places(q)' <=> <<o, i>> \in Places(q) /\ ~(o = p /\ i = n)
  BY <1>1, <1>2 DEF Places
<1>4. Places(q) \subseteq Prio \X (Nat \ {0}) /\ Places(q)' \subseteq Prio \X (Nat \ {0})
  BY DEF Places
<1>5. Places(q)' = Places(q) \ {<<p, n>>}
  BY <1>3, <1>4
<1>6. <<p, n>> \in Places(q)
  BY <1>1 DEF Places
<1>7. QED
  BY <1>5, <1>6, FS_RemoveElement DEF SizeIs

LEMMA NextSizes == ListsInvariant /\ SizesKept /\ [Next]_vars => SizesKept'
<1> SUFFICES ASSUME ListsInvariant, SizesKept, [Next]_vars PROVE SizesKept'
  OBVIOUS
<1>1. Typed /\ size \in [Lists -> Nat] /\ pq_size \in [Queues -> Int]
  BY DEF ListsInvariant, Typed, SizesKept
<1>2. \A q \in Queues : SizeIs(q)
  BY DEF SizesKept
<1>3. ASSUME size' = size, pq_size' = pq_size PROVE SizesKept'
  BY <1>1, <1>2, <1>3, SameSize DEF SizesKept
<1>4. ASSUME Halt PROVE SizesKept'
  BY <1>3, <1>4 DEF Halt, listVars
<1>5. ASSUME NEW q \in Queues, NEW t \in Tasks, ptask_queue_push(q, t) PROVE SizesKept'
  <2>1. PICK p \in Prio : p = Priority[t]
    BY TaskAssumption DEF Prio
  <2>2. CASE MayPush(<<q, p>>)
    <3>1. /\ size' = [size EXCEPT ![<<q, p>>] = @ + 1]
          /\ pq_size' = [pq_size EXCEPT ![q] = @ + 1]
      BY <1>5, <2>1, <2>2 DEF ptask_queue_push, task_list_push_back
    <3>2. pq_size' \in [Queues -> Int]
      BY <1>1, <3>1
    <3>3. SizeIs(q)'
      <4>1. \A o \in Prio : size'[<<q, o>>] = IF o = p THEN size[<<q, o>>] + 1 ELSE size[<<q, o>>]
        BY <1>1, <3>1, QueueLists
      <4>2. QED
        BY <1>1, <1>2, <3>1, <4>1, Longer
    <3>4. ASSUME NEW r \in Queues, r # q PROVE SizeIs(r)'
      <4>1. \A o \in Prio : size'[<<r, o>>] = size[<<r, o>>]
        BY <1>1, <3>1, <3>4, QueueLists
      <4>2. QED
        BY <1>1, <1>2, <3>1, <3>4, <4>1, SameSize
    <3>5. QED
      BY <3>2, <3>3, <3>4 DEF SizesKept
  <2>3. CASE ~MayPush(<<q, p>>)
    BY <1>4, <1>5, <2>1, <2>3 DEF ptask_queue_push
  <2>4. QED
    BY <2>2, <2>3
<1>6. ASSUME NEW q \in Queues, ptask_queue_pop(q) PROVE SizesKept'
  <2>1. PICK p \in Prio :
          /\ HighestList(q, p)
          /\ IF MayRemove(head[<<q, p>>])
             THEN /\ task_list_remove_node(<<q, p>>, head[<<q, p>>])
                  /\ pq_size' = [pq_size EXCEPT ![q] = @ - 1]
             ELSE Halt
    BY <1>6 DEF ptask_queue_pop
  <2>2. CASE MayRemove(head[<<q, p>>])
    <3>1. /\ size' = [size EXCEPT ![<<q, p>>] = @ - 1]
          /\ pq_size' = [pq_size EXCEPT ![q] = @ - 1]
          /\ size[<<q, p>>] # 0
      BY <2>1, <2>2 DEF task_list_remove_node, HighestList, task_list_empty
    <3>2. pq_size' \in [Queues -> Int]
      BY <1>1, <3>1
    <3>3. SizeIs(q)'
      <4>1. \A o \in Prio : size'[<<q, o>>] = IF o = p THEN size[<<q, o>>] - 1 ELSE size[<<q, o>>]
        BY <1>1, <3>1, QueueLists
      <4>2. QED
        BY <1>1, <1>2, <3>1, <4>1, Shorter
    <3>4. ASSUME NEW r \in Queues, r # q PROVE SizeIs(r)'
      <4>1. \A o \in Prio : size'[<<r, o>>] = size[<<r, o>>]
        BY <1>1, <3>1, <3>4, QueueLists
      <4>2. QED
        BY <1>1, <1>2, <3>1, <3>4, <4>1, SameSize
    <3>5. QED
      BY <3>2, <3>3, <3>4 DEF SizesKept
  <2>3. CASE ~MayRemove(head[<<q, p>>])
    BY <1>4, <2>1, <2>3
  <2>4. QED
    BY <2>2, <2>3
<1>7. ASSUME NEW j \in Plain, NEW k \in Int, size' = [size EXCEPT ![<<j, 0>>] = k],
             pq_size' = pq_size
      PROVE  SizesKept'
  <2>1. \A q \in Queues, p \in Prio : size'[<<q, p>>] = size[<<q, p>>]
    BY <1>1, <1>7, QueueLists
  <2>2. QED
    BY <1>1, <1>2, <1>7, <2>1, SameSize DEF SizesKept
<1>8. ASSUME NEW j \in Plain PROVE size[<<j, 0>>] \in Int
  BY <1>1 DEF Lists
<1>9. ASSUME NEW j \in Plain, NEW t \in Tasks, add_job(j, t) PROVE SizesKept'
  <2>1. CASE MayPush(<<j, 0>>)
    <3>1. PICK k \in Int : k = size[<<j, 0>>] + 1
      BY <1>8
    <3>2. size' = [size EXCEPT ![<<j, 0>>] = k] /\ pq_size' = pq_size
      BY <1>9, <2>1, <3>1 DEF add_job, task_list_push_back
    <3>3. QED
      BY <1>7, <3>2
  <2>2. QED
    BY <1>4, <1>9, <2>1 DEF add_job
<1>10. ASSUME NEW j \in Plain, NEW t \in Tasks, remove_job(j, t) PROVE SizesKept'
  <2>1. CASE MayRemove(job_node[t])
    <3>1. PICK k \in Int : k = size[<<j, 0>>] - 1
      BY <1>8
    <3>2. size' = [size EXCEPT ![<<j, 0>>] = k] /\ pq_size' = pq_size
      BY <1>10, <2>1, <3>1 DEF remove_job, task_list_remove_node
    <3>3. QED
      BY <1>7, <3>2
  <2>2. QED
    BY <1>4, <1>10, <2>1 DEF remove_job
<1>11. CASE UNCHANGED vars
  BY <1>3, <1>11 DEF vars, listVars
<1>12. QED
  BY <1>5, <1>6, <1>9, <1>10, <1>11 DEF Next

LEMMA SizesExact ==
  ASSUME Typed, SizesKept
  PROVE  QueueSizesExact
<1> SUFFICES ASSUME NEW q \in Queues
             PROVE  pq_size[q] = 0 <=> \A p \in Prio : size[<<q, p>>] = 0
  BY DEF QueueSizesExact, ptask_queue_empty, task_list_empty
<1>1. \A p \in Prio : size[<<q, p>>] \in Nat
  BY QueueLists DEF Typed
<1>2. pq_size[q] = 0 <=> Places(q) = {}
  BY FS_EmptySet DEF SizesKept, SizeIs
<1>3. ASSUME Places(q) = {}, NEW p \in Prio PROVE size[<<q, p>>] = 0
  <2>1. <<p, 1>> \notin Places(q)
    BY <1>3
  <2>2. QED
    BY <1>1, <2>1 DEF Places
<1>4. ASSUME \A p \in Prio : size[<<q, p>>] = 0 PROVE Places(q) = {}
  BY <1>4 DEF Places
<1>5. QED
  BY <1>2, <1>3, <1>4

\* Whatever is pushed, popped and removed from the middle, every node is free
\* once or in one list once, every list reads the same in both directions, and
\* a priority queue that counts a task has one (task_queue.c).
THEOREM ListsStayConsistent == Spec => []ListsConsistent
<1>1. ListsInvariant /\ SizesKept => ListsConsistent
  <2> SUFFICES ASSUME ListsInvariant, SizesKept PROVE ListsConsistent
    OBVIOUS
  <2>1. PICK f : Typed /\ Linked(f)
    BY DEF ListsInvariant
  <2>2. NodesAccounted
    BY <2>1, OnePlace DEF NodesAccounted, FreeAt, UsedAt
  <2>3. BackwardsConsistent
    BY <2>1, Backwards
  <2>4. QueueSizesExact
    BY <2>1, SizesExact
  <2>5. QED
    BY <2>2, <2>3, <2>4 DEF ListsConsistent
<1>2. ListsInvariant /\ [Next]_vars => ListsInvariant'
  BY NextLinked
<1>3. ListsInvariant /\ SizesKept /\ [Next]_vars => SizesKept'
  BY NextSizes
<1>4. QED
  BY InitLinked, InitSizes, <1>1, <1>2, <1>3, PTL DEF Spec

-----------------------------------------------------------------------------
(* The lists implement sequences of tasks.                                 *)

\* What TaskLists sees of list l.
Seen(f, l) ==
  /\ Walk(l) \in Seq(Tasks) /\ Len(Walk(l)) = size[l] /\ size[l] \in Nat
  /\ \A i \in 1 .. size[l] : task[f[l][i]] = {Walk(l)[i]}
AllSeen == \A f : Typed /\ Linked(f) => \A l \in Lists : Seen(f, l)

LEMMA Walks == AllSeen
<1> SUFFICES ASSUME NEW f, Typed, Linked(f), NEW l \in Lists PROVE Seen(f, l)
  BY DEF AllSeen
<1>1. /\ f[l] \in Seq(NodeIds) /\ Len(f[l]) = size[l] /\ size[l] \in Nat
      /\ \A i \in 1 .. size[l] : f[l][i] \in NodeIds /\ f[l][i] # NULL
  BY NodeOf
<1>2. Chain(l) = f[l]
  BY ChainIs
<1>3. DOMAIN f[l] = 1 .. size[l]
  BY <1>1
<1>4. Walk(l) = [i \in 1 .. size[l] |-> TaskOf(f[l][i])]
  BY <1>2, <1>3 DEF Walk
<1>5. ASSUME NEW i \in 1 .. size[l]
      PROVE  TaskOf(f[l][i]) \in Tasks /\ task[f[l][i]] = {TaskOf(f[l][i])}
  <2>1. task[f[l][i]] # {} /\ task[f[l][i]] \in TaskPtr /\ f[l][i] # NULL
    BY <1>1 DEF Linked, Links, Typed
  <2>2. \E t \in Tasks : task[f[l][i]] = {t}
    BY <2>1 DEF TaskPtr
  <2>3. QED
    BY <2>1, <2>2 DEF TaskOf
<1>6. Walk(l) \in Seq(Tasks) /\ Len(Walk(l)) = size[l] /\ \A i \in 1 .. size[l] : Walk(l)[i] = TaskOf(f[l][i])
  BY <1>1, <1>4, <1>5
<1>7. QED
  BY <1>1, <1>5, <1>6 DEF Seen

LEMMA WalksNext == AllSeen'
BY Walks, PTL

\* A list whose nodes have the tasks they had is seen as it was.
LEMMA SameWalk ==
  ASSUME NEW l \in Lists, NEW f, NEW g, Seen(f, l), Seen(g, l)', size'[l] = size[l],
         \A i \in 1 .. size[l] : task'[g[l][i]] = task[f[l][i]]
  PROVE  Walk(l)' = Walk(l)
<1>1. PICK v, w : v = Walk(l) /\ w = Walk(l)'
  OBVIOUS
<1>2. /\ v \in Seq(Tasks) /\ Len(v) = size[l] /\ w \in Seq(Tasks) /\ Len(w) = size[l]
  BY <1>1 DEF Seen
<1>3. ASSUME NEW i \in 1 .. size[l] PROVE {v[i]} = {w[i]}
  BY <1>1 DEF Seen
<1>4. ASSUME NEW i \in 1 .. Len(v) PROVE v[i] = w[i]
  BY <1>2, <1>3
<1>5. v = w
  BY <1>2, <1>4, SeqEqual
<1>6. QED
  BY <1>1, <1>5

LEMMA PushMaps ==
  ASSUME Typed, NEW f, Linked(f), NEW l \in Lists, NEW t \in Tasks, Pushed(f, l, t),
         UNCHANGED <<returned, running>>, running
  PROVE  Abstract!PushBack(l, t)
<1>1. PICK g, n :
        /\ g = [f EXCEPT ![l] = Append(f[l], n)] /\ n \in NodeIds
        /\ \A m \in Lists : \A i \in 1 .. size[m] : f[m][i] # n
        /\ \A x \in NodeIds : task'[x] = IF x = n THEN {t} ELSE task[x]
        /\ Len(available_indices) \in Nat \ {0}
        /\ Len(available_indices') = Len(available_indices) - 1
        /\ Typed' /\ Linked(g)'
  BY Zenon DEF Pushed
<1>2. \A m \in Lists : Seen(f, m) /\ Seen(g, m)'
  BY <1>1, Walks, WalksNext DEF AllSeen
<1>3. f \in [Lists -> Seq(NodeIds)] /\ \A m \in Lists : Len(f[m]) = size[m] /\ size[m] \in Nat
  BY DEF Linked, Typed
<1>4. \A m \in Lists : Len(g[m]) = size'[m]
  BY <1>1 DEF Linked
<1>5. /\ \A m \in Lists : m # l => g[m] = f[m]
      /\ g[l] = Append(f[l], n)
  BY <1>1, <1>3
<1>6. /\ Len(Append(f[l], n)) = size[l] + 1
      /\ \A i \in 1 .. size[l] + 1 : Append(f[l], n)[i] = IF i = size[l] + 1 THEN n ELSE f[l][i]
  BY <1>1, <1>3, AppendFacts
<1>7. \A m \in Lists : \A i \in 1 .. size[m] : f[m][i] \in NodeIds
  BY <1>3
<1>8. ASSUME NEW m \in Lists, m # l PROVE Walk(m)' = Walk(m)
  <2>1. size'[m] = size[m] /\ g[m] = f[m]
    BY <1>3, <1>4, <1>5, <1>8
  <2>2. \A i \in 1 .. size[m] : task'[g[m][i]] = task[f[m][i]]
    BY <1>1, <1>7, <2>1
  <2>3. QED
    BY <1>2, <2>1, <2>2, SameWalk
<1>9. Walk(l)' = Append(Walk(l), t)
  <2>1. PICK v, w : v = Walk(l) /\ w = Walk(l)'
    OBVIOUS
  <2>2. /\ v \in Seq(Tasks) /\ Len(v) = size[l] /\ w \in Seq(Tasks) /\ Len(w) = size[l] + 1
    BY <1>2, <1>4, <1>5, <1>6, <2>1 DEF Seen
  <2>3. /\ Append(v, t) \in Seq(Tasks) /\ Len(Append(v, t)) = Len(v) + 1
        /\ \A i \in 1 .. Len(v) + 1 : Append(v, t)[i] = IF i = Len(v) + 1 THEN t ELSE v[i]
    BY <2>2, AppendFacts
  <2>4. size'[l] = size[l] + 1
    BY <1>4, <1>5, <1>6
  <2>5. \A i \in 1 .. size[l] + 1 : task'[g[l][i]] = {w[i]}
    BY <1>2, <2>1, <2>4 DEF Seen
  <2>6. \A i \in 1 .. size[l] : task[f[l][i]] = {v[i]}
    BY <1>2, <2>1 DEF Seen
  <2>7. ASSUME NEW i \in 1 .. Len(v) + 1 PROVE w[i] = Append(v, t)[i]
    <3>1. CASE i = Len(v) + 1
      <4>1. g[l][i] = n /\ i \in 1 .. size[l] + 1
        BY <1>5, <1>6, <2>2, <3>1
      <4>2. {w[i]} = {t}
        BY <1>1, <2>5, <4>1
      <4>3. QED
        BY <2>3, <3>1, <4>2
    <3>2. CASE i # Len(v) + 1
      <4>1. i \in 1 .. size[l] /\ i \in 1 .. size[l] + 1 /\ g[l][i] = f[l][i]
        BY <1>3, <1>5, <1>6, <2>2, <3>2
      <4>2. f[l][i] \in NodeIds /\ f[l][i] # n
        BY <1>1, <1>7, <4>1
      <4>3. {w[i]} = {v[i]}
        BY <1>1, <2>5, <2>6, <4>1, <4>2
      <4>4. QED
        BY <2>3, <3>2, <4>3
    <3>3. QED
      BY <3>1, <3>2
  <2>8. w = Append(v, t)
    <3>1. Len(w) = Len(Append(v, t)) /\ \A i \in 1 .. Len(w) : w[i] = Append(v, t)[i]
      BY <2>2, <2>3, <2>7
    <3>2. QED
      BY <2>2, <2>3, <3>1, SeqEqual
  <2>9. QED
    BY <2>1, <2>8
<1>10. [m \in Lists |-> Walk(m)]' = [[m \in Lists |-> Walk(m)] EXCEPT ![l] = Append(@, t)]
  BY <1>8, <1>9
<1>11. Len(available_indices) > 0
  BY <1>1
<1>12. QED
  BY <1>1, <1>10, <1>11 DEF Abstract!PushBack

LEMMA StopMaps ==
  ASSUME Typed, NEW f, Linked(f), NEW l \in Lists, NEW t \in Tasks, Stopped, running
  PROVE  Abstract!PushBack(l, t)
<1>1. /\ UNCHANGED <<nodeVars, listVars, job_node>> /\ running' = FALSE /\ returned' = returned
      /\ available_indices = <<>> /\ available_indices' = available_indices
      /\ size' = size /\ task' = task
  BY DEF Stopped, Halt, nodeVars, listVars
<1>2. Typed' /\ Linked(f)'
  BY <1>1, StutterLinked
<1>3. \A m \in Lists : Seen(f, m) /\ Seen(f, m)'
  BY <1>2, Walks, WalksNext DEF AllSeen
<1>4. \A m \in Lists : Walk(m)' = Walk(m)
  BY <1>1, <1>3, SameWalk
<1>5. [m \in Lists |-> Walk(m)]' = [m \in Lists |-> Walk(m)]
  BY <1>4
<1>6. Len(available_indices) = 0 /\ ~(Len(available_indices) > 0)
  BY <1>1
<1>7. QED
  BY <1>1, <1>5, <1>6 DEF Abstract!PushBack

LEMMA RemoveMaps ==
  ASSUME Typed, NEW f, Linked(f), NEW l \in Lists, NEW k, Removed(f, l, k),
         running' = running, running
  PROVE  Abstract!TakeOut(l, k) /\ k \in DOMAIN Walk(l)
<1>1. PICK g : /\ g = [f EXCEPT ![l] = RemoveAt(f[l], k)] /\ k \in 1 .. size[l]
               /\ task' = task /\ returned' = task[f[l][k]]
               /\ Len(available_indices') = Len(available_indices) + 1
               /\ Typed' /\ Linked(g)'
  BY Zenon DEF Removed
<1>2. \A m \in Lists : Seen(f, m) /\ Seen(g, m)'
  BY <1>1, Walks, WalksNext DEF AllSeen
<1>3. f \in [Lists -> Seq(NodeIds)] /\ \A m \in Lists : Len(f[m]) = size[m] /\ size[m] \in Nat
  BY DEF Linked, Typed
<1>4. \A m \in Lists : Len(g[m]) = size'[m]
  BY <1>1 DEF Linked
<1>5. (\A m \in Lists : m # l => g[m] = f[m]) /\ g[l] = RemoveAt(f[l], k)
  BY <1>1, <1>3
<1>6. /\ Len(RemoveAt(f[l], k)) = size[l] - 1
      /\ \A i \in 1 .. size[l] - 1 : RemoveAt(f[l], k)[i] = IF i < k THEN f[l][i] ELSE f[l][i + 1]
  <2>1. PICK s \in Seq(NodeIds) : s = f[l] /\ Len(s) = size[l] /\ k \in 1 .. Len(s)
    BY <1>1, <1>3
  <2>2. QED
    BY <2>1, RemoveAtFacts
<1>7. ASSUME NEW m \in Lists, m # l PROVE Walk(m)' = Walk(m)
  <2>1. size'[m] = size[m] /\ g[m] = f[m]
    BY <1>3, <1>4, <1>5, <1>7
  <2>2. \A i \in 1 .. size[m] : task'[g[m][i]] = task[f[m][i]]
    BY <1>1, <2>1
  <2>3. QED
    BY <1>2, <2>1, <2>2, SameWalk
<1>8. PICK v, w : v = Walk(l) /\ w = Walk(l)'
  OBVIOUS
<1>9. v \in Seq(Tasks) /\ Len(v) = size[l] /\ w \in Seq(Tasks) /\ Len(w) = size[l] - 1
  BY <1>2, <1>4, <1>5, <1>6, <1>8 DEF Seen
<1>10. \A i \in 1 .. size[l] : task[f[l][i]] = {v[i]}
  BY <1>2, <1>8 DEF Seen
<1>11. w = RemoveAt(v, k)
  <2>1. k \in 1 .. Len(v)
    BY <1>1, <1>9
  <2>2. /\ RemoveAt(v, k) \in Seq(Tasks) /\ Len(RemoveAt(v, k)) = Len(v) - 1
        /\ \A i \in 1 .. Len(v) - 1 : RemoveAt(v, k)[i] = IF i < k THEN v[i] ELSE v[i + 1]
    BY <1>9, <2>1, RemoveAtFacts
  <2>3. \A i \in 1 .. size[l] - 1 : task[g[l][i]] = {w[i]}
    <3>1. size'[l] = size[l] - 1 /\ task' = task
      BY <1>1, <1>4, <1>5, <1>6
    <3>2. Seen(g, l)'
      BY <1>2
    <3>3. QED
      BY <1>8, <3>1, <3>2 DEF Seen
  <2>4. ASSUME NEW i \in 1 .. Len(v) - 1 PROVE w[i] = RemoveAt(v, k)[i]
    <3>0. i \in 1 .. size[l] - 1 /\ i \in 1 .. size[l] /\ i + 1 \in 1 .. size[l]
      BY <1>3, <1>9
    <3>1. CASE i < k
      <4>1. g[l][i] = f[l][i]
        BY <1>5, <1>6, <3>0, <3>1
      <4>2. {w[i]} = {v[i]}
        BY <1>10, <2>3, <3>0, <4>1
      <4>3. QED
        BY <2>2, <3>1, <4>2
    <3>2. CASE ~(i < k)
      <4>1. g[l][i] = f[l][i + 1]
        BY <1>5, <1>6, <3>0, <3>2
      <4>2. {w[i]} = {v[i + 1]}
        BY <1>10, <2>3, <3>0, <4>1
      <4>3. QED
        BY <2>2, <3>2, <4>2
    <3>3. QED
      BY <3>1, <3>2
  <2>5. QED
    BY <1>9, <2>2, <2>4, SeqEqual
<1>12. [m \in Lists |-> Walk(m)]' = [[m \in Lists |-> Walk(m)] EXCEPT ![l] = Abstract!RemoveAt(@, k)]
  <2>1. Abstract!RemoveAt(v, k) = RemoveAt(v, k)
    BY DEF Abstract!RemoveAt, RemoveAt
  <2>2. [m \in Lists |-> Walk(m)][l] = v
    BY <1>8
  <2>3. QED
    BY <1>7, <1>8, <1>11, <2>1, <2>2
<1>13. k \in DOMAIN Walk(l) /\ returned' = {Walk(l)[k]}
  BY <1>1, <1>8, <1>9, <1>10
<1>14. QED
  BY <1>1, <1>12, <1>13 DEF Abstract!TakeOut

LEMMA InitMaps == Init => Abstract!ListsInit
<1> SUFFICES ASSUME Init PROVE Abstract!ListsInit
  OBVIOUS
<1>1. PICK f : Typed /\ Linked(f)
  BY InitLinked DEF ListsInvariant
<1>2. \A l \in Lists : Seen(f, l) /\ size[l] = 0
  BY <1>1, Walks DEF AllSeen, Init
<1>3. ASSUME NEW l \in Lists PROVE Walk(l) = <<>>
  BY <1>2, EmptySeq DEF Seen
<1>4. Len(available_indices) = MAX_TASK_NUM
  <2>1. available_indices = [i \in 1 .. MAX_TASK_NUM |-> i - 1] /\ MAX_TASK_NUM \in Nat
    BY NodeCount DEF Init
  <2>2. QED
    BY <2>1
<1>5. Abstract!Lists = Lists
  BY DEF Abstract!Lists, Lists
<1>6. [l \in Lists |-> Walk(l)] = [l \in Lists |-> <<>>]
  BY <1>3
<1>7. QED
  BY <1>4, <1>5, <1>6 DEF Abstract!ListsInit, Init

\* The priority queues and jobq built from linked nodes implement sequences of
\* tasks: every push, pop and removal is one of TaskLists, and the kernel is
\* stopped only when a push finds the pool empty.
THEOREM ListsImplementSequences == Spec => ImplementsTaskLists
<1>1. ListsInvariant /\ [Next]_vars => [Abstract!ListsNext]_(Abstract!listsVars)
  <2> SUFFICES ASSUME ListsInvariant, [Next]_vars
               PROVE  Abstract!ListsNext \/ UNCHANGED Abstract!listsVars
    OBVIOUS
  <2>1. PICK f : Typed /\ Linked(f)
    BY DEF ListsInvariant
  <2>2. ASSUME NEW q \in Queues, NEW t \in Tasks, running, ptask_queue_push(q, t)
        PROVE  Abstract!ListsNext
    <3>1. PICK l \in Lists : l = <<q, Priority[t]>>
      BY TheLists
    <3>2. Abstract!PushBack(l, t)
      BY <2>1, <2>2, <3>1, PushStep, PushMaps, StopMaps
    <3>3. QED
      BY <3>1, <3>2 DEF Abstract!ListsNext, Abstract!Push
  <2>3. ASSUME NEW q \in Queues, running, ptask_queue_pop(q) PROVE Abstract!ListsNext
    <3>1. PICK p \in Prio : /\ \A o \in Prio : o > p => size[<<q, o>>] = 0
                            /\ Removed(f, <<q, p>>, 1) /\ running' = running
      BY <2>1, <2>3, PopStep
    <3>2. PICK l \in Lists : l = <<q, p>>
      BY TheLists
    <3>3. Abstract!TakeOut(l, 1)
      <4>1. Removed(f, l, 1) /\ running' = running
        BY <3>1, <3>2
      <4>2. QED
        BY <2>1, <2>3, <4>1, RemoveMaps
    <3>4. ASSUME NEW o \in Prio, o > p PROVE [m \in Lists |-> Walk(m)][<<q, o>>] = <<>>
      <4>1. PICK m \in Lists : m = <<q, o>> /\ size[m] = 0
        BY <3>1, <3>4, TheLists
      <4>2. Seen(f, m)
        BY <2>1, Walks DEF AllSeen
      <4>3. Walk(m) = <<>>
        BY <4>1, <4>2, EmptySeq DEF Seen
      <4>4. QED
        BY <4>1, <4>3
    <3>5. Abstract!Pop(q)
      BY <3>2, <3>3, <3>4 DEF Abstract!Pop
    <3>6. QED
      BY <3>5 DEF Abstract!ListsNext
  <2>4. ASSUME NEW j \in Plain, NEW t \in Tasks, running, add_job(j, t) PROVE Abstract!ListsNext
    <3>1. PICK l \in Lists : l = <<j, 0>>
      BY TheLists
    <3>2. Abstract!PushBack(l, t)
      BY <2>1, <2>4, <3>1, AddStep, PushMaps, StopMaps
    <3>3. QED
      BY <3>1, <3>2 DEF Abstract!ListsNext
  <2>5. ASSUME NEW j \in Plain, NEW t \in Tasks, running, remove_job(j, t) PROVE Abstract!ListsNext
    <3>1. PICK l \in Lists : l = <<j, 0>>
      BY TheLists
    <3>2. PICK k \in 1 .. size[l] : Removed(f, l, k) /\ running' = running
      BY <2>1, <2>5, <3>1, RemoveJobStep
    <3>3. Abstract!TakeOut(l, k) /\ k \in DOMAIN Walk(l)
      BY <2>1, <2>5, <3>2, RemoveMaps
    <3>4. k \in DOMAIN [m \in Lists |-> Walk(m)][l]
      BY <3>3
    <3>5. QED
      BY <3>1, <3>3, <3>4 DEF Abstract!ListsNext
  <2>6. CASE UNCHANGED vars
    <3>1. /\ UNCHANGED <<nodeVars, listVars, job_node>> /\ running' = running /\ returned' = returned
          /\ available_indices' = available_indices /\ size' = size /\ task' = task
      BY <2>6 DEF vars, nodeVars, listVars
    <3>2. Typed' /\ Linked(f)'
      BY <2>1, <3>1, StutterLinked
    <3>3. \A m \in Lists : Seen(f, m) /\ Seen(f, m)'
      BY <2>1, <3>2, Walks, WalksNext DEF AllSeen
    <3>4. \A m \in Lists : Walk(m)' = Walk(m)
      BY <3>1, <3>3, SameWalk
    <3>5. [m \in Lists |-> Walk(m)]' = [m \in Lists |-> Walk(m)]
      BY <3>4
    <3>6. QED
      BY <3>1, <3>5 DEF Abstract!listsVars
  <2>7. QED
    BY <2>2, <2>3, <2>4, <2>5, <2>6 DEF Next
<1>2. QED
  BY <1>1, InitMaps, ListsInvariantHolds, PTL DEF Spec, ImplementsTaskLists, Abstract!ListsSpec
=============================================================================
