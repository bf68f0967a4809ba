------------------------------ MODULE K3Proofs ------------------------------
(***************************************************************************)
(* The booted program is a well-behaved user of the kernel, for any number *)
(* of clients with any priorities, delays and counts, and however often    *)
(* the timer interrupts: it answers only tasks that wait for an answer and *)
(* awaits only the timer.  So all that KernelSafety proves holds for it,   *)
(* and no assertion of the kernel fails.                                   *)
(***************************************************************************)
EXTENDS K3, KernelSafety

-----------------------------------------------------------------------------
(* The invariant.                                                          *)

\* With task states st, buffers bf and delay queue dq: every task whose message
\* somebody holds, in a buffer or in the delay queue, waits for the reply, and
\* only one place holds it.
HeldOnce(st, bf, dq) ==
  /\ \A u \in Tid : bf[u].from # NoTask => st[bf[u].from] = "WATIREPLY"
  /\ \A u, v \in Tid : bf[u].from # NoTask /\ bf[v].from = bf[u].from => u = v
  /\ \A i \in 1 .. Len(dq) :
       /\ st[dq[i].tid] = "WATIREPLY"
       /\ \A u \in Tid : bf[u].from # dq[i].tid
       /\ \A j \in 1 .. Len(dq) : dq[j].tid = dq[i].tid => j = i

Node == [tid : Tid, delay : Nat]

K3TypeOK ==
  /\ DOMAIN function = Tid /\ DOMAIN pc = Tid /\ DOMAIN server = Tid
  /\ ticks \in Nat /\ delay_queue \in Seq(Node)

\* A slot not yet in use is at the start of whatever it will run; there is one
\* first user task, and it creates no more than it has to; the clock server and
\* its notifier do not exit.
Started ==
  /\ \A u \in Tid : u >= task_id_cnt => pc[u] = "start" /\ function[u] = "none"
  /\ \A u \in Tid : function[u] = "k3_first_user_task" => u = FirstTid
  /\ pc[FirstTid] = "create" => created \in 0 .. NClients + 1
  /\ \A u \in Tid : function[u] \in {"clock_server", "clock_server_tick"} => u \in jobq

\* When Receive has returned to the clock server it has a message.
ServerHolds(u) ==
  function[u] = "clock_server" /\ pc[u] = "handle" =>
    \/ state[u] = "WAITRECEIVE"
    \/ state[u] \in {"READY", "RUNNING"} /\ HasMessage(u)

\* The notifier's parent is the clock server it sends to, and what its last call
\* returned is no error.
NotifierServed(u) ==
  function[u] = "clock_server_tick" =>
    /\ parent_tid[u] \in Tid /\ function[parent_tid[u]] = "clock_server"
    /\ pc[u] = "await" => result[u] = parent_tid[u] /\ state[u] \in {"READY", "RUNNING"}
    /\ pc[u] \in {"tick", "again"} => result[u] >= 0 /\ server[u] = parent_tid[u]

K3Invariant ==
  /\ KernelInvariant /\ K3TypeOK /\ Started
  /\ HeldOnce(state, buffer, delay_queue)
  /\ \A u \in Tid : ServerHolds(u) /\ NotifierServed(u)

-----------------------------------------------------------------------------
(* How a step may move what is held.                                       *)

\* The nodes of a delay queue name tasks, and so do the buffers, or nobody.
LEMMA Holders ==
  ASSUME NEW bf \in [Tid -> Message], NEW dq \in Seq(Node)
  PROVE  /\ Len(dq) \in Nat /\ \A i \in 1 .. Len(dq) : dq[i].tid \in Tid
         /\ \A u \in Tid : bf[u].from \in Tid \cup {NoTask}
         /\ NoTask \notin Tid
<1>1. Len(dq) \in Nat /\ \A i \in 1 .. Len(dq) : dq[i] \in Node
  OBVIOUS
<1>2. \A n \in Node : n.tid \in Tid
  BY DEF Node
<1>3. \A u \in Tid : bf[u] \in Message
  OBVIOUS
<1>4. \A m \in Message : m.from \in Tid \cup {NoTask}
  BY DEF Message
<1>5. QED
  BY <1>1, <1>2, <1>3, <1>4, TidFacts

\* Messages are dropped, or nothing happens to them.
LEMMA HeldKept ==
  ASSUME NEW st, NEW st2, NEW bf \in [Tid -> Message], NEW bf2 \in [Tid -> Message],
         NEW dq \in Seq(Node), HeldOnce(st, bf, dq),
         \A u \in Tid : bf2[u].from \in {bf[u].from, NoTask},
         \A s \in Tid : st[s] = "WATIREPLY" => st2[s] = "WATIREPLY"
  PROVE  HeldOnce(st2, bf2, dq)
<1>1. /\ \A i \in 1 .. Len(dq) : dq[i].tid \in Tid
      /\ \A u \in Tid : bf[u].from \in Tid \cup {NoTask}
      /\ NoTask \notin Tid
  BY Holders
<1>2. ASSUME NEW i \in 1 .. Len(dq)
      PROVE  /\ st2[dq[i].tid] = "WATIREPLY"
             /\ \A u \in Tid : bf2[u].from # dq[i].tid
             /\ \A j \in 1 .. Len(dq) : dq[j].tid = dq[i].tid => j = i
  BY <1>1, <1>2 DEF HeldOnce
<1>3. ASSUME NEW u \in Tid, bf2[u].from # NoTask
      PROVE  st2[bf2[u].from] = "WATIREPLY" /\ \A v \in Tid : bf2[v].from = bf2[u].from => u = v
  BY <1>1, <1>3 DEF HeldOnce
<1>4. QED
  BY <1>2, <1>3 DEF HeldOnce

\* Task r is handed the message of s, which begins to wait for the reply.
Handed(st, st2, bf, bf2, r, s) ==
  /\ st[s] # "WATIREPLY" /\ st2[s] = "WATIREPLY" /\ bf2[r].from = s
  /\ \A u \in Tid : u # r => bf2[u].from \in {bf[u].from, NoTask}
  /\ \A u \in Tid : st[u] = "WATIREPLY" => st2[u] = "WATIREPLY"

LEMMA HeldHanded ==
  ASSUME NEW st, NEW st2, NEW bf \in [Tid -> Message], NEW bf2 \in [Tid -> Message],
         NEW dq \in Seq(Node), HeldOnce(st, bf, dq),
         NEW r \in Tid, NEW s \in Tid, Handed(st, st2, bf, bf2, r, s)
  PROVE  HeldOnce(st2, bf2, dq)
<1> USE DEF Handed
<1>1. /\ \A i \in 1 .. Len(dq) : dq[i].tid \in Tid
      /\ \A u \in Tid : bf[u].from \in Tid \cup {NoTask}
      /\ NoTask \notin Tid
  BY Holders
<1>2. (\A u \in Tid : bf[u].from # s) /\ \A i \in 1 .. Len(dq) : dq[i].tid # s
  BY <1>1 DEF HeldOnce
<1>3. ASSUME NEW i \in 1 .. Len(dq)
      PROVE  /\ st2[dq[i].tid] = "WATIREPLY"
             /\ \A u \in Tid : bf2[u].from # dq[i].tid
             /\ \A j \in 1 .. Len(dq) : dq[j].tid = dq[i].tid => j = i
  BY <1>1, <1>2, <1>3 DEF HeldOnce
<1>4. ASSUME NEW u \in Tid, bf2[u].from # NoTask
      PROVE  st2[bf2[u].from] = "WATIREPLY" /\ \A v \in Tid : bf2[v].from = bf2[u].from => u = v
  <2>1. CASE u = r
    BY <1>1, <1>2, <2>1
  <2>2. CASE u # r
    BY <1>1, <1>2, <1>4, <2>2 DEF HeldOnce
  <2>3. QED
    BY <2>1, <2>2
<1>5. QED
  BY <1>3, <1>4 DEF HeldOnce

\* Task s is answered by whoever holds its message, and holds none itself.
Answered(st, st2, bf, bf2, s) ==
  /\ \A u \in Tid : bf2[u].from \in {bf[u].from, NoTask} /\ bf2[u].from # s
  /\ \A u \in Tid : u # s => st2[u] = st[u]

NotDelayed(dq, s) == \A i \in 1 .. Len(dq) : dq[i].tid # s

LEMMA HeldAnswered ==
  ASSUME NEW st, NEW st2, NEW bf \in [Tid -> Message], NEW bf2 \in [Tid -> Message],
         NEW dq \in Seq(Node), HeldOnce(st, bf, dq),
         NEW s \in Tid, NotDelayed(dq, s), Answered(st, st2, bf, bf2, s)
  PROVE  HeldOnce(st2, bf2, dq)
<1> USE DEF Answered, NotDelayed
<1>1. /\ \A i \in 1 .. Len(dq) : dq[i].tid \in Tid
      /\ \A u \in Tid : bf[u].from \in Tid \cup {NoTask}
      /\ NoTask \notin Tid
  BY Holders
<1>2. ASSUME NEW i \in 1 .. Len(dq)
      PROVE  /\ st2[dq[i].tid] = "WATIREPLY"
             /\ \A u \in Tid : bf2[u].from # dq[i].tid
             /\ \A j \in 1 .. Len(dq) : dq[j].tid = dq[i].tid => j = i
  BY <1>1, <1>2 DEF HeldOnce
<1>3. ASSUME NEW u \in Tid, bf2[u].from # NoTask
      PROVE  st2[bf2[u].from] = "WATIREPLY" /\ \A v \in Tid : bf2[v].from = bf2[u].from => u = v
  BY <1>1, <1>3 DEF HeldOnce
<1>4. QED
  BY <1>2, <1>3 DEF HeldOnce

\* The delay queue without its head.
LEMMA HeldPopped ==
  ASSUME NEW st, NEW bf \in [Tid -> Message], NEW dq \in Seq(Node), dq # <<>>,
         HeldOnce(st, bf, dq)
  PROVE  /\ Tail(dq) \in Seq(Node) /\ HeldOnce(st, bf, Tail(dq))
         /\ dq[1].tid \in Tid /\ st[dq[1].tid] = "WATIREPLY"
         /\ \A u \in Tid : bf[u].from # dq[1].tid
         /\ NotDelayed(Tail(dq), dq[1].tid)
<1>1. /\ Tail(dq) \in Seq(Node) /\ Len(dq) \in Nat /\ Len(dq) >= 1 /\ Len(Tail(dq)) = Len(dq) - 1
      /\ \A i \in 1 .. Len(dq) - 1 : Tail(dq)[i] = dq[i + 1]
  OBVIOUS
<1>2. dq[1].tid \in Tid /\ st[dq[1].tid] = "WATIREPLY" /\ \A u \in Tid : bf[u].from # dq[1].tid
  BY <1>1, Holders DEF HeldOnce
<1>3. ASSUME NEW i \in 1 .. Len(dq) - 1
      PROVE  /\ st[Tail(dq)[i].tid] = "WATIREPLY" /\ Tail(dq)[i].tid # dq[1].tid
             /\ \A u \in Tid : bf[u].from # Tail(dq)[i].tid
             /\ \A j \in 1 .. Len(dq) - 1 : Tail(dq)[j].tid = Tail(dq)[i].tid => j = i
  <2>1. i + 1 \in 1 .. Len(dq) /\ 1 \in 1 .. Len(dq) /\ i + 1 # 1
    BY <1>1
  <2>2. /\ st[dq[i + 1].tid] = "WATIREPLY" /\ dq[i + 1].tid # dq[1].tid
        /\ \A u \in Tid : bf[u].from # dq[i + 1].tid
        /\ \A j \in 1 .. Len(dq) : dq[j].tid = dq[i + 1].tid => j = i + 1
    BY <2>1 DEF HeldOnce
  <2>3. ASSUME NEW j \in 1 .. Len(dq) - 1, Tail(dq)[j].tid = Tail(dq)[i].tid PROVE j = i
    <3>1. j + 1 \in 1 .. Len(dq) /\ dq[j + 1].tid = dq[i + 1].tid
      BY <1>1, <2>3
    <3>2. j + 1 = i + 1
      BY <2>2, <3>1
    <3>3. QED
      BY <3>2
  <2>4. QED
    BY <1>1, <2>2, <2>3
<1>4. QED
  BY <1>1, <1>2, <1>3 DEF HeldOnce, NotDelayed

\* delay_queue_add puts the node somewhere and keeps the others in order.
AddedAt(r, q, node, k) ==
  /\ r \in Seq(Node) /\ Len(r) = Len(q) + 1 /\ r[k + 1] = node
  /\ \A i \in 1 .. k : r[i] = q[i]
  /\ \A i \in k + 2 .. Len(q) + 1 : r[i] = q[i - 1]

LEMMA DelayAdded ==
  ASSUME NEW q \in Seq(Node), NEW node \in Node
  PROVE  \E k \in 0 .. Len(q) : AddedAt(delay_queue_add(q, node), q, node, k)
<1> DEFINE S == {i \in DOMAIN q : \A j \in 1 .. i : q[j].delay <= node.delay}
           k == Cardinality(S)
           a == SubSeq(q, 1, k)
           b == SubSeq(q, k + 1, Len(q))
<1>1. Len(q) \in Nat /\ DOMAIN q = 1 .. Len(q)
  OBVIOUS
<1>2. k \in 0 .. Len(q)
  <2>1. IsFiniteSet(1 .. Len(q)) /\ Cardinality(1 .. Len(q)) = Len(q)
    BY <1>1, FS_Interval
  <2>2. S \subseteq 1 .. Len(q)
    BY <1>1
  <2>3. IsFiniteSet(S) /\ Cardinality(S) <= Len(q)
    BY <2>1, <2>2, FS_Subset
  <2>4. Cardinality(S) \in Nat
    BY <2>3, FS_CardinalityType
  <2> HIDE DEF S
  <2>5. QED
    BY <1>1, <2>3, <2>4
<1> HIDE DEF k
<1>3. delay_queue_add(q, node) = a \o <<node>> \o b
  BY DEF delay_queue_add, k
<1>4. /\ a \in Seq(Node) /\ Len(a) = k /\ \A i \in 1 .. k : a[i] = q[i]
      /\ b \in Seq(Node) /\ Len(b) = Len(q) - k
      /\ \A i \in 1 .. Len(q) - k : b[i] = q[k + i]
  <2>1. 1 \in Int /\ k \in Int /\ \A i \in 1 .. k : q[i] \in Node
    BY <1>1, <1>2
  <2>2. /\ a \in Seq(Node) /\ Len(a) = k /\ \A i \in 1 .. k : a[i] = q[i]
    BY <1>1, <1>2, <2>1, SubSeqProperties
  <2>3. /\ k + 1 \in Int /\ Len(q) \in Int
        /\ \A i \in k + 1 .. Len(q) : q[i] \in Node
    BY <1>1, <1>2
  <2>4. /\ b \in Seq(Node) /\ Len(b) = IF k + 1 <= Len(q) THEN Len(q) - (k + 1) + 1 ELSE 0
        /\ \A i \in 1 .. Len(q) - (k + 1) + 1 : b[i] = q[(k + 1) + i - 1]
    BY <2>3, SubSeqProperties
  <2> HIDE DEF a, b
  <2>5. Len(b) = Len(q) - k
    <3>1. k \in Nat /\ Len(q) \in Nat /\ k <= Len(q)
      BY <1>1, <1>2
    <3>2. CASE k = Len(q)
      BY <2>4, <3>1, <3>2
    <3>3. CASE k < Len(q)
      BY <2>4, <3>1, <3>3
    <3>4. QED
      BY <3>1, <3>2, <3>3
  <2>6. ASSUME NEW i \in 1 .. Len(q) - k PROVE b[i] = q[k + i]
    <3>1. i \in 1 .. Len(q) - (k + 1) + 1 /\ (k + 1) + i - 1 = k + i
      BY <1>1, <1>2
    <3>2. QED
      BY <2>4, <3>1
  <2>7. QED
    BY <2>2, <2>4, <2>5, <2>6
<1> HIDE DEF a, b
<1> DEFINE c == a \o <<node>>
           r == c \o b
<1>5. c \in Seq(Node) /\ Len(c) = k + 1 /\ c[k + 1] = node /\ \A i \in 1 .. k : c[i] = q[i]
  BY <1>2, <1>4
<1> HIDE DEF c
<1>6. /\ r \in Seq(Node) /\ Len(r) = Len(q) + 1 /\ \A i \in 1 .. k + 1 : r[i] = c[i]
      /\ \A i \in k + 2 .. Len(q) + 1 : r[i] = b[i - (k + 1)]
  BY <1>1, <1>2, <1>4, <1>5
<1> HIDE DEF r
<1>7. r[k + 1] = node /\ \A i \in 1 .. k : r[i] = q[i]
  BY <1>2, <1>5, <1>6
<1>8. ASSUME NEW i \in k + 2 .. Len(q) + 1 PROVE r[i] = q[i - 1]
  <2>1. i - (k + 1) \in 1 .. Len(q) - k /\ k + (i - (k + 1)) = i - 1
    BY <1>1, <1>2
  <2>2. QED
    BY <1>4, <1>6, <2>1
<1>9. AddedAt(r, q, node, k)
  BY <1>6, <1>7, <1>8 DEF AddedAt
<1>10. r = delay_queue_add(q, node)
  BY <1>3 DEF r, c
<1>11. QED
  BY <1>2, <1>9, <1>10

\* The message task t holds moves from its buffer into the delay queue.
LEMMA HeldQueued ==
  ASSUME NEW st, NEW bf \in [Tid -> Message], NEW dq \in Seq(Node), NEW t \in Tid,
         HeldOnce(st, bf, dq), bf[t].from # NoTask,
         NEW node \in Node, node.tid = bf[t].from
  PROVE  /\ delay_queue_add(dq, node) \in Seq(Node)
         /\ [bf EXCEPT ![t] = NoMessage] \in [Tid -> Message]
         /\ HeldOnce(st, [bf EXCEPT ![t] = NoMessage], delay_queue_add(dq, node))
<1> DEFINE dq2 == delay_queue_add(dq, node)
           bf2 == [bf EXCEPT ![t] = NoMessage]
<1>1. PICK k \in 0 .. Len(dq) : AddedAt(dq2, dq, node, k)
  BY DelayAdded
<1> HIDE DEF dq2
<1>2. /\ \A i \in 1 .. Len(dq) : dq[i].tid \in Tid
      /\ \A u \in Tid : bf[u].from \in Tid \cup {NoTask}
      /\ NoTask \notin Tid /\ Len(dq) \in Nat
  BY Holders
<1>3. /\ bf2 \in [Tid -> Message] /\ bf2[t].from = NoTask
      /\ \A u \in Tid : u # t => bf2[u] = bf[u]
  BY ArgTypes DEF NoMessage
<1> HIDE DEF bf2
<1>4. \A i \in 1 .. Len(dq) : dq[i].tid # node.tid
  BY DEF HeldOnce
<1>5. ASSUME NEW i \in 1 .. Len(dq2)
      PROVE  \/ i = k + 1 /\ dq2[i] = node
             \/ i < k + 1 /\ i \in 1 .. Len(dq) /\ dq2[i] = dq[i]
             \/ i > k + 1 /\ i - 1 \in 1 .. Len(dq) /\ dq2[i] = dq[i - 1]
  <2>1. Len(dq2) = Len(dq) + 1
    BY <1>1 DEF AddedAt
  <2>2. CASE i = k + 1
    BY <1>1, <2>2 DEF AddedAt
  <2>3. CASE i < k + 1
    <3>1. i \in 1 .. k /\ i \in 1 .. Len(dq)
      BY <1>2, <2>1, <2>3
    <3>2. QED
      BY <1>1, <2>3, <3>1 DEF AddedAt
  <2>4. CASE i > k + 1
    <3>1. i \in k + 2 .. Len(dq) + 1 /\ i - 1 \in 1 .. Len(dq)
      BY <1>2, <2>1, <2>4
    <3>2. QED
      BY <1>1, <2>4, <3>1 DEF AddedAt
  <2>5. QED
    BY <1>2, <2>1, <2>2, <2>3, <2>4
<1>6. ASSUME NEW i \in 1 .. Len(dq2)
      PROVE  st[dq2[i].tid] = "WATIREPLY" /\ \A u \in Tid : bf2[u].from # dq2[i].tid
  <2>1. CASE dq2[i] = node
    BY <1>2, <1>3, <2>1 DEF HeldOnce
  <2>2. ASSUME NEW j \in 1 .. Len(dq), dq2[i] = dq[j]
        PROVE  st[dq2[i].tid] = "WATIREPLY" /\ \A u \in Tid : bf2[u].from # dq2[i].tid
    BY <1>2, <1>3, <2>2 DEF HeldOnce
  <2>3. QED
    BY <1>5, <2>1, <2>2
<1>7. ASSUME NEW i \in 1 .. Len(dq2), NEW j \in 1 .. Len(dq2), dq2[j].tid = dq2[i].tid
      PROVE  j = i
  <2>1. \A m, n \in 1 .. Len(dq) : dq[m].tid = dq[n].tid => m = n
    BY DEF HeldOnce
  <2>2. /\ i = k + 1 <=> dq2[i].tid = node.tid
        /\ j = k + 1 <=> dq2[j].tid = node.tid
    <3>1. ASSUME NEW h \in 1 .. Len(dq2) PROVE h = k + 1 <=> dq2[h].tid = node.tid
      <4>1. CASE h = k + 1
        BY <1>5, <4>1
      <4>2. CASE h # k + 1
        BY <1>4, <1>5, <4>2
      <4>3. QED
        BY <4>1, <4>2
    <3>2. QED
      BY <3>1
  <2>3. CASE i = k + 1
    BY <1>7, <2>2, <2>3
  <2>4. CASE i < k + 1 /\ j < k + 1
    BY <1>5, <1>7, <2>1, <2>4
  <2>5. CASE i > k + 1 /\ j > k + 1
    <3>1. /\ i - 1 \in 1 .. Len(dq) /\ dq2[i] = dq[i - 1]
          /\ j - 1 \in 1 .. Len(dq) /\ dq2[j] = dq[j - 1]
      BY <1>2, <1>5, <2>5
    <3>2. QED
      BY <1>7, <2>1, <2>5, <3>1
  <2>6. CASE i < k + 1 /\ j > k + 1
    <3>1. i = j - 1
      BY <1>5, <1>7, <2>1, <2>6
    <3>2. QED
      BY <2>6, <3>1
  <2>7. CASE i > k + 1 /\ j < k + 1
    <3>1. /\ i - 1 \in 1 .. Len(dq) /\ dq2[i] = dq[i - 1]
          /\ j \in 1 .. Len(dq) /\ dq2[j] = dq[j]
      BY <1>2, <1>5, <2>7
    <3>2. QED
      BY <1>7, <2>1, <2>7, <3>1
  <2>8. QED
    BY <1>2, <1>7, <2>2, <2>3, <2>4, <2>5, <2>6, <2>7
<1>8. ASSUME NEW u \in Tid, bf2[u].from # NoTask
      PROVE  st[bf2[u].from] = "WATIREPLY" /\ \A v \in Tid : bf2[v].from = bf2[u].from => u = v
  BY <1>3, <1>8 DEF HeldOnce
<1>9. HeldOnce(st, bf2, dq2)
  BY <1>6, <1>7, <1>8 DEF HeldOnce
<1>10. dq2 \in Seq(Node)
  BY <1>1 DEF AddedAt
<1>11. QED
  BY <1>3, <1>9, <1>10 DEF bf2, dq2

-----------------------------------------------------------------------------
(* What a system call does to the other tasks, and to its caller.          *)

Same(u) == /\ state'[u] = state[u] /\ buffer'[u] = buffer[u] /\ result'[u] = result[u]
           /\ parent_tid'[u] = parent_tid[u]

\* The caller t loses what its last call delivered, and blocks in state v.
Parks(t, v) ==
  /\ \A u \in Tid : u # t => Same(u)
  /\ state'[t] = v /\ buffer'[t] = NoMessage /\ result'[t] = result[t]
  /\ parent_tid'[t] = parent_tid[t]
  /\ UNCHANGED <<task_id_cnt, jobq>>

\* A call that only returns something.
Returns(t) ==
  /\ \A u \in Tid : u # t => Same(u)
  /\ state'[t] = state[t] /\ buffer'[t] = NoMessage /\ parent_tid'[t] = parent_tid[t]
  /\ UNCHANGED <<task_id_cnt, jobq>>

\* t hands its message to r, which waits for one.
Hands(t, r) ==
  /\ \A u \in Tid : u \notin {t, r} => Same(u)
  /\ r # t /\ state[r] = "WAITRECEIVE" /\ state'[r] = "READY" /\ buffer'[r].from = t
  /\ result'[r] >= 0 /\ parent_tid'[r] = parent_tid[r]
  /\ state'[t] = "WATIREPLY" /\ buffer'[t] = NoMessage /\ result'[t] = result[t]
  /\ parent_tid'[t] = parent_tid[t]
  /\ UNCHANGED <<task_id_cnt, jobq>>

\* t takes the message of s, which has waited in its queue.
Takes(t, s) ==
  /\ \A u \in Tid : u \notin {t, s} => Same(u)
  /\ s # t /\ state[s] = "WATISEND" /\ state'[s] = "WATIREPLY" /\ buffer'[s] = buffer[s]
  /\ result'[s] = result[s] /\ parent_tid'[s] = parent_tid[s]
  /\ state'[t] = "RUNNING" /\ buffer'[t].from = s /\ parent_tid'[t] = parent_tid[t]
  /\ UNCHANGED <<task_id_cnt, jobq>>

\* t answers s.
Answers(t, s) ==
  /\ \A u \in Tid : u \notin {t, s} => Same(u)
  /\ s # t /\ state[s] = "WATIREPLY" /\ state'[s] = "READY" /\ buffer'[s].from = NoTask
  /\ result'[s] >= 0 /\ parent_tid'[s] = parent_tid[s]
  /\ state'[t] = "RUNNING" /\ buffer'[t] = NoMessage /\ parent_tid'[t] = parent_tid[t]
  /\ UNCHANGED <<task_id_cnt, jobq>>

\* t creates the task n.
Creates(t, n) ==
  /\ \A u \in Tid : u \notin {t, n} => Same(u)
  /\ n = task_id_cnt /\ n \in Tid /\ n # t
  /\ state'[n] = "READY" /\ buffer'[n] = buffer[n] /\ parent_tid'[n] = t
  /\ state'[t] = "RUNNING" /\ buffer'[t] = NoMessage /\ parent_tid'[t] = parent_tid[t]
  /\ task_id_cnt' = n + 1 /\ jobq' = jobq \cup {n}

Leaves(t) ==
  /\ \A u \in Tid : u # t => Same(u)
  /\ state[t] = "RUNNING" /\ buffer'[t] = NoMessage
  /\ task_id_cnt' = task_id_cnt /\ jobq' = jobq \ {t}

\* An interrupt or a context switch.
Switches ==
  /\ \A u \in Tid :
       \/ state'[u] = state[u]
       \/ /\ state[u] \in {"READY", "RUNNING", "AWATIEVENT"}
          /\ state'[u] \in {"READY", "RUNNING"}
  /\ UNCHANGED <<task_id_cnt, jobq, buffer, result, parent_tid>>

LEMMA NoFault == KernelInvariant' => ~Halt /\ ~Wild
BY DEF KernelInvariant, NoAssertionFailure, Halt, Wild

LEMMA Caller ==
  ASSUME KernelInvariant, NEW t \in Tid, mode = "user", current_task = t
  PROVE  /\ state[t] = "RUNNING" /\ t \in jobq /\ t < task_id_cnt
         /\ state \in [Tid -> TaskState] /\ buffer \in [Tid -> Message]
         /\ result \in [Tid -> Int] /\ parent_tid \in [Tid -> Tid \cup {NoTask}]
         /\ args \in [Tid -> Args] /\ jobq \subseteq Tid /\ task_id_cnt \in Nat
<1>1. TypeOK /\ LiveTasksExact
  BY DEF KernelInvariant
<1>2. state[t] = "RUNNING" /\ t \in jobq
  BY Running
<1>3. task_id_cnt \in Nat /\ jobq \subseteq Tid /\ t < task_id_cnt
  <2>1. task_id_cnt \in Nat /\ task_id_cnt <= TASK_POOL_SIZE /\ jobq \subseteq 0 .. task_id_cnt - 1
    BY <1>1, PoolAssumption DEF TypeOK
  <2>2. QED
    BY <1>2, <2>1, PoolAssumption DEF Tid
<1>4. QED
  BY <1>1, <1>2, <1>3 DEF TypeOK

LEMMA QuietReturns ==
  ASSUME KernelInvariant, NEW t \in Tid,
         \/ sys_tid(t) \/ sys_parent_tid(t) \/ sys_yield(t)
         \/ sys_send_unknown(t) \/ sys_reply_unknown(t)
  PROVE  Returns(t) /\ (sys_parent_tid(t) => result'[t] = parent_tid[t])
<1>1. mode = "user" /\ current_task = t
  BY DEF sys_tid, sys_parent_tid, sys_yield, sys_send_unknown, sys_reply_unknown, Query, Trap
<1>2. /\ SvcUser(t, NoArgs) /\ UNCHANGED <<task_id_cnt, jobq, state, parent_tid>>
      /\ (UNCHANGED result \/ \E v : result' = [result EXCEPT ![t] = v])
  BY DEF sys_tid, sys_parent_tid, sys_yield, sys_send_unknown, sys_reply_unknown, Query,
         assign_result, taskVars
<1>3. Returns(t)
  BY <1>1, <1>2, Caller DEF Returns, Same, SvcUser
<1>4. sys_parent_tid(t) => result'[t] = parent_tid[t]
  BY <1>1, Caller DEF sys_parent_tid, Query, assign_result
<1>5. QED
  BY <1>3, <1>4

LEMMA ExitLeaves ==
  ASSUME KernelInvariant, NEW t \in Tid, sys_exit(t)
  PROVE  Leaves(t)
<1>1. mode = "user" /\ current_task = t
  BY DEF sys_exit, Trap
<1>2. QED
  BY <1>1, Caller DEF sys_exit, task_init, Leaves, Same

LEMMA AwaitParks ==
  ASSUME KernelInvariant, KernelInvariant', NEW t \in Tid, sys_await_event(t)
  PROVE  Parks(t, "AWATIEVENT")
<1>1. mode = "user" /\ current_task = t
  BY DEF sys_await_event, Trap
<1>2. /\ state' = [state EXCEPT ![t] = "AWATIEVENT"] /\ SvcUser(t, NoArgs)
      /\ UNCHANGED <<task_id_cnt, jobq, parent_tid, result>>
  BY NoFault DEF sys_await_event
<1>3. QED
  BY <1>1, <1>2, Caller DEF Parks, Same, SvcUser

LEMMA SendHands ==
  ASSUME KernelInvariant, KernelInvariant', NEW t \in Tid, sys_send_deliver(t)
  PROVE  \E r \in Tid : Hands(t, r)
<1>1. mode = "user" /\ current_task = t
  BY DEF sys_send_deliver, Trap
<1>2. PICK r \in jobq, m \in Payload, ln \in SendLens :
        /\ state[r] = "WAITRECEIVE"
        /\ buffer' = [buffer EXCEPT ![t] = NoMessage,
                        ![r] = [from |-> t, msg |-> m,
                                len |-> copy_message(ln.msg, args[r].msg_len)]]
        /\ result' = [result EXCEPT ![r] = copy_message(ln.msg, args[r].msg_len)]
        /\ state' = [state EXCEPT ![r] = "READY", ![t] = "WATIREPLY"]
        /\ UNCHANGED <<task_id_cnt, jobq, parent_tid>>
  BY NoFault DEF sys_send_deliver, assign_result
<1>3. copy_message(ln.msg, args[r].msg_len) >= 0
  <2>1. ln.msg \in Nat /\ args[r].msg_len \in Nat
    BY <1>1, Caller, InputAssumption DEF Args
  <2>2. QED
    BY <2>1 DEF copy_message
<1>4. Hands(t, r)
  BY <1>1, <1>2, <1>3, Caller DEF Hands, Same
<1>5. QED
  BY <1>1, <1>4, Caller

LEMMA SendParks ==
  ASSUME KernelInvariant, KernelInvariant', NEW t \in Tid, sys_send_queue(t)
  PROVE  Parks(t, "WATISEND")
<1>1. mode = "user" /\ current_task = t /\ t # IdleTid
  BY DEF sys_send_queue, Trap
<1>2. \A r \in jobq : ~queue_is_full(senders[r])
  BY <1>1, RoomInSenders DEF SenderQueueHasRoom
<1>3. \E a : /\ state' = [state EXCEPT ![t] = "WATISEND"] /\ SvcUser(t, a)
             /\ UNCHANGED <<task_id_cnt, jobq, parent_tid, result>>
  BY <1>2 DEF sys_send_queue
<1>4. QED
  BY <1>1, <1>3, Caller DEF Parks, Same, SvcUser

LEMMA ReceiveParksOrTakes ==
  ASSUME KernelInvariant, KernelInvariant', NEW t \in Tid, Receive(t)
  PROVE  Parks(t, "WAITRECEIVE") \/ \E s \in Tid : Takes(t, s)
<1>1. mode = "user" /\ current_task = t
  BY DEF Receive, sys_receive_block, sys_receive_unknown, sys_receive_deliver, Trap
<1>2. CASE sys_receive_block(t)
  <2>1. \E a : /\ state' = [state EXCEPT ![t] = "WAITRECEIVE"] /\ SvcUser(t, a)
               /\ UNCHANGED <<task_id_cnt, jobq, parent_tid, result>>
    BY <1>2 DEF sys_receive_block
  <2>2. QED
    BY <1>1, <2>1, Caller DEF Parks, Same, SvcUser
<1>3. ~sys_receive_unknown(t)
  BY HeadOfSenders DEF sys_receive_unknown
<1>4. CASE sys_receive_deliver(t)
  <2>1. senders[t] # <<>>
    BY <1>4 DEF sys_receive_deliver
  <2>2. PICK s : s = Head(senders[t])
    OBVIOUS
  <2>3. s \in Tid /\ state[s] = "WATISEND" /\ s # t
    BY <1>1, <2>1, <2>2, HeadOfSenders, Caller
  <2>4. /\ \E m, l : buffer' = [buffer EXCEPT ![t] = [from |-> s, msg |-> m, len |-> l]]
        /\ \E v : result' = [result EXCEPT ![t] = v]
        /\ state' = [state EXCEPT ![s] = "WATIREPLY"]
        /\ UNCHANGED <<task_id_cnt, jobq, parent_tid>>
    <3>1. ~Halt /\ ~Wild
      BY NoFault
    <3>2. PICK l \in Lens :
            /\ buffer' = [buffer EXCEPT ![t] =
                            [from |-> s, msg |-> args[s].msg,
                             len |-> copy_message(args[s].msg_len, l)]]
            /\ result' = [result EXCEPT ![t] = copy_message(args[s].msg_len, l)]
            /\ state' = [state EXCEPT ![s] = "WATIREPLY"]
            /\ UNCHANGED <<task_id_cnt, jobq, parent_tid>>
      BY <1>4, <2>2, <2>3, <3>1 DEF sys_receive_deliver, assign_result
    <3>3. QED
      BY <3>2
  <2>5. Takes(t, s)
    BY <1>1, <2>3, <2>4, Caller DEF Takes, Same
  <2>6. QED
    BY <2>3, <2>5
<1>5. QED
  BY <1>2, <1>3, <1>4 DEF Receive

LEMMA ReplyAnswers ==
  ASSUME KernelInvariant, KernelInvariant', NEW t \in Tid, mode = "user", current_task = t,
         NEW s \in Tid, state[s] = "WATIREPLY", NEW m, reply_to(t, s, m)
  PROVE  Answers(t, s)
<1>1. PICK l \in Lens :
        /\ buffer' = [buffer EXCEPT ![t] = NoMessage,
                        ![s] = [from |-> NoTask, msg |-> m,
                                len |-> copy_message(l, args[s].reply_len)]]
        /\ result' = [result EXCEPT ![s] = copy_message(l, args[s].reply_len),
                                    ![t] = copy_message(l, args[s].reply_len)]
        /\ state' = [state EXCEPT ![s] = "READY"]
        /\ UNCHANGED <<task_id_cnt, jobq, parent_tid>>
  BY NoFault DEF reply_to
<1>2. copy_message(l, args[s].reply_len) >= 0
  <2>1. l \in Nat /\ args[s].reply_len \in Nat
    BY Caller, InputAssumption DEF Args
  <2>2. QED
    BY <2>1 DEF copy_message
<1>3. s # t /\ state[t] = "RUNNING"
  BY Caller
<1>4. QED
  BY <1>1, <1>2, <1>3, Caller DEF Answers, Same

LEMMA CreateReturnsOrCreates ==
  ASSUME KernelInvariant, KernelInvariant', NEW t \in Tid, sys_create(t)
  PROVE  \/ Returns(t) /\ task_id_cnt \notin Tid
         \/ Creates(t, task_id_cnt)
<1>1. mode = "user" /\ current_task = t
  BY DEF sys_create, Trap
<1>2. CASE task_id_cnt = TASK_POOL_SIZE
  <2>1. /\ SvcUser(t, NoArgs) /\ result' = [result EXCEPT ![t] = -1]
        /\ UNCHANGED <<task_id_cnt, jobq, state, parent_tid>>
    BY <1>2 DEF sys_create, assign_result
  <2>2. Returns(t)
    BY <1>1, <2>1, Caller DEF Returns, Same, SvcUser
  <2>3. task_id_cnt \notin Tid
    BY <1>2, PoolAssumption DEF Tid
  <2>4. QED
    BY <2>2, <2>3
<1>3. CASE task_id_cnt # TASK_POOL_SIZE
  <2>1. PICK n : n = task_id_cnt
    OBVIOUS
  <2>2. /\ SvcUser(t, NoArgs) /\ result' = [result EXCEPT ![t] = n]
        /\ task_id_cnt' = n + 1 /\ jobq' = jobq \cup {n}
        /\ state' = [state EXCEPT ![n] = "READY"]
        /\ parent_tid' = [parent_tid EXCEPT ![n] = t]
    BY <1>3, <2>1, NoFault DEF sys_create, create_task, assign_result
  <2>3. n \in Tid /\ n # t
    <3>1. t < n /\ n \in Nat
      BY <1>1, <2>1, Caller
    <3>2. n <= TASK_POOL_SIZE
      BY <2>1, PoolAssumption DEF KernelInvariant, TypeOK
    <3>3. QED
      BY <1>3, <2>1, <3>1, <3>2, PoolAssumption DEF Tid
  <2>4. Creates(t, n)
    BY <1>1, <2>1, <2>2, <2>3, Caller DEF Creates, Same, SvcUser
  <2>5. QED
    BY <2>1, <2>4
<1>4. QED
  BY <1>2, <1>3

LEMMA IrqSwitches ==
  ASSUME KernelInvariant, KernelInvariant', handle_irq
  PROVE  Switches
<1>1. mode = "user"
  BY DEF handle_irq
<1>2. state \in [Tid -> TaskState]
  BY DEF KernelInvariant, TypeOK
<1>3. CASE ptask_queue_empty(irqq[WAIT_TIMER_1])
  BY <1>3 DEF handle_irq, Interrupted, taskVars, Switches
<1>4. CASE ~ptask_queue_empty(irqq[WAIT_TIMER_1])
  <2>1. \E u : /\ state[u] = "AWATIEVENT" /\ state' = [state EXCEPT ![u] = "READY"]
               /\ UNCHANGED <<task_id_cnt, jobq, buffer, result, parent_tid>>
    BY <1>4, NoFault DEF handle_irq, Interrupted
  <2>2. QED
    BY <1>2, <2>1 DEF Switches
<1>5. QED
  BY <1>3, <1>4

LEMMA ScheduleSwitches ==
  ASSUME KernelInvariant, KernelInvariant', schedule
  PROVE  Switches
<1>1. mode = "kernel" /\ state \in [Tid -> TaskState]
  BY DEF schedule, KernelInvariant, TypeOK
<1>2. mode' # "exited"
  BY DEF KernelInvariant, NeverExits
<1>3. PICK p \in Prio :
        /\ ptask_queue_first(ScheduledReadyq, p)
        /\ state' = [ScheduledState EXCEPT ![Head(ScheduledReadyq[p])] = "RUNNING"]
        /\ UNCHANGED <<task_id_cnt, jobq, buffer, result, parent_tid>>
  BY <1>2, NoFault DEF schedule, ScheduledState
<1>4. PICK t : t = Head(ScheduledReadyq[p])
  OBVIOUS
<1>5. /\ ScheduledState \in [Tid -> TaskState] /\ t \in Tid /\ ScheduledState[t] = "READY"
  <2>1. /\ ScheduledReadyq \in [Prio -> Seq(Tid)] /\ ScheduledState \in [Tid -> TaskState]
        /\ QueueAgrees(ScheduledReadyq, ScheduledState, priority)
    BY <1>1, PutBack
  <2>2. ScheduledReadyq[p] \in Seq(Tid) /\ ScheduledReadyq[p] # <<>>
    BY <1>3, <2>1 DEF ptask_queue_first
  <2>3. t \in Tid /\ InSeq(ScheduledReadyq[p], t)
    BY <1>4, <2>2 DEF InSeq
  <2>4. QED
    BY <2>1, <2>3 DEF QueueAgrees
<1>6. \A u \in Tid : \/ ScheduledState[u] = state[u]
                     \/ state[u] = "RUNNING" /\ ScheduledState[u] = "READY"
  BY <1>1 DEF ScheduledState, StillRuns
<1>7. QED
  BY <1>3, <1>4, <1>5, <1>6 DEF Switches

-----------------------------------------------------------------------------
(* What the steps of one task leave of the invariant for the others.       *)

\* Calls other than Reply.  bf is what the tasks hold when t makes the call: its
\* own buffer may have been emptied into the delay queue before.
LEMMA HeldThrough ==
  ASSUME KernelInvariant, KernelInvariant', NEW t \in Tid, mode = "user", current_task = t,
         NEW bf \in [Tid -> Message], \A u \in Tid : u # t => bf[u] = buffer[u],
         NEW dq \in Seq(Node), HeldOnce(state, bf, dq),
         \/ Returns(t) \/ Leaves(t) \/ Creates(t, task_id_cnt) \/ \E v : Parks(t, v)
         \/ \E r \in Tid : Hands(t, r) \/ Takes(t, r)
  PROVE  HeldOnce(state', buffer', dq)
<1>1. /\ state[t] = "RUNNING" /\ buffer' \in [Tid -> Message] /\ NoMessage.from = NoTask
  BY Caller DEF KernelInvariant, TypeOK, NoMessage
<1>2. CASE Returns(t) \/ Leaves(t) \/ \E v : Parks(t, v)
  <2>1. /\ \A u \in Tid : buffer'[u].from \in {bf[u].from, NoTask}
        /\ \A s \in Tid : state[s] = "WATIREPLY" => state'[s] = "WATIREPLY"
    BY <1>1, <1>2 DEF Returns, Leaves, Parks, Same
  <2>2. QED
    BY <1>1, <2>1, HeldKept
<1>3. CASE Creates(t, task_id_cnt)
  <2>1. task_id_cnt \in Tid /\ task_id_cnt \notin jobq /\ state[task_id_cnt] = "INITIALIZED"
    BY <1>3 DEF Creates, KernelInvariant, TypeOK, LiveTasksExact
  <2>2. /\ \A u \in Tid : buffer'[u].from \in {bf[u].from, NoTask}
        /\ \A s \in Tid : state[s] = "WATIREPLY" => state'[s] = "WATIREPLY"
    BY <1>1, <1>3, <2>1 DEF Creates, Same
  <2>3. QED
    BY <1>1, <2>2, HeldKept
<1>4. ASSUME NEW r \in Tid, Hands(t, r) PROVE HeldOnce(state', buffer', dq)
  <2>1. Handed(state, state', bf, buffer', r, t)
    BY <1>1, <1>4 DEF Hands, Same, Handed
  <2>2. QED
    BY <1>1, <2>1, HeldHanded
<1>5. ASSUME NEW s \in Tid, Takes(t, s) PROVE HeldOnce(state', buffer', dq)
  <2>1. Handed(state, state', bf, buffer', t, s)
    BY <1>1, <1>5 DEF Takes, Same, Handed
  <2>2. QED
    BY <1>1, <2>1, HeldHanded
<1>6. QED
  BY <1>2, <1>3, <1>4, <1>5

\* Reply to a task whose message is in no other place than the caller's buffer.
LEMMA HeldThroughReply ==
  ASSUME KernelInvariant, KernelInvariant', NEW t \in Tid, mode = "user", current_task = t,
         NEW dq \in Seq(Node), HeldOnce(state, buffer, dq), NEW s \in Tid, Answers(t, s),
         NotDelayed(dq, s), \A u \in Tid : u # t => buffer[u].from # s
  PROVE  HeldOnce(state', buffer', dq)
<1>1. /\ buffer \in [Tid -> Message] /\ buffer' \in [Tid -> Message]
      /\ NoMessage.from = NoTask /\ NoTask \notin Tid /\ state[t] = "RUNNING"
  BY Caller, TidFacts DEF KernelInvariant, TypeOK, NoMessage
<1>2. Answered(state, state', buffer, buffer', s)
  BY <1>1 DEF Answers, Same, Answered
<1>3. QED
  BY <1>1, <1>2, HeldAnswered

\* What happens to a task that does not run.
Mild(u) ==
  /\ parent_tid'[u] = parent_tid[u]
  /\ \/ Same(u)
     \/ /\ state[u] \in {"READY", "RUNNING", "AWATIEVENT"} /\ state'[u] \in {"READY", "RUNNING"}
        /\ buffer'[u] = buffer[u] /\ result'[u] = result[u]
     \/ state[u] = "WAITRECEIVE" /\ state'[u] = "READY" /\ HasMessage(u)' /\ result'[u] >= 0
     \/ state[u] = "WATISEND" /\ result'[u] = result[u]
     \/ state[u] = "WATIREPLY" /\ result'[u] >= 0

LEMMA EffectsMild ==
  ASSUME NEW t \in Tid,
         \/ Returns(t) \/ Leaves(t) \/ \E v : Parks(t, v)
         \/ \E r \in Tid : Hands(t, r) \/ Takes(t, r) \/ Answers(t, r)
  PROVE  \A u \in Tid : u # t => Mild(u)
<1>1. NoTask \notin Tid
  BY TidFacts
<1>2. CASE Returns(t) \/ Leaves(t) \/ \E v : Parks(t, v)
  BY <1>2 DEF Returns, Leaves, Parks, Mild, Same
<1>3. ASSUME NEW r \in Tid, Hands(t, r) \/ Takes(t, r) \/ Answers(t, r),
             NEW u \in Tid, u # t
      PROVE  Mild(u)
  BY <1>1, <1>3 DEF Hands, Takes, Answers, Mild, Same, HasMessage
<1>4. QED
  BY <1>2, <1>3

\* Such a task keeps its part of the invariant.
LEMMA OthersServed ==
  ASSUME NEW u \in Tid, ServerHolds(u), NotifierServed(u), Mild(u),
         function'[u] = function[u], pc'[u] = pc[u], server'[u] = server[u],
         \A v \in Tid : function[v] = "clock_server" => function'[v] = function[v]
  PROVE  ServerHolds(u)' /\ NotifierServed(u)'
<1>1. ServerHolds(u)'
  BY DEF ServerHolds, Mild, Same, HasMessage
<1>2. NotifierServed(u)'
  BY DEF NotifierServed, Mild, Same
<1>3. QED
  BY <1>1, <1>2

-----------------------------------------------------------------------------
(* The program's steps are steps of well-behaved tasks.                    *)

LEMMA K3WellBehaved == WellBehaved
BY K3Assumption, InputAssumption DEF WellBehaved

LEMMA SendIsCall ==
  ASSUME NEW t \in Tid, NEW r, NEW m, Send(t, r, m)
  PROVE  TaskStep(t)
BY DEF Send, TaskStep

LEMMA ReceiveIsCall ==
  ASSUME NEW t \in Tid, Receive(t)
  PROVE  TaskStep(t)
BY DEF Receive, TaskStep

LEMMA ReplyIsCall ==
  ASSUME NEW t \in Tid, NEW s, NEW m, Reply(t, s, m), s \in jobq => state[s] = "WATIREPLY"
  PROVE  TaskStep(t)
<1>1. CASE s \notin jobq
  BY <1>1 DEF Reply, TaskStep
<1>2. CASE s \in jobq
  <2>1. sys_reply(t)
    BY <1>2 DEF Reply, sys_reply
  <2>2. QED
    BY <2>1 DEF TaskStep
<1>3. QED
  BY <1>1, <1>2

\* Whoever a task or the clock server is about to answer waits for it.
LEMMA HeldWaits ==
  ASSUME K3Invariant
  PROVE  /\ \A t \in Tid : buffer[t].from \in jobq => state[buffer[t].from] = "WATIREPLY"
         /\ delay_queue # <<>> => state[delay_queue[1].tid] = "WATIREPLY"
<1>1. NoTask \notin jobq
  BY TidFacts DEF K3Invariant, KernelInvariant, LiveTasksExact
<1>2. delay_queue # <<>> => 1 \in 1 .. Len(delay_queue)
  BY DEF K3Invariant, K3TypeOK
<1>3. QED
  BY <1>1, <1>2 DEF K3Invariant, HeldOnce

LEMMA ProgramIsCall ==
  ASSUME K3Invariant, NEW t \in Tid, Program(t)
  PROVE  TaskStep(t)
<1>1. CASE k3_first_user_task(t)
  <2>1. CASE first_create(t)
    BY <2>1 DEF first_create, Create, TaskStep
  <2>2. CASE first_receive(t)
    BY <2>2, ReceiveIsCall DEF first_receive
  <2>3. CASE first_reply(t)
    BY <2>3, HeldWaits, ReplyIsCall DEF first_reply
  <2>4. CASE first_exit(t)
    BY <2>4 DEF first_exit, TaskStep
  <2>5. QED
    BY <1>1, <2>1, <2>2, <2>3, <2>4 DEF k3_first_user_task
<1>2. CASE k3_client(t)
  <2>1. CASE client_start(t) \/ client_asked(t) \/ client_exit(t)
    BY <2>1 DEF client_start, client_asked, client_exit, TaskStep
  <2>2. CASE client_ask(t) \/ WhoIs(t) \/ client_delay(t)
    BY <2>2, SendIsCall DEF client_ask, WhoIs, client_delay
  <2>3. QED
    BY <1>2, <2>1, <2>2 DEF k3_client
<1>3. CASE name_server(t)
  <2>1. CASE name_server_start(t)
    BY <2>1 DEF name_server_start, TaskStep
  <2>2. CASE name_server_receive(t)
    BY <2>2, ReceiveIsCall DEF name_server_receive
  <2>3. CASE name_server_reply(t)
    BY <2>3, HeldWaits, ReplyIsCall DEF name_server_reply
  <2>4. QED
    BY <1>3, <2>1, <2>2, <2>3 DEF name_server
<1>4. CASE clock_server(t)
  <2>1. CASE RegisterAs(t)
    BY <2>1, SendIsCall DEF RegisterAs, TaskStep
  <2>2. CASE clock_server_create(t)
    BY <2>2 DEF clock_server_create, Create, TaskStep
  <2>3. CASE clock_server_receive(t)
    BY <2>3, ReceiveIsCall DEF clock_server_receive
  <2>4. CASE clock_server_TICK(t)
    BY <2>4, HeldWaits, ReplyIsCall DEF clock_server_TICK
  <2>5. CASE clock_server_wake(t)
    BY <2>5, HeldWaits, ReplyIsCall DEF clock_server_wake, Due
  <2>6. CASE clock_server_DELAY(t)
    BY <2>6, HeldWaits, ReplyIsCall, ReceiveIsCall DEF clock_server_DELAY
  <2>7. QED
    BY <1>4, <2>1, <2>2, <2>3, <2>4, <2>5, <2>6 DEF clock_server
<1>5. CASE clock_server_tick(t)
  <2>1. CASE notifier_start(t) \/ notifier_await(t)
    BY <2>1 DEF notifier_start, notifier_await, TaskStep
  <2>2. CASE notifier_send(t)
    <3>1. sys_exit(t) \/ Send(t, server[t], Msg("TICK", 0))
      BY <2>2 DEF notifier_send
    <3>2. QED
      BY <3>1, SendIsCall DEF TaskStep
  <2>3. QED
    BY <1>5, <2>1, <2>2 DEF clock_server_tick
<1>6. QED
  BY <1>1, <1>2, <1>3, <1>4, <1>5 DEF Program

LEMMA StepOfKernel ==
  ASSUME K3Invariant, [K3Next]_k3vars
  PROVE  [Next]_vars
<1>1. CASE UNCHANGED k3vars
  BY <1>1 DEF k3vars
<1>2. CASE Resume \/ Timer
  BY <1>2 DEF Resume, Timer, Next
<1>3. ASSUME NEW t \in Tid, UserStep(t) PROVE [Next]_vars
  <2>1. CASE Program(t)
    BY <2>1, ProgramIsCall DEF Next
  <2>2. CASE name_server_store(t)
    BY <2>2 DEF name_server_store
  <2>3. QED
    BY <1>3, <2>1, <2>2 DEF UserStep
<1>4. QED
  BY <1>1, <1>2, <1>3 DEF K3Next

LEMMA KernelKept ==
  ASSUME K3Invariant, [K3Next]_k3vars
  PROVE  KernelInvariant'
BY StepOfKernel, NextInvariant, K3WellBehaved DEF K3Invariant

-----------------------------------------------------------------------------
(* One step of one program.                                                *)

CallEffect(t) ==
  \/ Returns(t) \/ \E v : Parks(t, v)
  \/ \E r \in Tid : Hands(t, r) \/ Takes(t, r)

LEMMA SendEffect ==
  ASSUME KernelInvariant, KernelInvariant', NEW t \in Tid, NEW r, NEW m, Send(t, r, m)
  PROVE  CallEffect(t) /\ (r \in jobq => result'[t] = result[t] /\ parent_tid'[t] = parent_tid[t])
<1>1. CASE r \notin jobq
  BY <1>1, QuietReturns DEF Send, CallEffect
<1>2. CASE r \in jobq
  <2>1. sys_send_deliver(t) \/ sys_send_queue(t)
    BY <1>2 DEF Send
  <2>2. CASE sys_send_deliver(t)
    <3>1. PICK q \in Tid : Hands(t, q)
      BY <2>2, SendHands
    <3>2. QED
      BY <3>1 DEF Hands, CallEffect
  <2>3. CASE sys_send_queue(t)
    <3>1. Parks(t, "WATISEND")
      BY <2>3, SendParks
    <3>2. QED
      BY <3>1 DEF Parks, CallEffect
  <2>4. QED
    BY <2>1, <2>2, <2>3
<1>3. QED
  BY <1>1, <1>2

\* A step of task t that creates nobody keeps the invariant if it keeps what the
\* invariant says of t itself.
LEMMA StepKeeps ==
  ASSUME K3Invariant, KernelInvariant', NEW t \in Tid, mode = "user", current_task = t,
         function' = function, task_id_cnt' = task_id_cnt, created' = created,
         jobq \ {t} \subseteq jobq',
         function[t] \in {"clock_server", "clock_server_tick"} => t \in jobq',
         DOMAIN pc' = Tid, \A u \in Tid : u # t => pc'[u] = pc[u],
         pc'[t] = "create" => pc[t] = "create",
         DOMAIN server' = Tid, \A u \in Tid : u # t => server'[u] = server[u],
         ticks' \in Nat, delay_queue' \in Seq(Node),
         HeldOnce(state', buffer', delay_queue'),
         \A u \in Tid : u # t => Mild(u),
         ServerHolds(t)', NotifierServed(t)'
  PROVE  K3Invariant'
<1>1. K3TypeOK'
  BY DEF K3Invariant, K3TypeOK
<1>2. t < task_id_cnt /\ task_id_cnt \in Nat
  BY Caller DEF K3Invariant
<1>3. Started'
  <2>1. \A u \in Tid : u >= task_id_cnt => u # t
    BY <1>2 DEF Tid
  <2>2. Started /\ FirstTid \in Tid
    BY TidFacts DEF K3Invariant
  <2>3. \A u \in Tid : u >= task_id_cnt => pc'[u] = "start" /\ function'[u] = "none"
    BY <2>1, <2>2 DEF Started
  <2>4. pc'[FirstTid] = "create" => created' \in 0 .. NClients + 1
    BY <2>2 DEF Started
  <2>5. \A u \in Tid : function'[u] \in {"clock_server", "clock_server_tick"} => u \in jobq'
    BY <2>2 DEF Started
  <2>6. QED
    BY <2>2, <2>3, <2>4, <2>5 DEF Started
<1>4. ASSUME NEW u \in Tid PROVE ServerHolds(u)' /\ NotifierServed(u)'
  <2>1. CASE u = t
    BY <2>1
  <2>2. CASE u # t
    BY <2>2, OthersServed DEF K3Invariant
  <2>3. QED
    BY <2>1, <2>2
<1>5. HeldOnce(state, buffer, delay_queue)'
  OBVIOUS
<1>6. QED
  BY <1>1, <1>3, <1>4, <1>5 DEF K3Invariant

\* A call other than Reply and Create of a program the invariant says nothing of.
LEMMA CallKeeps ==
  ASSUME K3Invariant, KernelInvariant', NEW t \in Tid, mode = "user", current_task = t,
         CallEffect(t) \/ Leaves(t),
         function' = function, created' = created, UNCHANGED clockVars,
         pc' = pc \/ \E p : p # "create" /\ Goto(t, p),
         DOMAIN server' = Tid, \A u \in Tid : u # t => server'[u] = server[u],
         function[t] \notin {"clock_server", "clock_server_tick"}
  PROVE  K3Invariant'
<1>1. HeldOnce(state', buffer', delay_queue)
  <2>1. /\ KernelInvariant /\ buffer \in [Tid -> Message] /\ delay_queue \in Seq(Node)
        /\ HeldOnce(state, buffer, delay_queue)
    BY DEF K3Invariant, KernelInvariant, TypeOK, K3TypeOK
  <2>2. QED
    BY <2>1, HeldThrough DEF CallEffect
<1>2. \A u \in Tid : u # t => Mild(u)
  BY EffectsMild DEF CallEffect
<1>3. /\ DOMAIN pc' = Tid /\ \A u \in Tid : u # t => pc'[u] = pc[u]
      /\ pc'[t] = "create" => pc[t] = "create"
  BY DEF K3Invariant, K3TypeOK, Goto
<1>4. task_id_cnt' = task_id_cnt /\ jobq \ {t} \subseteq jobq'
  BY DEF CallEffect, Returns, Parks, Hands, Takes, Leaves
<1>5. ticks' \in Nat /\ delay_queue' \in Seq(Node) /\ HeldOnce(state', buffer', delay_queue')
  BY <1>1 DEF K3Invariant, K3TypeOK, clockVars
<1>6. ServerHolds(t)' /\ NotifierServed(t)'
  BY DEF ServerHolds, NotifierServed
<1>7. QED
  BY <1>2, <1>3, <1>4, <1>5, <1>6, StepKeeps

\* What a Reply to the task whose message t holds, or to nobody, does.
LEMMA ReplyEffect ==
  ASSUME K3Invariant, KernelInvariant', NEW t \in Tid, mode = "user", current_task = t,
         NEW m, Reply(t, buffer[t].from, m)
  PROVE  /\ HeldOnce(state', buffer', delay_queue)
         /\ \A u \in Tid : u # t => Mild(u)
         /\ task_id_cnt' = task_id_cnt /\ jobq' = jobq
<1>1. /\ KernelInvariant /\ buffer \in [Tid -> Message] /\ delay_queue \in Seq(Node)
      /\ HeldOnce(state, buffer, delay_queue) /\ jobq \subseteq Tid /\ NoTask \notin Tid
  BY Caller, TidFacts DEF K3Invariant, K3TypeOK
<1>2. CASE buffer[t].from \notin jobq
  <2>1. Returns(t)
    BY <1>1, <1>2, QuietReturns DEF Reply
  <2>2. HeldOnce(state', buffer', delay_queue)
    BY <1>1, <2>1, HeldThrough
  <2>3. QED
    BY <2>1, <2>2, EffectsMild DEF Returns
<1>3. CASE buffer[t].from \in jobq
  <2>1. PICK s \in Tid : s = buffer[t].from
    BY <1>1, <1>3
  <2>2. state[s] = "WATIREPLY" /\ reply_to(t, s, m)
    BY <1>3, <2>1, HeldWaits DEF Reply
  <2>3. Answers(t, s)
    BY <1>1, <2>2, ReplyAnswers
  <2>4. /\ NotDelayed(delay_queue, s)
        /\ \A u \in Tid : u # t => buffer[u].from # s
    BY <1>1, <2>1 DEF HeldOnce, NotDelayed
  <2>5. HeldOnce(state', buffer', delay_queue)
    BY <1>1, <2>3, <2>4, HeldThroughReply
  <2>6. QED
    BY <2>3, <2>5, EffectsMild DEF Answers
<1>4. QED
  BY <1>2, <1>3

\* Create by the first user task or by the clock server.
LEMMA CreateKeepsProgram ==
  ASSUME K3Invariant, KernelInvariant', NEW t \in Tid, mode = "user", current_task = t,
         NEW prio, NEW f, NEW p, p # "handle", Create(t, prio, f, p),
         f # "k3_first_user_task", f = "clock_server_tick" => function[t] = "clock_server",
         function[t] # "clock_server_tick", UNCHANGED <<server, clockVars>>,
         pc'[FirstTid] = "create" => created' \in 0 .. NClients + 1
  PROVE  K3Invariant'
<1>1. /\ KernelInvariant /\ buffer \in [Tid -> Message] /\ delay_queue \in Seq(Node)
      /\ HeldOnce(state, buffer, delay_queue) /\ K3TypeOK /\ Started
      /\ t < task_id_cnt /\ task_id_cnt \in Nat /\ t \in jobq
  BY Caller DEF K3Invariant, K3TypeOK
<1>2. /\ sys_create(t) /\ function' = [function EXCEPT ![task_id_cnt] = f]
      /\ pc' = [pc EXCEPT ![t] = p]
  BY DEF Create, Goto
<1>3. K3TypeOK'
  BY <1>1, <1>2 DEF K3TypeOK, clockVars
<1>4. /\ pc'[t] = p /\ \A u \in Tid : u # t => pc'[u] = pc[u]
      /\ \A u \in Tid : u # task_id_cnt => function'[u] = function[u]
      /\ task_id_cnt \in Tid => function'[task_id_cnt] = f
  BY <1>1, <1>2 DEF K3TypeOK
<1>5. CASE Returns(t) /\ task_id_cnt \notin Tid
  <2>1. HeldOnce(state', buffer', delay_queue)
    BY <1>1, <1>5, HeldThrough
  <2>2. HeldOnce(state, buffer, delay_queue)'
    BY <2>1 DEF clockVars
  <2>3. \A u \in Tid : u # t => Mild(u)
    BY <1>5, EffectsMild
  <2>4. \A u \in Tid : function'[u] = function[u]
    BY <1>4, <1>5
  <2>5. Started'
    <3>1. \A u \in Tid : u >= task_id_cnt => u # t
      BY <1>1 DEF Tid
    <3>2. task_id_cnt' = task_id_cnt /\ jobq' = jobq
      BY <1>5 DEF Returns
    <3>3. QED
      BY <1>1, <1>4, <2>4, <3>1, <3>2 DEF Started
  <2>6. ASSUME NEW u \in Tid PROVE ServerHolds(u)' /\ NotifierServed(u)'
    <3>1. CASE u = t
      BY <1>4, <2>4, <3>1 DEF ServerHolds, NotifierServed
    <3>2. CASE u # t
      <4>1. ServerHolds(u) /\ NotifierServed(u) /\ server'[u] = server[u]
        BY DEF K3Invariant
      <4>2. QED
        BY <1>4, <2>3, <2>4, <3>2, <4>1, OthersServed
    <3>3. QED
      BY <3>1, <3>2
  <2>7. QED
    BY <1>3, <2>2, <2>5, <2>6 DEF K3Invariant
<1>6. CASE Creates(t, task_id_cnt)
  <2>1. PICK n \in Tid : n = task_id_cnt
    BY <1>6 DEF Creates
  <2>2. Creates(t, n)
    BY <1>6, <2>1
  <2>3. /\ HeldOnce(state, buffer, delay_queue)'
    <3>1. HeldOnce(state', buffer', delay_queue)
      BY <1>1, <1>6, HeldThrough
    <3>2. QED
      BY <3>1 DEF clockVars
  <2>4. /\ n # t /\ pc'[n] = "start" /\ function[n] = "none" /\ function'[n] = f
        /\ function'[t] = function[t] /\ parent_tid'[n] = t
        /\ task_id_cnt' = n + 1 /\ jobq' = jobq \cup {n}
    BY <1>1, <1>4, <2>1, <2>2 DEF Creates, Started, Tid
  <2>5. Started'
    <3>1. ASSUME NEW u \in Tid, u >= n + 1 PROVE pc'[u] = "start" /\ function'[u] = "none"
      <4>1. u >= task_id_cnt /\ u # t /\ u # n
        BY <1>1, <2>1, <3>1 DEF Tid
      <4>2. QED
        BY <1>1, <1>4, <2>1, <4>1 DEF Started
    <3>2. ASSUME NEW u \in Tid, function'[u] = "k3_first_user_task" PROVE u = FirstTid
      BY <1>1, <1>4, <2>1, <2>4, <3>2 DEF Started
    <3>3. ASSUME NEW u \in Tid, function'[u] \in {"clock_server", "clock_server_tick"}
          PROVE  u \in jobq'
      BY <1>1, <1>4, <2>1, <2>4, <3>3 DEF Started
    <3>4. QED
      BY <2>4, <3>1, <3>2, <3>3 DEF Started
  <2>6. ASSUME NEW u \in Tid PROVE ServerHolds(u)' /\ NotifierServed(u)'
    <3>1. CASE u = t
      BY <1>4, <2>4, <3>1 DEF ServerHolds, NotifierServed
    <3>2. CASE u = n
      <4>1. ServerHolds(n)'
        BY <2>4 DEF ServerHolds
      <4>2. NotifierServed(n)'
        BY <2>4 DEF NotifierServed
      <4>3. QED
        BY <3>2, <4>1, <4>2
    <3>3. CASE u \notin {t, n}
      <4>1. /\ ServerHolds(u) /\ NotifierServed(u) /\ server'[u] = server[u]
            /\ function'[u] = function[u] /\ pc'[u] = pc[u]
        BY <1>4, <2>1, <3>3 DEF K3Invariant
      <4>2. Mild(u)
        BY <2>2, <3>3 DEF Creates, Same, Mild
      <4>3. \A v \in Tid : function[v] = "clock_server" => function'[v] = function[v]
        BY <1>4, <2>1, <2>4
      <4>4. QED
        BY <4>1, <4>2, <4>3, OthersServed
    <3>4. QED
      BY <3>1, <3>2, <3>3
  <2>7. QED
    BY <1>3, <2>3, <2>5, <2>6 DEF K3Invariant
<1>7. QED
  BY <1>1, <1>2, <1>5, <1>6, CreateReturnsOrCreates

LEMMA CreationsKnown ==
  /\ NClients \in Nat /\ Len(Creations) = NClients + 2
  /\ \A i \in 1 .. NClients + 2 :
       Creations[i].function \in {"name_server", "clock_server", "k3_client"}
<1> DEFINE a == << [priority |-> INITIAL_PRIORITY, function |-> "name_server"],
                   [priority |-> INITIAL_PRIORITY, function |-> "clock_server"] >>
           b == [i \in 1 .. NClients |->
                  [priority |-> CLIENT_PRIORITIES[i], function |-> "k3_client"]]
           R == [priority : Int, function : {"name_server", "clock_server", "k3_client"}]
<1>1. NClients \in Nat
  BY K3Assumption DEF NClients
<1>2. INITIAL_PRIORITY \in Int /\ \A i \in 1 .. NClients : CLIENT_PRIORITIES[i] \in Int
  BY K3Assumption, PriorityAssumption DEF NClients
<1>3. a \in Seq(R) /\ Len(a) = 2
  BY <1>2
<1>4. b \in Seq(R) /\ Len(b) = NClients
  BY <1>1, <1>2
<1>5. Creations = a \o b
  BY DEF Creations
<1>6. \A r \in R : r.function \in {"name_server", "clock_server", "k3_client"}
  OBVIOUS
<1> HIDE DEF a, b, R
<1>7. a \o b \in Seq(R) /\ Len(a \o b) = NClients + 2
  <2>1. a \o b \in Seq(R) /\ Len(a \o b) = Len(a) + Len(b)
    BY <1>3, <1>4, ConcatProperties
  <2>2. QED
    BY <1>1, <1>3, <1>4, <2>1
<1>8. QED
  BY <1>1, <1>5, <1>6, <1>7

\* Reply by a program the invariant says nothing of.
LEMMA ReplyKeepsProgram ==
  ASSUME K3Invariant, KernelInvariant', NEW t \in Tid, mode = "user", current_task = t,
         NEW m, Reply(t, buffer[t].from, m), NEW p, p # "create", Goto(t, p),
         UNCHANGED <<function, created, server, delay_queue>>, ticks' \in Nat,
         p # "handle", function[t] # "clock_server_tick"
  PROVE  K3Invariant'
<1>1. /\ HeldOnce(state', buffer', delay_queue') /\ \A u \in Tid : u # t => Mild(u)
      /\ task_id_cnt' = task_id_cnt /\ jobq' = jobq
  BY ReplyEffect
<1>2. /\ DOMAIN pc' = Tid /\ pc'[t] = p /\ \A u \in Tid : u # t => pc'[u] = pc[u]
      /\ DOMAIN server' = Tid /\ delay_queue' \in Seq(Node) /\ t \in jobq
  BY Caller DEF K3Invariant, K3TypeOK, Goto
<1>3. ServerHolds(t)' /\ NotifierServed(t)'
  BY <1>2 DEF ServerHolds, NotifierServed
<1>4. QED
  BY <1>1, <1>2, <1>3, StepKeeps

LEMMA FirstKeeps ==
  ASSUME K3Invariant, KernelInvariant', NEW t \in Tid, mode = "user", current_task = t,
         function[t] = "k3_first_user_task", k3_first_user_task(t)
  PROVE  K3Invariant'
<1>1. KernelInvariant /\ K3TypeOK /\ Started
  BY DEF K3Invariant
<1>2. CASE first_create(t)
  <2> DEFINE i == created + 1
             f == Creations[i].function
             p == IF i = Len(Creations) THEN "receive" ELSE "create"
  <2>1. t = FirstTid /\ pc[t] = "create" /\ created \in 0 .. NClients + 1
    BY <1>1, <1>2 DEF first_create, Started
  <2>2. i \in 1 .. NClients + 2
    BY <2>1, CreationsKnown
  <2>3. f \in {"name_server", "clock_server", "k3_client"}
    BY <2>2, CreationsKnown
  <2>4. /\ Create(t, Creations[i].priority, f, p) /\ created' = i /\ UNCHANGED <<server, clockVars>>
    BY <1>2 DEF first_create, clientVars
  <2> HIDE DEF f
  <2>5. pc'[FirstTid] = "create" => created' \in 0 .. NClients + 1
    <3>1. pc'[FirstTid] = p
      BY <1>1, <2>1, <2>4 DEF Create, Goto, K3TypeOK
    <3>2. QED
      BY <2>1, <2>2, <2>4, <3>1, CreationsKnown
  <2>6. p # "handle"
    OBVIOUS
  <2>7. PICK prio : Create(t, prio, f, p)
    BY <2>4
  <2> HIDE DEF p
  <2>8. QED
    BY <2>3, <2>4, <2>5, <2>6, <2>7, CreateKeepsProgram
<1>3. CASE first_receive(t)
  <2>1. CallEffect(t)
    BY <1>1, <1>3, ReceiveParksOrTakes DEF first_receive, CallEffect
  <2>2. /\ Goto(t, "reply") /\ UNCHANGED <<function, created, server, clockVars>>
    BY <1>3 DEF first_receive, programVars, firstVars, clientVars
  <2>3. QED
    BY <1>1, <2>1, <2>2, CallKeeps DEF K3TypeOK
<1>4. CASE first_reply(t)
  <2>1. PICK m : Reply(t, buffer[t].from, m)
    BY <1>4 DEF first_reply
  <2>2. PICK p \in {"exit", "receive"} : Goto(t, p)
    BY <1>4 DEF first_reply
  <2>3. UNCHANGED <<function, created, server, delay_queue>> /\ ticks' \in Nat
    BY <1>1, <1>4 DEF first_reply, clientVars, clockVars, K3TypeOK
  <2>4. p # "create" /\ p # "handle"
    BY <2>2
  <2>5. QED
    BY <2>1, <2>2, <2>3, <2>4, ReplyKeepsProgram
<1>5. CASE first_exit(t)
  <2>1. Leaves(t)
    BY <1>1, <1>5, ExitLeaves DEF first_exit
  <2>2. UNCHANGED <<function, pc, created, server, clockVars>>
    BY <1>5 DEF first_exit, programVars, firstVars, clientVars
  <2>3. QED
    BY <1>1, <2>1, <2>2, CallKeeps DEF K3TypeOK
<1>6. QED
  BY <1>2, <1>3, <1>4, <1>5 DEF k3_first_user_task

LEMMA ClientKeeps ==
  ASSUME K3Invariant, KernelInvariant', NEW t \in Tid, mode = "user", current_task = t,
         function[t] = "k3_client", k3_client(t)
  PROVE  K3Invariant'
<1>1. KernelInvariant /\ DOMAIN server = Tid
  BY DEF K3Invariant, K3TypeOK
<1>2. /\ UNCHANGED <<function, created, clockVars>>
      /\ UNCHANGED server \/ \E v : server' = [server EXCEPT ![t] = v]
  BY DEF k3_client, client_start, client_ask, client_asked, WhoIs, client_delay, client_exit,
         programVars, firstVars, clientVars
<1>3. DOMAIN server' = Tid /\ \A u \in Tid : u # t => server'[u] = server[u]
  BY <1>1, <1>2
<1>4. CallEffect(t) \/ Leaves(t)
  <2>1. CASE client_start(t)
    BY <1>1, <2>1, QuietReturns DEF client_start, CallEffect
  <2>2. CASE client_asked(t) \/ client_exit(t)
    <3>1. sys_tid(t) \/ sys_exit(t)
      BY <2>2 DEF client_asked, client_exit
    <3>2. QED
      BY <1>1, <3>1, QuietReturns, ExitLeaves DEF CallEffect
  <2>3. CASE client_ask(t) \/ WhoIs(t) \/ client_delay(t)
    <3>1. PICK r, m : Send(t, r, m)
      BY <2>3 DEF client_ask, WhoIs, client_delay
    <3>2. QED
      BY <1>1, <3>1, SendEffect
  <2>4. QED
    BY <2>1, <2>2, <2>3 DEF k3_client
<1>5. pc' = pc \/ \E p : p # "create" /\ Goto(t, p)
  <2>1. pc' = pc \/ \E p \in {"parent", "ask", "asked", "whois", "found", "delay"} : Goto(t, p)
    BY DEF k3_client, client_start, client_ask, client_asked, WhoIs, client_delay,
           client_exit, programVars
  <2>2. "create" \notin {"parent", "ask", "asked", "whois", "found", "delay"}
    OBVIOUS
  <2>3. QED
    BY <2>1, <2>2, Zenon
<1>6. QED
  BY <1>2, <1>3, <1>4, <1>5, CallKeeps

LEMMA NameServerKeeps ==
  ASSUME K3Invariant, KernelInvariant', NEW t \in Tid, mode = "user", current_task = t,
         function[t] = "name_server", name_server(t)
  PROVE  K3Invariant'
<1>1. KernelInvariant /\ K3TypeOK
  BY DEF K3Invariant
<1>2. CASE name_server_start(t)
  <2>1. CallEffect(t) /\ Goto(t, "store") /\ UNCHANGED <<function, created, server, clockVars>>
    BY <1>1, <1>2, QuietReturns DEF name_server_start, CallEffect, programVars, firstVars,
                                    clientVars
  <2>2. QED
    BY <1>1, <2>1, CallKeeps DEF K3TypeOK
<1>3. CASE name_server_receive(t)
  <2>1. CallEffect(t)
    BY <1>1, <1>3, ReceiveParksOrTakes DEF name_server_receive, CallEffect
  <2>2. Goto(t, "handle") /\ UNCHANGED <<function, created, server, clockVars>>
    BY <1>3 DEF name_server_receive, programVars, firstVars, clientVars
  <2>3. QED
    BY <1>1, <2>1, <2>2, CallKeeps DEF K3TypeOK
<1>4. CASE name_server_reply(t)
  <2>1. PICK m : Reply(t, buffer[t].from, m)
    BY <1>4 DEF name_server_reply
  <2>2. /\ Goto(t, "receive") /\ UNCHANGED <<function, created, server, delay_queue>>
        /\ ticks' \in Nat
    BY <1>1, <1>4 DEF name_server_reply, firstVars, clientVars, clockVars, K3TypeOK
  <2>3. QED
    BY <2>1, <2>2, ReplyKeepsProgram
<1>5. QED
  BY <1>2, <1>3, <1>4 DEF name_server

\* The clock server's Receive, whatever it has moved to the delay queue before.
LEMMA ClockReceiveKeeps ==
  ASSUME K3Invariant, KernelInvariant', NEW t \in Tid, mode = "user", current_task = t,
         function[t] = "clock_server", Receive(t),
         NEW bf \in [Tid -> Message], \A u \in Tid : u # t => bf[u] = buffer[u],
         delay_queue' \in Seq(Node), HeldOnce(state, bf, delay_queue'),
         UNCHANGED <<function, created, server, ticks>>,
         pc' = pc \/ Goto(t, "handle")
  PROVE  K3Invariant'
<1>1. KernelInvariant /\ K3TypeOK /\ t \in jobq
  BY Caller DEF K3Invariant
<1>2. Parks(t, "WAITRECEIVE") \/ \E s \in Tid : Takes(t, s)
  BY <1>1, ReceiveParksOrTakes
<1>3. PICK dq \in Seq(Node) : dq = delay_queue'
  OBVIOUS
<1>4. HeldOnce(state', buffer', delay_queue')
  <2>1. HeldOnce(state', buffer', dq)
    BY <1>1, <1>2, <1>3, HeldThrough
  <2>2. QED
    BY <1>3, <2>1
<1>5. \A u \in Tid : u # t => Mild(u)
  BY <1>2, EffectsMild
<1>6. /\ DOMAIN pc' = Tid /\ \A u \in Tid : u # t => pc'[u] = pc[u]
      /\ pc'[t] = "create" => pc[t] = "create"
      /\ DOMAIN server' = Tid /\ ticks' \in Nat
  BY <1>1 DEF K3TypeOK, Goto
<1>7. task_id_cnt' = task_id_cnt /\ jobq' = jobq
  BY <1>2 DEF Parks, Takes
<1>8. ServerHolds(t)'
  BY <1>2, TidFacts DEF ServerHolds, Parks, Takes, HasMessage
<1>9. NotifierServed(t)'
  BY DEF NotifierServed
<1>10. QED
  BY <1>1, <1>4, <1>5, <1>6, <1>7, <1>8, <1>9, StepKeeps

\* The head of the delay queue is answered and leaves it.
LEMMA WakeKeeps ==
  ASSUME K3Invariant, KernelInvariant', NEW t \in Tid, mode = "user", current_task = t,
         function[t] = "clock_server", clock_server_wake(t)
  PROVE  K3Invariant'
<1>1. /\ KernelInvariant /\ K3TypeOK /\ t \in jobq /\ jobq \subseteq Tid
      /\ buffer \in [Tid -> Message] /\ delay_queue # <<>> /\ delay_queue' = Tail(delay_queue)
      /\ HeldOnce(state, buffer, delay_queue) /\ pc[t] = "wake"
      /\ UNCHANGED <<function, pc, created, server, ticks>>
  BY Caller DEF K3Invariant, clock_server_wake, Due, firstVars, clientVars
<1>2. PICK dq \in Seq(Node) : dq = Tail(delay_queue)
  BY <1>1, HeldPopped DEF K3TypeOK
<1>3. PICK s \in Tid : s = delay_queue[1].tid
  BY <1>1, HeldPopped DEF K3TypeOK
<1>4. /\ HeldOnce(state, buffer, dq) /\ state[s] = "WATIREPLY"
      /\ \A u \in Tid : buffer[u].from # s
      /\ NotDelayed(dq, s)
  BY <1>1, <1>2, <1>3, HeldPopped DEF K3TypeOK
<1>5. s \in jobq
  BY <1>1, <1>4 DEF KernelInvariant, LiveTasksExact
<1>6. PICK m : reply_to(t, s, m)
  BY <1>3, <1>5 DEF clock_server_wake, Reply
<1>7. Answers(t, s)
  BY <1>1, <1>4, <1>6, ReplyAnswers
<1>8. HeldOnce(state', buffer', dq)
  BY <1>1, <1>4, <1>7, HeldThroughReply
<1>9. HeldOnce(state', buffer', delay_queue') /\ delay_queue' \in Seq(Node)
  BY <1>1, <1>2, <1>8
<1>10. \A u \in Tid : u # t => Mild(u)
  BY <1>7, EffectsMild
<1>11. task_id_cnt' = task_id_cnt /\ jobq' = jobq
  BY <1>7 DEF Answers
<1>12. ServerHolds(t)' /\ NotifierServed(t)'
  BY <1>1 DEF ServerHolds, NotifierServed
<1>13. QED
  BY <1>1, <1>9, <1>10, <1>11, <1>12, StepKeeps DEF K3TypeOK

\* A Delay that has not ended: the client's message moves to the delay queue.
LEMMA DelayKeeps ==
  ASSUME K3Invariant, KernelInvariant', NEW t \in Tid, mode = "user", current_task = t,
         function[t] = "clock_server", clock_server_DELAY(t)
  PROVE  K3Invariant'
<1> DEFINE target == (buffer[t].msg.val + ticks) % TICKS_RANGE
<1>1. /\ KernelInvariant /\ K3TypeOK /\ state[t] = "RUNNING"
      /\ buffer \in [Tid -> Message] /\ HeldOnce(state, buffer, delay_queue)
      /\ delay_queue \in Seq(Node) /\ ticks \in Nat /\ ServerHolds(t)
      /\ pc[t] = "handle" /\ UNCHANGED <<function, created, server, ticks>>
  BY Caller DEF K3Invariant, K3TypeOK, clock_server_DELAY, firstVars, clientVars
<1>2. target \in Nat
  <2>1. buffer[t].msg \in K3Payload \cup {NoK3Message}
    BY <1>1, K3Assumption DEF Message
  <2>2. buffer[t].msg.val \in Int
    BY <2>1, PoolAssumption, K3Assumption DEF K3Payload, NoK3Message
  <2>3. QED
    BY <1>1, <2>2, K3Assumption
<1>3. CASE Reply(t, buffer[t].from, Msg("DELAY", target)) /\ Goto(t, "receive")
             /\ UNCHANGED delay_queue
  BY <1>1, <1>3, ReplyKeepsProgram
<1>4. CASE /\ delay_queue' = delay_queue_add(delay_queue, [tid |-> buffer[t].from, delay |-> target])
           /\ Receive(t) /\ UNCHANGED pc
  <2>1. HasMessage(t) /\ buffer[t].from \in Tid
    BY <1>1, TidFacts DEF ServerHolds, HasMessage, Message
  <2>2. PICK node \in Node : node = [tid |-> buffer[t].from, delay |-> target]
    BY <1>2, <2>1 DEF Node
  <2>3. node.tid = buffer[t].from /\ delay_queue' = delay_queue_add(delay_queue, node)
    BY <1>4, <2>2
  <2>4. PICK bf : bf = [buffer EXCEPT ![t] = NoMessage]
    OBVIOUS
  <2>5. /\ delay_queue_add(delay_queue, node) \in Seq(Node) /\ bf \in [Tid -> Message]
        /\ HeldOnce(state, bf, delay_queue_add(delay_queue, node))
    BY <1>1, <2>1, <2>3, <2>4, HeldQueued DEF HasMessage
  <2>6. \A u \in Tid : u # t => bf[u] = buffer[u]
    BY <1>1, <2>4
  <2>7. delay_queue' \in Seq(Node) /\ HeldOnce(state, bf, delay_queue')
    BY <2>3, <2>5
  <2>8. QED
    BY <1>1, <1>4, <2>5, <2>6, <2>7, ClockReceiveKeeps
<1>5. QED
  BY <1>3, <1>4 DEF clock_server_DELAY

LEMMA ClockServerKeeps ==
  ASSUME K3Invariant, KernelInvariant', NEW t \in Tid, mode = "user", current_task = t,
         function[t] = "clock_server", clock_server(t)
  PROVE  K3Invariant'
<1>1. /\ KernelInvariant /\ K3TypeOK /\ t \in jobq /\ buffer \in [Tid -> Message]
      /\ HeldOnce(state, buffer, delay_queue)
  BY Caller DEF K3Invariant
<1>2. CASE RegisterAs(t)
  <2>1. CallEffect(t)
    <3>1. sys_tid(t) \/ sys_yield(t) \/ \E r, m : Send(t, r, m)
      BY <1>2 DEF RegisterAs
    <3>2. ASSUME NEW r, NEW m, Send(t, r, m) PROVE CallEffect(t)
      BY <1>1, <3>2, SendEffect
    <3>3. QED
      BY <1>1, <3>1, <3>2, QuietReturns DEF CallEffect
  <2>2. PICK p \in {"register", "yield", "notifier"} : Goto(t, p)
    BY <1>2 DEF RegisterAs
  <2>3. UNCHANGED <<function, created, server, clockVars>>
    BY <1>2 DEF RegisterAs, programVars, firstVars, clientVars
  <2>4. /\ DOMAIN pc' = Tid /\ pc'[t] = p /\ \A u \in Tid : u # t => pc'[u] = pc[u]
        /\ DOMAIN server' = Tid
    BY <1>1, <2>2, <2>3 DEF K3TypeOK, Goto
  <2>5. HeldOnce(state', buffer', delay_queue)
    BY <1>1, <2>1, HeldThrough DEF K3TypeOK, CallEffect
  <2>6. /\ HeldOnce(state', buffer', delay_queue') /\ delay_queue' \in Seq(Node) /\ ticks' \in Nat
    BY <1>1, <2>3, <2>5 DEF clockVars, K3TypeOK
  <2>7. \A u \in Tid : u # t => Mild(u)
    BY <2>1, EffectsMild DEF CallEffect
  <2>8. task_id_cnt' = task_id_cnt /\ jobq' = jobq
    BY <2>1 DEF CallEffect, Returns, Parks, Hands, Takes
  <2>9. ServerHolds(t)' /\ NotifierServed(t)'
    BY <2>2, <2>3, <2>4 DEF ServerHolds, NotifierServed
  <2>10. pc'[t] # "create"
    BY <2>2, <2>4
  <2>11. QED
    BY <1>1, <2>3, <2>4, <2>6, <2>7, <2>8, <2>9, <2>10, StepKeeps
<1>3. CASE clock_server_create(t)
  <2>1. /\ Create(t, INITIAL_PRIORITY, "clock_server_tick", "receive")
        /\ UNCHANGED <<server, clockVars, created>>
    BY <1>3 DEF clock_server_create, programVars, firstVars, clientVars
  <2>2. pc'[FirstTid] = "create" => created' \in 0 .. NClients + 1
    <3>1. pc'[FirstTid] \in {pc[FirstTid], "receive"}
      BY <1>1, <2>1, TidFacts DEF Create, Goto, K3TypeOK
    <3>2. QED
      BY <2>1, <3>1 DEF K3Invariant, Started
  <2>3. QED
    BY <2>1, <2>2, CreateKeepsProgram
<1>4. CASE clock_server_receive(t)
  <2>1. Receive(t) /\ Goto(t, "handle") /\ UNCHANGED <<function, created, server, ticks, delay_queue>>
    BY <1>4 DEF clock_server_receive, programVars, firstVars, clientVars, clockVars
  <2>2. delay_queue' \in Seq(Node) /\ HeldOnce(state, buffer, delay_queue')
    BY <1>1, <2>1 DEF K3TypeOK
  <2>3. QED
    BY <1>1, <2>1, <2>2, ClockReceiveKeeps
<1>5. CASE clock_server_TICK(t)
  <2>1. PICK m : Reply(t, buffer[t].from, m)
    BY <1>5 DEF clock_server_TICK
  <2>2. Goto(t, "wake") /\ UNCHANGED <<function, created, server, delay_queue>> /\ ticks' \in Nat
    BY <1>1, <1>5, K3Assumption DEF clock_server_TICK, firstVars, clientVars, K3TypeOK
  <2>3. QED
    BY <2>1, <2>2, ReplyKeepsProgram
<1>6. CASE clock_server_wake(t)
  BY <1>6, WakeKeeps
<1>7. CASE clock_server_DELAY(t)
  BY <1>7, DelayKeeps
<1>8. QED
  BY <1>2, <1>3, <1>4, <1>5, <1>6, <1>7 DEF clock_server

LEMMA NotifierKeeps ==
  ASSUME K3Invariant, KernelInvariant', NEW t \in Tid, mode = "user", current_task = t,
         function[t] = "clock_server_tick", clock_server_tick(t)
  PROVE  K3Invariant'
<1>1. /\ KernelInvariant /\ K3TypeOK /\ t \in jobq /\ buffer \in [Tid -> Message]
      /\ HeldOnce(state, buffer, delay_queue) /\ NotifierServed(t)
      /\ result \in [Tid -> Int] /\ state[t] = "RUNNING"
  BY Caller DEF K3Invariant
<1>2. parent_tid[t] \in Tid /\ parent_tid[t] \in jobq /\ parent_tid[t] >= 0
  BY <1>1 DEF NotifierServed, K3Invariant, Started, Tid
<1>3. SUFFICES
        /\ CallEffect(t) /\ NotifierServed(t)'
        /\ \E p \in {"await", "tick", "again"} : Goto(t, p)
        /\ UNCHANGED <<function, created, clockVars>>
        /\ DOMAIN server' = Tid /\ \A u \in Tid : u # t => server'[u] = server[u]
  <2>1. PICK p \in {"await", "tick", "again"} : Goto(t, p)
    BY <1>3
  <2>2. /\ DOMAIN pc' = Tid /\ pc'[t] = p /\ \A u \in Tid : u # t => pc'[u] = pc[u]
    BY <1>1, <2>1 DEF K3TypeOK, Goto
  <2>3. HeldOnce(state', buffer', delay_queue)
    BY <1>1, <1>3, HeldThrough DEF K3TypeOK, CallEffect
  <2>4. /\ HeldOnce(state', buffer', delay_queue') /\ delay_queue' \in Seq(Node) /\ ticks' \in Nat
    BY <1>1, <1>3, <2>3 DEF clockVars, K3TypeOK
  <2>5. \A u \in Tid : u # t => Mild(u)
    BY <1>3, EffectsMild DEF CallEffect
  <2>6. task_id_cnt' = task_id_cnt /\ jobq' = jobq
    BY <1>3 DEF CallEffect, Returns, Parks, Hands, Takes
  <2>7. ServerHolds(t)'
    BY <1>3 DEF ServerHolds
  <2>8. pc'[t] # "create"
    BY <2>1, <2>2
  <2>9. QED
    BY <1>1, <1>3, <2>2, <2>4, <2>5, <2>6, <2>7, <2>8, StepKeeps
<1>4. CASE notifier_start(t)
  <2>1. sys_parent_tid(t) /\ Goto(t, "await") /\ UNCHANGED <<function, created, server, clockVars>>
    BY <1>4 DEF notifier_start, programVars, firstVars, clientVars
  <2>2. Returns(t) /\ result'[t] = parent_tid[t]
    BY <1>1, <2>1, QuietReturns
  <2>3. /\ pc'[t] = "await" /\ state'[t] = "RUNNING" /\ parent_tid'[t] = parent_tid[t]
    BY <1>1, <2>1, <2>2 DEF K3TypeOK, Goto, Returns
  <2>4. NotifierServed(t)'
    BY <1>1, <2>1, <2>2, <2>3 DEF NotifierServed
  <2>5. QED
    BY <1>1, <2>1, <2>2, <2>4 DEF CallEffect, K3TypeOK
<1>5. CASE notifier_await(t)
  <2>1. /\ pc[t] \in {"await", "again"} /\ ~(pc[t] = "again" /\ result[t] < 0)
    BY <1>1, <1>5 DEF notifier_await, NotifierServed
  <2>2. /\ sys_await_event(t) /\ Goto(t, "tick") /\ UNCHANGED <<function, created, clockVars>>
        /\ server' = [server EXCEPT ![t] = IF pc[t] = "await" THEN result[t] ELSE @]
    BY <1>5, <2>1 DEF notifier_await, firstVars
  <2>3. Parks(t, "AWATIEVENT")
    BY <1>1, <2>2, AwaitParks
  <2>4. /\ pc'[t] = "tick" /\ parent_tid'[t] = parent_tid[t] /\ result'[t] = result[t]
    BY <1>1, <2>2, <2>3 DEF K3TypeOK, Goto, Parks
  <2>5. /\ DOMAIN server' = Tid /\ \A u \in Tid : u # t => server'[u] = server[u]
        /\ server'[t] = IF pc[t] = "await" THEN result[t] ELSE server[t]
    BY <1>1, <2>2 DEF K3TypeOK
  <2>6. result[t] >= 0 /\ server'[t] = parent_tid[t]
    BY <1>1, <1>2, <2>1, <2>5 DEF NotifierServed
  <2>7. NotifierServed(t)'
    BY <1>1, <2>2, <2>4, <2>6 DEF NotifierServed
  <2>8. QED
    BY <2>2, <2>3, <2>5, <2>7 DEF CallEffect
<1>6. CASE notifier_send(t)
  <2>1. pc[t] = "tick" /\ result[t] >= 0 /\ server[t] = parent_tid[t] /\ server[t] \in jobq
    BY <1>1, <1>2, <1>6 DEF notifier_send, NotifierServed
  <2>2. ~(result[t] < 0)
    BY <1>1, <2>1
  <2>3. /\ Send(t, server[t], Msg("TICK", 0)) /\ Goto(t, "again")
        /\ UNCHANGED <<function, created, server, clockVars>>
    BY <1>6, <2>2 DEF notifier_send, programVars, firstVars, clientVars
  <2>4. CallEffect(t) /\ result'[t] = result[t] /\ parent_tid'[t] = parent_tid[t]
    BY <1>1, <2>1, <2>3, SendEffect
  <2>5. pc'[t] = "again"
    BY <1>1, <2>3 DEF K3TypeOK, Goto
  <2>6. NotifierServed(t)'
    BY <1>1, <2>1, <2>3, <2>4, <2>5 DEF NotifierServed
  <2>7. QED
    BY <1>1, <2>3, <2>4, <2>6 DEF K3TypeOK
<1>7. QED
  BY <1>4, <1>5, <1>6 DEF clock_server_tick

\* Interrupts, context switches, and what touches no kernel state.
LEMMA SwitchKeeps ==
  ASSUME K3Invariant, KernelInvariant', Switches,
         UNCHANGED <<function, created, server, clockVars>>,
         DOMAIN pc' = Tid,
         \A u \in Tid : pc'[u] = pc[u] \/ (function[u] = "name_server" /\ pc[u] = "store"
                                             /\ pc'[u] = "receive")
  PROVE  K3Invariant'
<1>1. /\ KernelInvariant /\ K3TypeOK /\ Started /\ buffer \in [Tid -> Message]
      /\ HeldOnce(state, buffer, delay_queue)
  BY DEF K3Invariant, KernelInvariant, TypeOK
<1>2. K3TypeOK'
  BY <1>1 DEF K3TypeOK, clockVars
<1>3. HeldOnce(state, buffer, delay_queue)'
  <2>1. \A s \in Tid : state[s] = "WATIREPLY" => state'[s] = "WATIREPLY"
    BY DEF Switches
  <2>2. HeldOnce(state', buffer, delay_queue)
    BY <1>1, <2>1, HeldKept DEF K3TypeOK
  <2>3. QED
    BY <2>2 DEF Switches, clockVars
<1>4. Started'
  BY <1>1, TidFacts DEF Started, Switches
<1>5. ASSUME NEW u \in Tid PROVE ServerHolds(u)' /\ NotifierServed(u)'
  <2>1. ServerHolds(u) /\ NotifierServed(u)
    BY DEF K3Invariant
  <2>2. Mild(u)
    BY DEF Switches, Mild, Same
  <2>3. CASE pc'[u] = pc[u]
    BY <2>1, <2>2, <2>3, OthersServed
  <2>4. CASE function[u] = "name_server"
    BY <2>4 DEF ServerHolds, NotifierServed
  <2>5. QED
    BY <2>3, <2>4
<1>6. QED
  BY <1>2, <1>3, <1>4, <1>5 DEF K3Invariant

LEMMA K3InitInvariant == K3Init => K3Invariant
<1> SUFFICES ASSUME K3Init PROVE K3Invariant
  OBVIOUS
<1>1. KernelInvariant /\ NClients \in Nat
  BY InitInvariant, CreationsKnown DEF K3Init
<1>2. K3TypeOK
  BY DEF K3Init, K3TypeOK
<1>3. Started
  BY <1>1, TidFacts DEF K3Init, Started, Init, FirstTid, IdleTid, Tid
<1>4. HeldOnce(state, buffer, delay_queue)
  BY DEF K3Init, Init, HeldOnce, NoMessage
<1>5. \A u \in Tid : ServerHolds(u) /\ NotifierServed(u)
  BY DEF K3Init, ServerHolds, NotifierServed
<1>6. QED
  BY <1>1, <1>2, <1>3, <1>4, <1>5 DEF K3Invariant

LEMMA K3NextInvariant ==
  ASSUME K3Invariant, [K3Next]_k3vars
  PROVE  K3Invariant'
<1>1. KernelInvariant /\ KernelInvariant' /\ K3TypeOK
  BY KernelKept DEF K3Invariant
<1>2. CASE UNCHANGED k3vars
  <2>1. Switches /\ UNCHANGED <<function, pc, created, server, clockVars>>
    BY <1>2 DEF k3vars, vars, taskVars, userVars, programVars, firstVars, clientVars, Switches
  <2>2. QED
    BY <1>1, <2>1, SwitchKeeps DEF K3TypeOK
<1>3. CASE Resume \/ Timer
  <2>1. Switches
    BY <1>1, <1>3, IrqSwitches, ScheduleSwitches DEF Resume, Timer
  <2>2. UNCHANGED <<function, pc, created, server, clockVars>>
    BY <1>3 DEF Resume, Timer, programVars, firstVars, clientVars
  <2>3. QED
    BY <1>1, <2>1, <2>2, SwitchKeeps DEF K3TypeOK
<1>4. ASSUME NEW t \in Tid, UserStep(t) PROVE K3Invariant'
  <2>1. mode = "user" /\ current_task = t
    BY <1>4 DEF UserStep
  <2>2. CASE Program(t)
    BY <1>1, <2>1, <2>2, FirstKeeps, ClientKeeps, NameServerKeeps, ClockServerKeeps,
       NotifierKeeps DEF Program
  <2>3. CASE function[t] = "name_server" /\ name_server_store(t)
    <3>1. /\ Switches /\ UNCHANGED <<function, created, server, clockVars>>
      BY <2>3 DEF name_server_store, vars, taskVars, userVars, firstVars, clientVars, Switches
    <3>2. /\ DOMAIN pc' = Tid /\ pc[t] = "store" /\ pc'[t] = "receive"
          /\ \A u \in Tid : u # t => pc'[u] = pc[u]
      BY <1>1, <2>3 DEF name_server_store, K3TypeOK, Goto
    <3>3. \A u \in Tid : pc'[u] = pc[u] \/ (function[u] = "name_server" /\ pc[u] = "store"
                                              /\ pc'[u] = "receive")
      BY <2>3, <3>2
    <3>4. QED
      BY <1>1, <3>1, <3>2, <3>3, SwitchKeeps
  <2>4. QED
    BY <1>4, <2>2, <2>3 DEF UserStep
<1>5. QED
  BY <1>2, <1>3, <1>4 DEF K3Next

-----------------------------------------------------------------------------
(* The theorems.                                                           *)

\* The messages the program's tasks hold, their control points and the kernel's
\* state agree in every reachable state (k3_user_tasks.c, clock_server.c,
\* name_server.c), for any number of clients and any timing of interrupts.
THEOREM K3InvariantHolds == K3Spec => []K3Invariant
BY K3InitInvariant, K3NextInvariant, PTL DEF K3Spec

\* The booted program uses the kernel as intended: each of its steps is one the
\* kernel's specification allows to well-behaved programs (sys_reply,
\* sys_await_event).
THEOREM ProgramUsesKernel == WellBehaved /\ (K3Spec => Spec)
<1>1. K3Init => Init
  BY DEF K3Init
<1>2. K3Invariant /\ [K3Next]_k3vars => [Next]_vars
  BY StepOfKernel
<1>3. QED
  BY <1>1, <1>2, K3WellBehaved, K3InvariantHolds, PTL DEF K3Spec, Spec

\* Whoever a server is about to answer waits for that answer, and for no other,
\* and no assertion of the kernel fails for the booted program.
THEOREM RepliesAreAwaited == K3Spec => []RepliesAwaited
<1>1. K3Invariant => RepliesAwaited
  <2> SUFFICES ASSUME K3Invariant PROVE RepliesAwaited
    OBVIOUS
  <2>1. /\ NoAssertionFailure /\ jobq \subseteq Tid /\ HeldOnce(state, buffer, delay_queue)
        /\ DOMAIN delay_queue = 1 .. Len(delay_queue)
    BY LiveAreTids DEF K3Invariant, KernelInvariant, K3TypeOK
  <2>2. QED
    BY <2>1 DEF RepliesAwaited, HeldOnce, HasMessage
<1>2. QED
  BY <1>1, K3InvariantHolds, PTL

\* AwaitEvent never seems to have failed to the notifier, so it never gives up
\* (clock_server_tick): the calls before it return a tid or a length, since the
\* clock server never exits and a sender queue never fills up.
THEOREM AwaitEventNeverFails == K3Spec => []AwaitEventSucceeds
<1>1. K3Invariant => AwaitEventSucceeds
  BY LiveAreTids DEF K3Invariant, NotifierServed, AwaitEventSucceeds
<1>2. QED
  BY <1>1, K3InvariantHolds, PTL

\* To the booted program the kernel keeps every promise: queues, pools and task
\* states agree, the highest priority runs, Send finds room, no stack is shared
\* or leaked, and messages arrive as MessagePassing says.
THEOREM BootedKernelSafe ==
  K3Spec => /\ [](KernelInvariant /\ PriorityRespected /\ SenderQueueHasRoom /\ StackOwnership)
            /\ ImplementsMessagePassing
<1>1. K3Spec => Spec
  BY ProgramUsesKernel
<1>2. /\ Spec => []KernelInvariant
      /\ Spec => []PriorityRespected
      /\ Spec => []SenderQueueHasRoom
      /\ Spec => []StackOwnership
      /\ Spec => ImplementsMessagePassing
  BY K3WellBehaved, KernelInvariantHolds, HighestPriorityRuns, SendersHaveRoom, StacksOwned,
     MessagesImplemented
<1>3. QED
  BY <1>1, <1>2, PTL
=============================================================================
