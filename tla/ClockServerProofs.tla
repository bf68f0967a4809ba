------------------------- MODULE ClockServerProofs -------------------------
(***************************************************************************)
(* Theorems about ClockServer, for any number of clients, any width of the *)
(* tick count, any arguments and any pool with a chunk per client.         *)
(***************************************************************************)
EXTENDS ClockServer, FiniteSetTheorems, SequenceTheorems, TLAPS

-----------------------------------------------------------------------------
(* The inductive invariant.                                                *)

Queued == 1 .. Len(delay_queue)
InQueue(c) == \E i \in Queued : delay_queue[i].tid = c
Handling(t) == server = "handle" /\ tid = t

\* The sender queue holds tasks that wait in it, each once; the notifier does
\* not exist before the server creates it.
SendersWait ==
  /\ \A i \in 1 .. Len(senders) : state[senders[i]] = "WATISEND"
  /\ \A i, j \in 1 .. Len(senders) : senders[i] = senders[j] => i = j
  /\ server = "start" => state[notifier] = "none"

\* A client waits for an answer exactly when it is queued or being handled.
AnswersOwed ==
  /\ server # "fault"
  /\ \A i \in Queued : delay_queue[i].tid \in Clients
  /\ \A i, j \in Queued : delay_queue[i].tid = delay_queue[j].tid => i = j
  /\ \A c \in Clients : ~(InQueue(c) /\ Handling(c))
  /\ \A c \in Clients : state[c] = "WATIREPLY" <=> InQueue(c) \/ Handling(c)
  /\ server = "handle" => state[tid] = "WATIREPLY"

\* The message m is the one the call of client c sent.
Asked(c, m) ==
  /\ m.action = call[c].action /\ m.action # "TICK"
  /\ m.action \in {"DELAY", "DELAY_UNTIL"} =>
       m.ticks = call[c].arg

\* What waits in a buffer or is being handled is what its sender asked for.
MessagesKept ==
  /\ \A c \in Clients : state[c] = "WATISEND" => Asked(c, buffer[c])
  /\ \A c \in Clients : Handling(c) => Asked(c, msg)
  /\ state[notifier] = "WATISEND" => buffer[notifier].action = "TICK"
  /\ Handling(notifier) => msg.action = "TICK"

\* A client answered no sooner than after d - 1 interrupts; before that, the
\* interrupts it has seen are the ticks since its call was handled and the one
\* on its way, but for one.
SeenEnough(c) ==
  call[c].action = "DELAY" /\ ~wrapped[c] => elapsed[c] >= call[c].arg - 1
SeenSoFar(c) ==
  call[c].action = "DELAY" /\ ~wrapped[c] =>
    \/ elapsed[c] >= call[c].arg - 1
    \/ elapsed[c] >= (ticks + InFlight) - (due[c] - call[c].arg) - 1

\* A node of the delay queue holds the deadline of its client's call.
DeadlinesKept ==
  \A i \in Queued :
    LET c == delay_queue[i].tid IN
    /\ delay_queue[i].delay = due[c]
    /\ call[c].action = "DELAY_UNTIL" => due[c] = call[c].arg
    /\ SeenSoFar(c)

\* What an answered call is about to return.
Answered ==
  \A c \in Clients : state[c] = "replied" =>
    /\ SeenEnough(c)
    /\ call[c].action = "DELAY_UNTIL" => buffer[c].ticks = call[c].arg
    /\ call[c].action = "DELAY" => buffer[c].ticks = due[c]

\* The queue is in order and no deadline is behind the clock.
ClockAhead ==
  /\ \A i, j \in Queued : i < j => delay_queue[i].delay <= delay_queue[j].delay
  /\ server \in {"receive", "handle"} => \A i \in Queued : delay_queue[i].delay > ticks
  /\ server = "wake" => /\ \A i \in Queued : delay_queue[i].delay >= ticks
                        /\ ticks = 0 => delay_queue = <<>>
                        /\ msg.ticks = ticks
  /\ server = "start" => delay_queue = <<>>

\* Every chunk is in one place.
Free == 1 .. Len(unused)
ChunksOnce ==
  /\ Len(unused) + Len(delay_queue) = CHUNKS
  /\ \A i, j \in Free : unused[i] = unused[j] => i = j
  /\ \A i, j \in Queued : delay_queue[i].chunk = delay_queue[j].chunk => i = j
  /\ \A i \in Free, j \in Queued : unused[i] # delay_queue[j].chunk
  /\ \A k \in 1 .. CHUNKS : \/ \E i \in Free : unused[i] = k
                            \/ \E i \in Queued : delay_queue[i].chunk = k

ClockInvariant ==
  /\ TypeOK /\ SendersWait /\ AnswersOwed /\ MessagesKept /\ DeadlinesKept
  /\ Answered /\ ClockAhead /\ ChunksOnce /\ TicksAccounted

-----------------------------------------------------------------------------
(* Numbers and sequences.                                                  *)

\* A set of numbers that is not empty has a least element.
LEMMA Least ==
  ASSUME NEW T \in SUBSET Nat, T # {}
  PROVE  \E x \in T : \A y \in T : x <= y
<1> DEFINE R == OpToRel(<, Nat)
<1>1. IsWellFoundedOn(R, Nat)
  BY NatLessThanWellFounded
<1>2. \A a, b \in Nat : <<a, b>> \in R <=> a < b
  BY DEF OpToRel
<1> HIDE DEF R
<1>3. PICK x \in T : \A y \in T : ~(<<y, x>> \in R)
  BY <1>1, WFMin
<1>4. ASSUME NEW y \in T PROVE x <= y
  <2>1. x \in Nat /\ y \in Nat /\ ~(<<y, x>> \in R)
    BY <1>3
  <2>2. ~(y < x)
    BY <1>2, <2>1
  <2>3. QED
    BY <2>1, <2>2
<1>5. QED
  BY <1>4

\* A sum of two u32 wraps around at most once.
LEMMA Wraps ==
  ASSUME NEW a \in 0 .. M - 1, NEW b \in 0 .. M - 1
  PROVE  /\ (a + b) % M = IF a + b < M THEN a + b ELSE a + b - M
         /\ (a + b) % M \in 0 .. M - 1 /\ M \in Nat /\ M >= 2 /\ I32Max < M
<1>1. M \in Nat /\ M >= 2 /\ I32Max < M /\ I32Max \in Nat
  BY WidthAssumption DEF M
<1> HIDE DEF M
<1>2. PICK x \in Int : x = a + b
  BY <1>1
<1>3. x % M = IF x < M THEN x ELSE x - M
  <2>1. CASE x < M
    BY <1>1, <1>2, <2>1
  <2>2. CASE x >= M
    BY <1>1, <1>2, <2>2
  <2>3. QED
    BY <1>1, <1>2, <2>1, <2>2
<1>4. QED
  BY <1>1, <1>2, <1>3

\* A negative i32 and its u32 are equal modulo M.
LEMMA SignWraps ==
  ASSUME NEW u \in 0 .. M - 1
  PROVE  ToI32(u) % M = u /\ ToI32(u) <= I32Max /\ (u <= I32Max => ToI32(u) = u)
<1>1. M \in Nat /\ M >= 2 /\ M = 2 * (I32Max + 1) /\ I32Max \in Nat
  BY WidthAssumption DEF M
<1> HIDE DEF M
<1>2. u % M = u
  BY <1>1
<1>3. (u - M) % M = u
  <2>1. PICK x \in Int : x = u - M
    BY <1>1
  <2>2. x % M = x + M
    BY <1>1, <2>1
  <2>3. QED
    BY <1>1, <2>1, <2>2
<1>4. QED
  BY <1>1, <1>2, <1>3 DEF ToI32

\* The last chunk of the free list is taken off.
LEMMA FrontIs ==
  ASSUME NEW S, NEW s \in Seq(S), s # <<>>
  PROVE  /\ Front(s) \in Seq(S) /\ Len(Front(s)) = Len(s) - 1 /\ Len(s) \in Nat \ {0}
         /\ Last(s) = s[Len(s)] /\ Last(s) \in S
         /\ \A i \in 1 .. Len(s) - 1 : Front(s)[i] = s[i]
<1>0. Len(s) \in Nat \ {0}
  BY EmptySeq
<1>1. Len(s) \in Nat \ {0} /\ \A i \in 1 .. Len(s) : s[i] \in S
  BY <1>0, ElementOfSeq
<1>2. /\ SubSeq(s, 1, Len(s) - 1) \in Seq(S) /\ Len(SubSeq(s, 1, Len(s) - 1)) = Len(s) - 1
      /\ \A i \in 1 .. Len(s) - 1 : SubSeq(s, 1, Len(s) - 1)[i] = s[1 + i - 1]
  <2>1. \A i \in 1 .. Len(s) - 1 : s[i] \in S
    BY <1>1
  <2>2. 1 \in Int /\ Len(s) - 1 \in Int
    BY <1>1
  <2>3. /\ SubSeq(s, 1, Len(s) - 1) \in Seq(S)
        /\ Len(SubSeq(s, 1, Len(s) - 1)) = IF 1 <= Len(s) - 1 THEN Len(s) - 1 - 1 + 1 ELSE 0
        /\ \A i \in 1 .. Len(s) - 1 - 1 + 1 : SubSeq(s, 1, Len(s) - 1)[i] = s[1 + i - 1]
    BY <2>1, <2>2, SubSeqProperties
  <2>4. Len(s) - 1 - 1 + 1 = Len(s) - 1 /\ (~(1 <= Len(s) - 1) => Len(s) - 1 = 0)
    <3>1. \A n \in Nat \ {0} : n - 1 - 1 + 1 = n - 1 /\ (~(1 <= n - 1) => n - 1 = 0)
      OBVIOUS
    <3>2. QED
      BY <1>0, <3>1
  <2>5. QED
    BY <2>3, <2>4
<1>3. QED
  BY <1>1, <1>2 DEF Front, Last

\* r is q with a node put in behind p others, which are not later, and before
\* one that is.
Inserted(q, node, r, p) ==
  /\ r[p + 1] = node
  /\ \A i \in 1 .. p : r[i] = q[i] /\ q[i].delay <= node.delay
  /\ \A i \in p + 1 .. Len(q) : r[i + 1] = q[i]
  /\ p < Len(q) => q[p + 1].delay > node.delay

\* delay_queue_add puts the node at one place and keeps the others in order.
LEMMA AddIs ==
  ASSUME NEW q \in Seq(Node), NEW node \in Node
  PROVE  /\ delay_queue_add(q, node) \in Seq(Node) /\ Len(delay_queue_add(q, node)) = Len(q) + 1
         /\ \E p \in 0 .. Len(q) : Inserted(q, node, delay_queue_add(q, node), p)
<1> DEFINE later(i) == q[i].delay > node.delay
           P == {i \in DOMAIN q : \A j \in 1 .. i : q[j].delay <= node.delay}
           L == {i \in 1 .. Len(q) : later(i)}
<1>1. /\ Len(q) \in Nat /\ DOMAIN q = 1 .. Len(q) /\ node.delay \in Int
      /\ \A i \in 1 .. Len(q) : q[i] \in Node /\ q[i].delay \in Int
  <2>1. Len(q) \in Nat /\ DOMAIN q = 1 .. Len(q) /\ \A i \in 1 .. Len(q) : q[i] \in Node
    BY LenProperties, ElementOfSeq
  <2>2. \A n \in Node : n.delay \in Int
    BY WidthAssumption DEF Node, M
  <2>3. QED
    BY <2>1, <2>2
<1>2. PICK k \in 0 .. Len(q) : P = 1 .. k /\ (k < Len(q) => later(k + 1))
  <2>1. CASE L = {}
    <3>1. P = 1 .. Len(q)
      BY <1>1, <2>1
    <3>2. QED
      BY <1>1, <3>1
  <2>2. CASE L # {}
    <3>1. L \in SUBSET Nat
      OBVIOUS
    <3>2. PICK m \in L : \A y \in L : m <= y
      BY <2>2, <3>1, Least
    <3>3. m \in 1 .. Len(q) /\ later(m) /\ \A j \in 1 .. Len(q) : j < m => q[j].delay <= node.delay
      BY <1>1, <3>2
    <3>4. P = 1 .. m - 1
      BY <1>1, <3>3
    <3>5. m - 1 \in 0 .. Len(q) /\ later(m - 1 + 1)
      BY <1>1, <3>3
    <3>6. QED
      BY <3>4, <3>5
  <2>3. QED
    BY <2>1, <2>2
<1>3. Cardinality(P) = k
  <2>1. Cardinality(1 .. k) = IF 1 > k THEN 0 ELSE k - 1 + 1
    BY FS_Interval
  <2>2. P = 1 .. k /\ k \in Nat
    BY <1>1, <1>2
  <2> HIDE DEF P
  <2>3. Cardinality(1 .. k) = k
    BY <2>1, <2>2
  <2>4. QED
    BY <2>2, <2>3
<1> DEFINE a == SubSeq(q, 1, k)
           b == SubSeq(q, k + 1, Len(q))
           r == a \o <<node>> \o b
<1>4. delay_queue_add(q, node) = r
  BY <1>3 DEF delay_queue_add
<1>5. /\ a \in Seq(Node) /\ Len(a) = k /\ \A i \in 1 .. k : a[i] = q[i]
      /\ b \in Seq(Node) /\ Len(b) = Len(q) - k
      /\ \A i \in 1 .. Len(q) - k : b[i] = q[k + i]
  <2>1. /\ a \in Seq(Node) /\ Len(a) = (IF 1 <= k THEN k - 1 + 1 ELSE 0)
        /\ \A i \in 1 .. k - 1 + 1 : a[i] = q[1 + i - 1]
    <3>1. \A i \in 1 .. k : q[i] \in Node
      BY <1>1
    <3>2. QED
      BY <3>1, SubSeqProperties
  <2>2. /\ b \in Seq(Node) /\ Len(b) = (IF k + 1 <= Len(q) THEN Len(q) - (k + 1) + 1 ELSE 0)
        /\ \A i \in 1 .. Len(q) - (k + 1) + 1 : b[i] = q[k + 1 + i - 1]
    <3>1. \A i \in k + 1 .. Len(q) : q[i] \in Node
      BY <1>1
    <3>2. k + 1 \in Int /\ Len(q) \in Int
      BY <1>1
    <3>3. QED
      BY <3>1, <3>2, SubSeqProperties
  <2>3. ASSUME NEW i \in 1 .. Len(q) - k PROVE b[i] = q[k + i]
    <3>1. i \in 1 .. Len(q) - (k + 1) + 1 /\ k + 1 + i - 1 = k + i
      BY <1>1
    <3>2. QED
      BY <2>2, <3>1
  <2>4. Len(a) = k /\ Len(b) = Len(q) - k
    <3>1. \A m, n \in Nat : /\ (IF 1 <= m THEN m - 1 + 1 ELSE 0) = m
                            /\ m <= n => (IF m + 1 <= n THEN n - (m + 1) + 1 ELSE 0) = n - m
      OBVIOUS
    <3>2. k \in Nat /\ Len(q) \in Nat /\ k <= Len(q)
      BY <1>1
    <3> HIDE DEF a, b
    <3>3. QED
      BY <2>1, <2>2, <3>1, <3>2
  <2>5. \A i \in 1 .. k : a[i] = q[i]
    BY <2>1
  <2>6. QED
    BY <2>1, <2>2, <2>3, <2>4, <2>5
<1> HIDE DEF a, b
<1>6. /\ a \o <<node>> \in Seq(Node) /\ Len(a \o <<node>>) = k + 1
      /\ \A i \in 1 .. k : (a \o <<node>>)[i] = a[i]
      /\ (a \o <<node>>)[k + 1] = node
  BY <1>5, ConcatProperties
<1> DEFINE an == a \o <<node>>
<1> HIDE DEF an
<1>7. /\ an \o b \in Seq(Node) /\ Len(an \o b) = Len(q) + 1
      /\ \A i \in 1 .. k + 1 : (an \o b)[i] = an[i]
      /\ \A i \in k + 2 .. Len(q) + 1 : (an \o b)[i] = b[i - (k + 1)]
  <2>1. an \in Seq(Node) /\ Len(an) = k + 1
    BY <1>6 DEF an
  <2>2. /\ an \o b \in Seq(Node) /\ Len(an \o b) = Len(an) + Len(b)
        /\ \A i \in 1 .. Len(an) + Len(b) :
             (an \o b)[i] = IF i <= Len(an) THEN an[i] ELSE b[i - Len(an)]
    BY <1>5, <2>1, ConcatProperties
  <2>3. Len(b) = Len(q) - k /\ Len(an) + Len(b) = Len(q) + 1 /\ k \in Int /\ Len(q) \in Int
    BY <1>1, <1>5, <2>1
  <2>4. ASSUME NEW i \in 1 .. k + 1 PROVE (an \o b)[i] = an[i]
    BY <1>1, <2>1, <2>2, <2>3
  <2>5. ASSUME NEW i \in k + 2 .. Len(q) + 1 PROVE (an \o b)[i] = b[i - (k + 1)]
    BY <1>1, <2>1, <2>2, <2>3
  <2>6. QED
    BY <2>2, <2>3, <2>4, <2>5
<1>8. r = an \o b
  BY DEF an
<1>9. r[k + 1] = node /\ \A i \in 1 .. k : r[i] = q[i] /\ q[i].delay <= node.delay
  <2>1. ASSUME NEW i \in 1 .. k PROVE r[i] = q[i] /\ q[i].delay <= node.delay
    <3>1. i \in P
      BY <1>2
    <3>2. q[i].delay <= node.delay
      BY <1>1, <3>1
    <3>3. QED
      BY <1>5, <1>6, <1>7, <1>8, <3>2 DEF an
  <2>2. QED
    BY <1>6, <1>7, <1>8, <2>1 DEF an
<1>10. \A i \in k + 1 .. Len(q) : r[i + 1] = q[i]
  <2>1. ASSUME NEW i \in k + 1 .. Len(q) PROVE r[i + 1] = q[i]
    <3>1. i + 1 \in k + 2 .. Len(q) + 1 /\ i + 1 - (k + 1) = i - k /\ i - k \in 1 .. Len(q) - k
          /\ k + (i - k) = i
      BY <1>1
    <3>2. r[i + 1] = b[i - k] /\ b[i - k] = q[k + (i - k)]
      BY <1>5, <1>7, <1>8, <3>1
    <3>3. QED
      BY <3>1, <3>2
  <2>2. QED
    BY <2>1
<1> HIDE DEF r, P
<1>11. r \in Seq(Node) /\ Len(r) = Len(q) + 1
  BY <1>7, <1>8
<1>12. Inserted(q, node, r, k)
  BY <1>2, <1>9, <1>10 DEF Inserted
<1>13. QED
  BY <1>4, <1>11, <1>12

-----------------------------------------------------------------------------
(* Type correctness.                                                       *)

LEMMA Typed ==
  /\ M \in Nat /\ M >= 2 /\ I32Max \in Nat /\ I32Max < M
  /\ NoMsg \in ClockServerMsg
  /\ \A m \in ClockServerMsg : m.action \in Action /\ m.ticks \in 0 .. M - 1
  /\ \A m \in ClockServerMsg, u \in 0 .. M - 1 :
       /\ [m EXCEPT !.ticks = u] \in ClockServerMsg
       /\ [m EXCEPT !.ticks = u].ticks = u /\ [m EXCEPT !.ticks = u].action = m.action
  /\ \A a \in Action, u \in 0 .. M - 1 :
       /\ Msg(a, u) \in ClockServerMsg /\ Msg(a, u).action = a /\ Msg(a, u).ticks = u
  /\ \A n \in Node : n.tid \in Tasks /\ n.delay \in 0 .. M - 1 /\ n.chunk \in 1 .. CHUNKS
  /\ notifier \in Tasks /\ Clients \subseteq Tasks /\ notifier \notin Clients
<1>1. M \in Nat /\ M >= 2 /\ I32Max \in Nat /\ I32Max < M
  BY WidthAssumption DEF M
<1> HIDE DEF M
<1>2. 0 \in 0 .. M - 1
  BY <1>1
<1>3. QED
  BY <1>1, <1>2, ClientAssumption DEF ClockServerMsg, NoMsg, Msg, Action, Node, Tasks

LEMMA TargetTyped ==
  ASSUME TypeOK
  PROVE  DelayTarget \in 0 .. M - 1
BY Typed, Wraps DEF TypeOK, DelayTarget

LEMMA InitTyped == Init => TypeOK
<1> SUFFICES ASSUME Init PROVE TypeOK
  OBVIOUS
<1>1. unused \in Seq(1 .. CHUNKS)
  BY ChunkAssumption DEF Init
<1>2. 0 \in 0 .. M - 1 /\ 0 \in 0 .. I32Max
  BY Typed
<1>3. QED
  BY <1>1, <1>2, Typed DEF Init, TypeOK, NoCall

LEMMA NextTyped == TypeOK /\ [Next]_vars => TypeOK'
<1> SUFFICES ASSUME TypeOK, [Next]_vars PROVE TypeOK'
  OBVIOUS
<1>0. /\ ticks \in 0 .. M - 1 /\ delay_queue \in Seq(Node) /\ unused \in Seq(1 .. CHUNKS)
      /\ tid \in Tasks /\ msg \in ClockServerMsg /\ senders \in Seq(Tasks)
      /\ buffer \in [Tasks -> ClockServerMsg]
  BY DEF TypeOK
<1>1. ASSUME NEW t \in Tasks, NEW m \in ClockServerMsg, Send(t, m)
      PROVE  /\ senders' \in Seq(Tasks) /\ buffer' \in [Tasks -> ClockServerMsg]
             /\ state' \in [Tasks -> {"none", "ready", "AWATIEVENT", "woken", "WATISEND",
                                      "WATIREPLY", "replied"}]
  BY <1>1 DEF Send, TypeOK
<1>2. ASSUME NEW t \in Tasks, NEW m \in ClockServerMsg, Reply(t, m)
      PROVE  /\ buffer' \in [Tasks -> ClockServerMsg]
             /\ state' \in [Tasks -> {"none", "ready", "AWATIEVENT", "woken", "WATISEND",
                                      "WATIREPLY", "replied"}]
  BY <1>2 DEF Reply, TypeOK
<1>3. CASE UNCHANGED vars
  BY <1>3 DEF vars, serverVars, history, TypeOK
<1>4. CASE clock_server_start
  BY <1>4 DEF clock_server_start, history, TypeOK
<1>5. CASE clock_server_receive
  <2>1. Head(senders) \in Tasks /\ Tail(senders) \in Seq(Tasks)
    BY <1>0, <1>5, HeadTailProperties DEF clock_server_receive
  <2>2. buffer[Head(senders)] \in ClockServerMsg
    BY <1>0, <2>1
  <2>3. QED
    BY <1>5, <2>1, <2>2 DEF clock_server_receive, history, TypeOK
<1>6. CASE clock_server_TICK
  <2>1. (ticks + 1) % M \in 0 .. M - 1
    <3>1. 1 \in 0 .. M - 1
      BY Typed
    <3>2. QED
      BY <1>0, <3>1, Wraps
  <2>2. Reply(tid, msg) /\ ticks' \in 0 .. M - 1 /\ msg' \in ClockServerMsg /\ server' = "wake"
    BY <1>0, <1>6, <2>1, Typed DEF clock_server_TICK
  <2>3. QED
    BY <1>0, <1>2, <1>6, <2>2 DEF clock_server_TICK, history, TypeOK
<1>7. CASE clock_server_wake
  <2>1. delay_queue # <<>> /\ Reply(delay_queue[1].tid, msg)
    BY <1>7 DEF clock_server_wake, Due
  <2>2. /\ delay_queue[1] \in Node /\ delay_queue[1].tid \in Tasks
        /\ delay_queue[1].chunk \in 1 .. CHUNKS /\ Tail(delay_queue) \in Seq(Node)
    <3>1. Len(delay_queue) \in Nat \ {0}
      BY <1>0, <2>1, EmptySeq
    <3>2. delay_queue[1] \in Node
      BY <1>0, <3>1, ElementOfSeq
    <3>3. QED
      BY <1>0, <2>1, <3>2, Typed, HeadTailProperties
  <2>3. Append(unused, delay_queue[1].chunk) \in Seq(1 .. CHUNKS)
    BY <1>0, <2>2, AppendProperties
  <2>4. QED
    BY <1>0, <1>2, <1>7, <2>1, <2>2, <2>3
       DEF clock_server_wake, memory_pool_free, delay_queue_pop, history, TypeOK
<1>8. CASE clock_server_awake
  BY <1>8, Typed DEF clock_server_awake, NextReceive, history, TypeOK
<1>9. CASE clock_server_TIME
  <2>1. Reply(tid, [msg EXCEPT !.ticks = ticks]) /\ [msg EXCEPT !.ticks = ticks] \in ClockServerMsg
    BY <1>0, <1>9, Typed DEF clock_server_TIME
  <2>2. QED
    BY <1>0, <1>2, <1>9, <2>1, Typed DEF clock_server_TIME, NextReceive, history, TypeOK
<1>10. CASE clock_server_DELAY
  <2>1. /\ due' \in [Clients -> 0 .. M - 1] /\ wrapped' \in [Clients -> BOOLEAN]
        /\ UNCHANGED <<ticks, senders, call, elapsed, delivered>>
    <3>1. due' = [due EXCEPT ![tid] = DelayTarget] /\ DelayTarget \in 0 .. M - 1
      BY <1>10, TargetTyped DEF clock_server_DELAY
    <3>2. \E v \in BOOLEAN : wrapped' = [wrapped EXCEPT ![tid] = v]
      BY <1>10 DEF clock_server_DELAY
    <3>3. due' \in [Clients -> 0 .. M - 1]
      BY <3>1 DEF TypeOK
    <3>4. wrapped' \in [Clients -> BOOLEAN]
      BY <3>2 DEF TypeOK
    <3>5. QED
      BY <1>10, <3>3, <3>4 DEF clock_server_DELAY
  <2>2. CASE DelayTarget <= ticks
    <3>1. /\ Reply(tid, [msg EXCEPT !.ticks = DelayTarget]) /\ NextReceive
          /\ UNCHANGED <<delay_queue, unused>>
      BY <1>0, <1>10, <2>2, TargetTyped DEF clock_server_DELAY
    <3>2. [msg EXCEPT !.ticks = DelayTarget] \in ClockServerMsg
      BY <1>0, TargetTyped, Typed
    <3>3. QED
      BY <1>0, <1>2, <2>1, <3>1, <3>2, Typed DEF NextReceive, TypeOK
  <2>3. CASE DelayTarget > ticks /\ unused = <<>>
    <3>1. ~(DelayTarget <= ticks)
      BY <1>0, <2>3, TargetTyped
    <3>2. server' = "fault" /\ UNCHANGED <<delay_queue, unused, tid, msg, state, buffer>>
      BY <1>10, <2>3, <3>1 DEF clock_server_DELAY
    <3>3. QED
      BY <2>1, <3>2 DEF TypeOK
  <2>4. CASE DelayTarget > ticks /\ unused # <<>>
    <3> DEFINE node == [tid |-> tid, delay |-> DelayTarget, chunk |-> Last(unused)]
    <3>1. /\ delay_queue' = delay_queue_add(delay_queue, node) /\ unused' = Front(unused)
          /\ NextReceive /\ UNCHANGED <<state, buffer>>
      BY <1>0, <1>10, <2>4, TargetTyped DEF clock_server_DELAY
    <3>2. Last(unused) \in 1 .. CHUNKS /\ Front(unused) \in Seq(1 .. CHUNKS)
      BY <1>0, <2>4, FrontIs
    <3>3. node \in Node
      BY <1>0, <3>2, TargetTyped DEF Node
    <3>4. delay_queue_add(delay_queue, node) \in Seq(Node)
      BY <1>0, <3>3, AddIs
    <3> HIDE DEF node
    <3>5. QED
      BY <2>1, <3>1, <3>2, <3>4, Typed DEF NextReceive, TypeOK
  <2>5. QED
    BY <1>0, <2>2, <2>3, <2>4, TargetTyped
<1>11. CASE clock_server_tick_await
  BY <1>11 DEF clock_server_tick_await, serverVars, history, TypeOK
<1>12. CASE clock_server_tick_send
  <2>1. /\ Send(notifier, Msg("TICK", buffer[notifier].ticks))
        /\ Msg("TICK", buffer[notifier].ticks) \in ClockServerMsg
    BY <1>0, <1>12, Typed DEF clock_server_tick_send, Action
  <2>2. QED
    BY <1>1, <1>12, <2>1, Typed DEF clock_server_tick_send, serverVars, history, TypeOK
<1>13. CASE timer_interrupt
  <2>1. elapsed' \in [Clients -> 0 .. I32Max]
    <3>1. ASSUME NEW c \in Clients
          PROVE  /\ elapsed[c] \in 0 .. I32Max /\ call[c].arg \in 0 .. I32Max
                 /\ elapsed[c] < call[c].arg - 1 => elapsed[c] + 1 \in 0 .. I32Max
      BY Typed DEF TypeOK
    <3>2. QED
      BY <1>13, <3>1 DEF timer_interrupt
  <2>2. (delivered + 1) % M \in 0 .. M - 1
    <3>1. 1 \in 0 .. M - 1
      BY Typed
    <3>2. QED
      BY <3>1, Wraps DEF TypeOK
  <2>3. QED
    BY <1>13, <2>1, <2>2 DEF timer_interrupt, serverVars, TypeOK
<1>14. ASSUME NEW c \in Clients, Client(c) PROVE TypeOK'
  <2>1. ASSUME NEW a \in {"TIME", "DELAY", "DELAY_UNTIL"}, NEW d \in 0 .. I32Max,
               Ask(c, a, d, Msg(a, d))
        PROVE  TypeOK'
    <3>1. Msg(a, d) \in ClockServerMsg
      BY Typed DEF Action
    <3>2. Send(c, Msg(a, d)) /\ call' = [call EXCEPT ![c] = [action |-> a, arg |-> d]]
          /\ UNCHANGED <<serverVars, history>>
      BY <2>1 DEF Ask
    <3>3. QED
      BY <1>1, <3>1, <3>2, Typed DEF serverVars, history, TypeOK
  <2>2. CASE Time(c)
    BY <2>1, <2>2, Typed DEF Time
  <2>3. CASE Delay(c) \/ DelayUntil(c)
    BY <2>1, <2>3, WidthAssumption DEF Delay, DelayUntil
  <2>4. CASE Return(c)
    <3>1. 0 \in 0 .. M - 1 /\ 0 \in 0 .. I32Max
      BY Typed
    <3>2. QED
      BY <2>4, <3>1, Typed DEF Return, serverVars, NoCall, TypeOK
  <2>5. QED
    BY <1>14, <2>2, <2>3, <2>4 DEF Client
<1>15. QED
  BY <1>3, <1>4, <1>5, <1>6, <1>7, <1>8, <1>9, <1>10, <1>11, <1>12, <1>13, <1>14
     DEF Next, Server

-----------------------------------------------------------------------------
(* ClockInvariant is inductive.                                            *)

LEMMA InitClock == Init => ClockInvariant
<1> SUFFICES ASSUME Init PROVE ClockInvariant
  OBVIOUS
<1>1. /\ ticks = 0 /\ delay_queue = <<>> /\ Len(delay_queue) = 0
      /\ Len(unused) = CHUNKS /\ \A i \in 1 .. CHUNKS : unused[i] = i
      /\ senders = <<>> /\ Len(senders) = 0 /\ server = "start" /\ CHUNKS \in Nat
      /\ state[notifier] = "none" /\ delivered = 0
      /\ \A c \in Clients : state[c] = "ready"
  BY ChunkAssumption, Typed DEF Init
<1>2. ChunksOnce
  BY <1>1 DEF ChunksOnce, Free, Queued
<1>3. TicksAccounted
  <2>1. InFlight = 0
    BY <1>1 DEF InFlight
  <2>2. 0 \in 0 .. M - 1
    BY Typed
  <2>3. (0 + 0) % M = 0
    BY <2>2, Wraps
  <2>4. QED
    BY <1>1, <2>1, <2>3 DEF TicksAccounted
<1>4. SendersWait /\ AnswersOwed /\ MessagesKept /\ DeadlinesKept /\ Answered /\ ClockAhead
  BY <1>1 DEF SendersWait, AnswersOwed, MessagesKept, DeadlinesKept, Answered, ClockAhead,
     Queued, InQueue, Handling
<1>5. QED
  BY <1>2, <1>3, <1>4, InitTyped DEF ClockInvariant

\* What the server knows of the message it handles: a tick comes from the
\* notifier, everything else from a client that is not in the delay queue.
LEMMA Handled ==
  ASSUME ClockInvariant, server = "handle"
  PROVE  /\ tid \in Tasks /\ state[tid] = "WATIREPLY"
         /\ msg.action = "TICK" <=> tid = notifier
         /\ msg.action # "TICK" => tid \in Clients /\ Asked(tid, msg) /\ ~InQueue(tid)
         /\ \A i \in 1 .. Len(senders) : senders[i] # tid
<1>1. tid \in Tasks /\ state[tid] = "WATIREPLY"
  BY DEF ClockInvariant, TypeOK, AnswersOwed
<1>2. /\ tid = notifier => msg.action = "TICK"
      /\ tid \in Clients => Asked(tid, msg) /\ msg.action # "TICK" /\ ~InQueue(tid)
  BY DEF ClockInvariant, MessagesKept, Handling, Asked, AnswersOwed
<1>3. \A i \in 1 .. Len(senders) : senders[i] # tid
  BY <1>1 DEF ClockInvariant, SendersWait
<1>4. QED
  BY <1>1, <1>2, <1>3, Typed DEF Tasks

\* The sender queue after a step that moves no waiting sender.
LEMMA SameSenders ==
  ASSUME ClockInvariant, senders' = senders, server' # "start",
         \A t \in Tasks : state[t] = "WATISEND" => state'[t] = "WATISEND"
  PROVE  SendersWait'
<1>1. \A i \in 1 .. Len(senders) : senders[i] \in Tasks
  BY ElementOfSeq DEF ClockInvariant, TypeOK
<1>2. QED
  BY <1>1 DEF ClockInvariant, SendersWait

\* A task that was not waiting makes a Send.
LEMMA SendersAfterSend ==
  ASSUME ClockInvariant, NEW t \in Tasks, NEW m, Send(t, m), state[t] \notin {"WATISEND", "none"},
         server' = server
  PROVE  SendersWait'
<1>0. senders \in Seq(Tasks) /\ Len(senders) \in Nat
  BY LenProperties DEF ClockInvariant, TypeOK
<1>1. \A i \in 1 .. Len(senders) : senders[i] \in Tasks /\ state[senders[i]] = "WATISEND"
  BY <1>0, ElementOfSeq DEF ClockInvariant, SendersWait
<1>2. /\ Len(senders') = Len(senders) + 1 /\ senders'[Len(senders) + 1] = t
      /\ \A i \in 1 .. Len(senders) : senders'[i] = senders[i]
      /\ \A u \in Tasks : state'[u] = IF u = t THEN "WATISEND" ELSE state[u]
  <2>1. \A u \in Tasks : state'[u] = IF u = t THEN "WATISEND" ELSE state[u]
    BY DEF Send, ClockInvariant, TypeOK
  <2>2. QED
    BY <1>0, <2>1, AppendProperties DEF Send
<1>3. \A i \in 1 .. Len(senders) : senders[i] # t
  BY <1>1
<1>4. ASSUME NEW i \in 1 .. Len(senders') PROVE state'[senders'[i]] = "WATISEND"
  <2>1. i \in 1 .. Len(senders) \/ i = Len(senders) + 1
    BY <1>0, <1>2
  <2>2. QED
    BY <1>1, <1>2, <2>1
<1>5. ASSUME NEW i \in 1 .. Len(senders'), NEW j \in 1 .. Len(senders'), senders'[i] = senders'[j]
      PROVE  i = j
  <2>1. \A k, l \in 1 .. Len(senders) : senders[k] = senders[l] => k = l
    BY DEF ClockInvariant, SendersWait
  <2>2. /\ i \in 1 .. Len(senders) \/ i = Len(senders) + 1
        /\ j \in 1 .. Len(senders) \/ j = Len(senders) + 1
    BY <1>0, <1>2
  <2>3. QED
    BY <1>2, <1>3, <1>5, <2>1, <2>2
<1>6. server' = "start" => state'[notifier] = "none"
  <2>1. server = "start" => state[notifier] = "none"
    BY DEF ClockInvariant, SendersWait
  <2>2. QED
    BY <1>1, <1>2, <2>1, Typed
<1>7. QED
  BY <1>4, <1>5, <1>6 DEF SendersWait

\* The tasks in the delay queue wait for a reply.
LEMMA QueuedWait ==
  ASSUME ClockInvariant, NEW i \in Queued
  PROVE  /\ delay_queue[i] \in Node /\ delay_queue[i].tid \in Clients
         /\ state[delay_queue[i].tid] = "WATIREPLY"
<1>1. delay_queue[i] \in Node
  BY ElementOfSeq DEF ClockInvariant, TypeOK, Queued
<1>2. delay_queue[i].tid \in Clients /\ InQueue(delay_queue[i].tid)
  BY DEF ClockInvariant, AnswersOwed, InQueue
<1>3. QED
  BY <1>1, <1>2 DEF ClockInvariant, AnswersOwed

\* Steps that leave the delay queue, and who waits for a reply, alone.
LEMMA OwedSame ==
  ASSUME ClockInvariant, UNCHANGED <<delay_queue, server, tid>>,
         \A t \in Tasks : state'[t] = "WATIREPLY" <=> state[t] = "WATIREPLY"
  PROVE  AnswersOwed'
<1>1. tid \in Tasks /\ Clients \subseteq Tasks
  BY Typed DEF ClockInvariant, TypeOK
<1>2. QED
  BY <1>1 DEF ClockInvariant, AnswersOwed, Queued, InQueue, Handling

\* The server moves on without a message in hand.
LEMMA OwedIdle ==
  ASSUME ClockInvariant, delay_queue' = delay_queue, server # "handle",
         server' \notin {"handle", "fault"},
         \A c \in Clients : state'[c] = "WATIREPLY" <=> state[c] = "WATIREPLY"
  PROVE  AnswersOwed'
BY DEF ClockInvariant, AnswersOwed, Queued, InQueue, Handling

\* Steps that leave the calls in the delay queue alone.
LEMMA DeadlinesQueued ==
  ASSUME ClockInvariant, TypeOK', delay_queue' = delay_queue,
         ticks' + InFlight' = ticks + InFlight,
         \A c \in Clients : InQueue(c) =>
           /\ call'[c] = call[c] /\ due'[c] = due[c] /\ wrapped'[c] = wrapped[c]
           /\ elapsed'[c] = elapsed[c]
  PROVE  DeadlinesKept'
<1> SUFFICES ASSUME NEW i \in Queued
             PROVE  LET c == delay_queue[i].tid IN
                    /\ delay_queue[i].delay = due'[c]
                    /\ call'[c].action = "DELAY_UNTIL" => due'[c] = call'[c].arg
                    /\ SeenSoFar(c)'
  BY DEF DeadlinesKept, Queued
<1>1. PICK c \in Clients : c = delay_queue[i].tid /\ InQueue(c)
  BY QueuedWait DEF InQueue
<1>2. /\ delay_queue[i].delay = due[c] /\ SeenSoFar(c)
      /\ call[c].action = "DELAY_UNTIL" => due[c] = call[c].arg
  BY <1>1 DEF ClockInvariant, DeadlinesKept
<1>3. SeenSoFar(c)'
  <2>1. /\ elapsed[c] \in Int /\ call[c].arg \in Int /\ due[c] \in Int /\ ticks \in Int
        /\ InFlight \in Int
    <3>1. M \in Nat /\ I32Max \in Nat
      BY Typed
    <3>2. QED
      BY <1>1, <3>1 DEF ClockInvariant, TypeOK, InFlight
  <2>2. /\ elapsed'[c] = elapsed[c] /\ call'[c] = call[c] /\ due'[c] = due[c]
        /\ wrapped'[c] = wrapped[c] /\ ticks' \in Int /\ InFlight' \in Int
    <3>1. M \in Nat
      BY Typed
    <3>2. QED
      BY <1>1, <3>1 DEF TypeOK, InFlight
  <2>3. ASSUME call'[c].action = "DELAY", ~wrapped'[c]
        PROVE  elapsed[c] >= call[c].arg - 1
               \/ elapsed[c] >= (ticks + InFlight) - (due[c] - call[c].arg) - 1
    BY <1>2, <2>2, <2>3, Zenon DEF SeenSoFar
  <2>4. ASSUME call'[c].action = "DELAY", ~wrapped'[c]
        PROVE  elapsed'[c] >= call'[c].arg - 1
               \/ elapsed'[c] >= (ticks' + InFlight') - (due'[c] - call'[c].arg) - 1
    <3>1. /\ elapsed'[c] \in Int /\ call'[c].arg \in Int /\ due'[c] \in Int
          /\ elapsed'[c] = elapsed[c] /\ call'[c].arg = call[c].arg /\ due'[c] = due[c]
      BY <2>1, <2>2
    <3>2. \/ elapsed[c] >= call[c].arg - 1
          \/ elapsed[c] >= (ticks + InFlight) - (due[c] - call[c].arg) - 1
      BY <2>3, <2>4, Zenon
    <3>3. (ticks' + InFlight') - (due[c] - call[c].arg) - 1 = (ticks + InFlight) - (due[c] - call[c].arg) - 1
      BY Zenon
    <3>4. QED
      BY <3>1, <3>2, <3>3, Zenon
  <2>5. QED
    BY <2>4, Zenon DEF SeenSoFar
<1>4. QED
  BY <1>1, <1>2, <1>3

LEMMA DeadlinesSame ==
  ASSUME ClockInvariant, TypeOK', delay_queue' = delay_queue,
         ticks' + InFlight' = ticks + InFlight,
         \A c \in Clients : state[c] = "WATIREPLY" =>
           /\ call'[c] = call[c] /\ due'[c] = due[c] /\ wrapped'[c] = wrapped[c]
           /\ elapsed'[c] = elapsed[c]
  PROVE  DeadlinesKept'
<1>1. \A c \in Clients : InQueue(c) => state[c] = "WATIREPLY"
  BY DEF ClockInvariant, AnswersOwed
<1>2. QED
  BY <1>1, DeadlinesQueued

\* Steps after which nobody is newly answered.
LEMMA AnsweredSame ==
  ASSUME ClockInvariant,
         \A c \in Clients : state'[c] = "replied" =>
           /\ state[c] = "replied" /\ buffer'[c] = buffer[c]
           /\ call'[c] = call[c] /\ due'[c] = due[c] /\ wrapped'[c] = wrapped[c]
           /\ elapsed'[c] = elapsed[c]
  PROVE  Answered'
BY DEF ClockInvariant, Answered, SeenEnough

\* Steps that send nothing and receive nothing.
LEMMA MessagesSame ==
  ASSUME ClockInvariant,
         server' = "handle" => UNCHANGED <<server, tid, msg>>,
         \A t \in Tasks : state'[t] = "WATISEND" => state[t] = "WATISEND" /\ buffer'[t] = buffer[t],
         \A c \in Clients : state[c] \in {"WATISEND", "WATIREPLY"} => call'[c] = call[c]
  PROVE  MessagesKept'
<1>1. server = "handle" => state[tid] = "WATIREPLY"
  BY DEF ClockInvariant, AnswersOwed
<1>2. QED
  BY <1>1, Typed DEF ClockInvariant, MessagesKept, Handling, Asked

LEMMA ChunksSame ==
  ASSUME ClockInvariant, UNCHANGED <<delay_queue, unused>>
  PROVE  ChunksOnce'
BY DEF ClockInvariant, ChunksOnce, Free, Queued

LEMMA AheadSame ==
  ASSUME ClockInvariant, UNCHANGED <<delay_queue, ticks, server, msg>>
  PROVE  ClockAhead'
BY DEF ClockInvariant, ClockAhead, Queued

\* A client makes a call.
LEMMA AskKeeps ==
  ASSUME ClockInvariant, TypeOK', NEW c \in Clients, NEW a \in {"TIME", "DELAY", "DELAY_UNTIL"},
         NEW d \in 0 .. I32Max, Ask(c, a, d, Msg(a, d))
  PROVE  ClockInvariant'
<1>1. /\ state[c] = "ready" /\ Send(c, Msg(a, d)) /\ UNCHANGED <<serverVars, history>>
      /\ call' = [call EXCEPT ![c] = [action |-> a, arg |-> d]]
  BY DEF Ask
<1>2. /\ \A t \in Tasks : state'[t] = IF t = c THEN "WATISEND" ELSE state[t]
      /\ \A t \in Tasks : buffer'[t] = IF t = c THEN Msg(a, d) ELSE buffer[t]
      /\ \A u \in Clients : u # c => call'[u] = call[u]
      /\ call'[c] = [action |-> a, arg |-> d]
      /\ c \in Tasks /\ notifier \in Tasks /\ c # notifier /\ Clients \subseteq Tasks
  <2>1. c \in Tasks /\ notifier \in Tasks /\ c # notifier /\ Clients \subseteq Tasks
    BY Typed
  <2>2. DOMAIN state = Tasks /\ DOMAIN buffer = Tasks /\ DOMAIN call = Clients
    BY DEF ClockInvariant, TypeOK
  <2>3. /\ state' = [state EXCEPT ![c] = "WATISEND"]
        /\ buffer' = [buffer EXCEPT ![c] = Msg(a, d)]
    BY <1>1 DEF Send
  <2>4. QED
    BY <1>1, <2>1, <2>2, <2>3 DEF ClockInvariant, TypeOK
<1>3. UNCHANGED <<delay_queue, unused, ticks, server, tid, msg, due, wrapped, elapsed, delivered>>
  BY <1>1 DEF serverVars, history
<1>4. SendersWait'
  BY <1>1, <1>2, <1>3, SendersAfterSend
<1>5. AnswersOwed' /\ ChunksOnce' /\ ClockAhead'
  BY <1>1, <1>2, <1>3, OwedSame, ChunksSame, AheadSame
<1>6. InFlight' = InFlight
  BY <1>1, <1>2, <1>3 DEF InFlight
<1>7. TicksAccounted' /\ DeadlinesKept'
  BY <1>1, <1>2, <1>3, <1>6, DeadlinesSame DEF ClockInvariant, TicksAccounted
<1>8. Answered'
  BY <1>1, <1>2, <1>3, AnsweredSame
<1>9. MessagesKept'
  <2>1. ~Handling(c) /\ (Handling(c))' = Handling(c)
    BY <1>1, <1>3 DEF ClockInvariant, AnswersOwed, Handling
  <2>2. Msg(a, d).action = a /\ Msg(a, d).ticks = d /\ a # "TICK"
    BY DEF Msg
  <2>3. Asked(c, Msg(a, d))'
    BY <1>2, <2>2 DEF Asked
  <2>4. ASSUME NEW u \in Clients
        PROVE  /\ state'[u] = "WATISEND" => Asked(u, buffer[u])' \/ u = c
               /\ Handling(u)' => Asked(u, msg)'
    BY <1>2, <1>3, <2>1, <2>4 DEF ClockInvariant, MessagesKept, Handling, Asked
  <2>5. /\ state'[notifier] = "WATISEND" => buffer'[notifier].action = "TICK"
        /\ Handling(notifier)' => msg'.action = "TICK"
    BY <1>2, <1>3 DEF ClockInvariant, MessagesKept, Handling
  <2>6. buffer'[c] = Msg(a, d)
    BY <1>2
  <2>7. Asked(c, buffer[c])'
    BY <2>3, <2>6 DEF Asked, Msg
  <2>8. QED
    BY <2>4, <2>5, <2>7 DEF MessagesKept
<1>10. QED
  BY <1>4, <1>5, <1>7, <1>8, <1>9 DEF ClockInvariant

\* A client's call returns.
LEMMA ReturnKeeps ==
  ASSUME ClockInvariant, TypeOK', NEW c \in Clients, Return(c)
  PROVE  ClockInvariant'
<1>1. /\ state[c] = "replied" /\ UNCHANGED <<serverVars, senders, delivered>>
      /\ \A t \in Tasks : state'[t] = IF t = c THEN "ready" ELSE state[t]
      /\ \A t \in Tasks : t # c => buffer'[t] = buffer[t]
      /\ \A u \in Clients : u # c => /\ call'[u] = call[u] /\ due'[u] = due[u]
                                     /\ wrapped'[u] = wrapped[u] /\ elapsed'[u] = elapsed[u]
      /\ c \in Tasks /\ notifier \in Tasks /\ c # notifier /\ Clients \subseteq Tasks
  BY Typed DEF Return, ClockInvariant, TypeOK
<1>2. UNCHANGED <<delay_queue, unused, ticks, server, tid, msg>>
  BY <1>1 DEF serverVars
<1>3. SendersWait'
  <2>1. \A i \in 1 .. Len(senders) : senders[i] \in Tasks
    BY ElementOfSeq DEF ClockInvariant, TypeOK
  <2>2. QED
    BY <1>1, <1>2, <2>1 DEF ClockInvariant, SendersWait
<1>4. AnswersOwed' /\ ChunksOnce' /\ ClockAhead'
  BY <1>1, <1>2, OwedSame, ChunksSame, AheadSame
<1>5. InFlight' = InFlight
  BY <1>1, <1>2 DEF InFlight
<1>6. TicksAccounted' /\ DeadlinesKept'
  BY <1>1, <1>2, <1>5, DeadlinesSame DEF ClockInvariant, TicksAccounted
<1>7. Answered' /\ MessagesKept'
  BY <1>1, <1>2, AnsweredSame, MessagesSame
<1>8. QED
  BY <1>3, <1>4, <1>6, <1>7 DEF ClockInvariant

\* The notifier awaits the next interrupt.
LEMMA AwaitKeeps ==
  ASSUME ClockInvariant, TypeOK', clock_server_tick_await
  PROVE  ClockInvariant'
<1>1. /\ state[notifier] \in {"ready", "replied"}
      /\ \A t \in Tasks : state'[t] = IF t = notifier THEN "AWATIEVENT" ELSE state[t]
      /\ UNCHANGED <<delay_queue, unused, ticks, server, tid, msg, senders, buffer, call,
                     due, wrapped, elapsed, delivered>>
      /\ notifier \in Tasks /\ notifier \notin Clients /\ Clients \subseteq Tasks
  BY Typed DEF clock_server_tick_await, serverVars, history, ClockInvariant, TypeOK
<1>2. server # "start" /\ (server = "handle" => tid # notifier)
  BY <1>1 DEF ClockInvariant, SendersWait, AnswersOwed
<1>3. SendersWait' /\ AnswersOwed' /\ ChunksOnce' /\ ClockAhead' /\ Answered' /\ MessagesKept'
  BY <1>1, <1>2, SameSenders, OwedSame, ChunksSame, AheadSame, AnsweredSame, MessagesSame
<1>4. InFlight' = InFlight
  BY <1>1, <1>2 DEF InFlight
<1>5. TicksAccounted' /\ DeadlinesKept'
  BY <1>1, <1>4, DeadlinesSame DEF ClockInvariant, TicksAccounted
<1>6. QED
  BY <1>3, <1>5 DEF ClockInvariant

\* The notifier reports a tick.
LEMMA TickSendKeeps ==
  ASSUME ClockInvariant, TypeOK', clock_server_tick_send
  PROVE  ClockInvariant'
<1> DEFINE m == Msg("TICK", buffer[notifier].ticks)
<1>1. /\ state[notifier] = "woken" /\ Send(notifier, m)
      /\ UNCHANGED <<delay_queue, unused, ticks, server, tid, msg, call,
                     due, wrapped, elapsed, delivered>>
      /\ notifier \in Tasks /\ notifier \notin Clients /\ Clients \subseteq Tasks
  BY Typed DEF clock_server_tick_send, serverVars, history
<1>2. /\ \A t \in Tasks : state'[t] = IF t = notifier THEN "WATISEND" ELSE state[t]
      /\ \A t \in Tasks : buffer'[t] = IF t = notifier THEN m ELSE buffer[t]
      /\ m.action = "TICK"
  BY <1>1 DEF Send, Msg, ClockInvariant, TypeOK
<1> HIDE DEF m
<1>3. server = "handle" => tid # notifier
  BY <1>1 DEF ClockInvariant, AnswersOwed
<1>4. SendersWait'
  BY <1>1, SendersAfterSend
<1>5. AnswersOwed' /\ ChunksOnce' /\ ClockAhead' /\ Answered'
  BY <1>1, <1>2, OwedSame, ChunksSame, AheadSame, AnsweredSame
<1>6. MessagesKept'
  BY <1>1, <1>2, <1>3 DEF ClockInvariant, MessagesKept, Handling, Asked
<1>7. InFlight' = InFlight
  BY <1>1, <1>2 DEF InFlight
<1>8. TicksAccounted' /\ DeadlinesKept'
  BY <1>1, <1>2, <1>7, DeadlinesSame DEF ClockInvariant, TicksAccounted
<1>9. QED
  BY <1>4, <1>5, <1>6, <1>8 DEF ClockInvariant

\* The timer interrupts: a tick is on its way, or lost.
LEMMA InterruptKeeps ==
  ASSUME ClockInvariant, TypeOK', timer_interrupt
  PROVE  ClockInvariant'
<1>1. /\ UNCHANGED <<delay_queue, unused, ticks, server, tid, msg, senders, buffer, call,
                     due, wrapped>>
      /\ notifier \in Tasks /\ notifier \notin Clients /\ Clients \subseteq Tasks
      /\ IF state[notifier] = "AWATIEVENT"
         THEN /\ \A t \in Tasks : state'[t] = IF t = notifier THEN "woken" ELSE state[t]
              /\ delivered' = (delivered + 1) % M
         ELSE UNCHANGED <<state, delivered>>
      /\ \A c \in Clients : elapsed'[c] =
           IF /\ call[c].action = "DELAY" /\ elapsed[c] < call[c].arg - 1
              /\ state[c] \in {"WATISEND", "WATIREPLY"}
           THEN elapsed[c] + 1 ELSE elapsed[c]
  BY Typed DEF timer_interrupt, serverVars, ClockInvariant, TypeOK
<1>2. /\ server = "start" => state[notifier] = "none"
      /\ server = "handle" => state[tid] = "WATIREPLY"
      /\ ticks \in 0 .. M - 1 /\ delivered = (ticks + InFlight) % M
  BY DEF ClockInvariant, SendersWait, AnswersOwed, TypeOK, TicksAccounted
<1>3. SendersWait'
  <2>1. \A i \in 1 .. Len(senders) : senders[i] \in Tasks
    BY ElementOfSeq DEF ClockInvariant, TypeOK
  <2>2. QED
    BY <1>1, <1>2, <2>1 DEF ClockInvariant, SendersWait
<1>4. AnswersOwed' /\ ChunksOnce' /\ ClockAhead' /\ Answered' /\ MessagesKept'
  BY <1>1, OwedSame, ChunksSame, AheadSame, AnsweredSame, MessagesSame
<1>5. /\ state[notifier] = "AWATIEVENT" => InFlight = 0 /\ InFlight' = 1
      /\ state[notifier] # "AWATIEVENT" => InFlight' = InFlight
      /\ InFlight \in {0, 1}
  BY <1>1, <1>2 DEF InFlight
<1>6. TicksAccounted'
  <2>1. CASE state[notifier] = "AWATIEVENT"
    <3>1. 0 \in 0 .. M - 1
      BY Typed
    <3>2. (ticks + 0) % M = ticks
      BY <1>2, <3>1, Wraps
    <3>3. QED
      BY <1>1, <1>2, <1>5, <2>1, <3>2 DEF TicksAccounted
  <2>2. CASE state[notifier] # "AWATIEVENT"
    BY <1>1, <1>2, <1>5, <2>2 DEF TicksAccounted
  <2>3. QED
    BY <2>1, <2>2
<1>7. DeadlinesKept'
  <2> SUFFICES ASSUME NEW i \in Queued
               PROVE  LET c == delay_queue[i].tid IN
                      /\ delay_queue[i].delay = due'[c]
                      /\ call'[c].action = "DELAY_UNTIL" => due'[c] = call'[c].arg
                      /\ SeenSoFar(c)'
    BY <1>1 DEF DeadlinesKept, Queued
  <2>1. PICK c \in Clients : c = delay_queue[i].tid /\ state[c] = "WATIREPLY"
    BY QueuedWait
  <2>2. /\ delay_queue[i].delay = due[c] /\ SeenSoFar(c)
        /\ call[c].action = "DELAY_UNTIL" => due[c] = call[c].arg
    BY <2>1 DEF ClockInvariant, DeadlinesKept
  <2>3. /\ elapsed[c] \in Int /\ call[c].arg \in Int /\ due[c] \in Int /\ ticks \in Int
        /\ elapsed'[c] = IF call[c].action = "DELAY" /\ elapsed[c] < call[c].arg - 1
                         THEN elapsed[c] + 1 ELSE elapsed[c]
        /\ InFlight' = InFlight \/ InFlight' = InFlight + 1
        /\ InFlight \in Int
    <3>1. elapsed[c] \in Int /\ call[c].arg \in Int /\ due[c] \in Int /\ ticks \in Int
      BY <2>1, Typed DEF ClockInvariant, TypeOK
    <3>2. QED
      BY <1>1, <1>5, <2>1, <3>1
  <2>4. SeenSoFar(c)'
    BY <1>1, <2>2, <2>3 DEF SeenSoFar
  <2>5. QED
    BY <1>1, <2>1, <2>2, <2>4
<1>8. QED
  BY <1>3, <1>4, <1>6, <1>7 DEF ClockInvariant

\* The server registers itself and creates the notifier.
LEMMA StartKeeps ==
  ASSUME ClockInvariant, TypeOK', clock_server_start
  PROVE  ClockInvariant'
<1>1. /\ server = "start" /\ server' = "receive"
      /\ \A t \in Tasks : state'[t] = IF t = notifier THEN "ready" ELSE state[t]
      /\ UNCHANGED <<delay_queue, unused, ticks, tid, msg, senders, buffer, call,
                     due, wrapped, elapsed, delivered>>
      /\ notifier \in Tasks /\ notifier \notin Clients /\ Clients \subseteq Tasks
  BY Typed DEF clock_server_start, history, ClockInvariant, TypeOK
<1>2. state[notifier] = "none" /\ delay_queue = <<>> /\ Queued = {}
  <2>1. state[notifier] = "none" /\ delay_queue = <<>>
    BY <1>1 DEF ClockInvariant, SendersWait, ClockAhead
  <2>2. QED
    BY <2>1 DEF Queued
<1>3. SendersWait' /\ AnswersOwed' /\ ChunksOnce' /\ Answered' /\ MessagesKept'
  BY <1>1, <1>2, SameSenders, OwedIdle, ChunksSame, AnsweredSame, MessagesSame
<1>4. ClockAhead'
  BY <1>1, <1>2 DEF ClockAhead, Queued
<1>5. InFlight' = InFlight
  BY <1>1, <1>2 DEF InFlight
<1>6. TicksAccounted' /\ DeadlinesKept'
  BY <1>1, <1>5, DeadlinesSame DEF ClockInvariant, TicksAccounted
<1>7. QED
  BY <1>3, <1>4, <1>6 DEF ClockInvariant

\* The loop ends when the front call is in the future: then all are.
LEMMA AwakeKeeps ==
  ASSUME ClockInvariant, TypeOK', clock_server_awake
  PROVE  ClockInvariant'
<1>1. /\ server = "wake" /\ server' = "receive" /\ ~Due(delay_queue)
      /\ UNCHANGED <<delay_queue, unused, ticks, senders, state, buffer, call,
                     due, wrapped, elapsed, delivered>>
      /\ notifier \in Tasks /\ notifier \notin Clients /\ Clients \subseteq Tasks
  BY Typed DEF clock_server_awake, NextReceive, history
<1>2. SendersWait' /\ AnswersOwed' /\ ChunksOnce' /\ Answered' /\ MessagesKept'
  BY <1>1, SameSenders, OwedIdle, ChunksSame, AnsweredSame, MessagesSame
<1>3. InFlight' = InFlight
  BY <1>1 DEF InFlight
<1>4. TicksAccounted' /\ DeadlinesKept'
  BY <1>1, <1>3, DeadlinesSame DEF ClockInvariant, TicksAccounted
<1>5. ClockAhead'
  <2>1. ASSUME NEW i \in Queued PROVE delay_queue[i].delay > ticks
    <3>1. Len(delay_queue) \in Nat /\ i \in 1 .. Len(delay_queue) /\ 1 \in Queued
      BY LenProperties DEF ClockInvariant, TypeOK, Queued
    <3>2. delay_queue # <<>>
      BY <3>1
    <3>3. /\ delay_queue[1].delay \in Int /\ delay_queue[i].delay \in Int /\ ticks \in Int
      <4>1. delay_queue[1] \in Node /\ delay_queue[i] \in Node
        BY <3>1, QueuedWait
      <4>2. ticks \in 0 .. M - 1 /\ M \in Nat
        BY Typed DEF ClockInvariant, TypeOK
      <4>3. QED
        BY <4>1, <4>2, Typed
    <3>4. delay_queue[1].delay > ticks
      BY <1>1, <3>2, <3>3 DEF Due
    <3>5. 1 < i => delay_queue[1].delay <= delay_queue[i].delay
      BY <3>1 DEF ClockInvariant, ClockAhead
    <3>6. i = 1 \/ 1 < i
      BY <3>1
    <3>7. QED
      BY <3>3, <3>4, <3>5, <3>6
  <2>2. QED
    BY <1>1, <2>1 DEF ClockInvariant, ClockAhead, Queued
<1>6. QED
  BY <1>2, <1>4, <1>5 DEF ClockInvariant

\* The oldest sender's message is received.
LEMMA ReceiveKeeps ==
  ASSUME ClockInvariant, TypeOK', clock_server_receive
  PROVE  ClockInvariant'
<1>0. /\ senders \in Seq(Tasks) /\ senders # <<>> /\ Len(senders) \in Nat \ {0}
      /\ \A i \in 1 .. Len(senders) : senders[i] \in Tasks /\ state[senders[i]] = "WATISEND"
      /\ \A i, j \in 1 .. Len(senders) : senders[i] = senders[j] => i = j
  <2>1. senders \in Seq(Tasks) /\ senders # <<>>
    BY DEF clock_server_receive, ClockInvariant, TypeOK
  <2>2. Len(senders) \in Nat \ {0} /\ \A i \in 1 .. Len(senders) : senders[i] \in Tasks
    BY <2>1, EmptySeq, ElementOfSeq
  <2>3. QED
    BY <2>1, <2>2 DEF ClockInvariant, SendersWait
<1>1. PICK t \in Tasks : t = senders[1] /\ t = Head(senders) /\ state[t] = "WATISEND"
  BY <1>0, HeadTailProperties
<1>2. /\ server = "receive" /\ server' = "handle" /\ tid' = t /\ msg' = buffer[t]
      /\ senders' = Tail(senders)
      /\ \A u \in Tasks : state'[u] = IF u = t THEN "WATIREPLY" ELSE state[u]
      /\ UNCHANGED <<ticks, delay_queue, unused, buffer, call, due, wrapped, elapsed, delivered>>
      /\ notifier \in Tasks /\ notifier \notin Clients /\ Clients \subseteq Tasks
  BY <1>1, Typed DEF clock_server_receive, history, ClockInvariant, TypeOK
<1>3. SendersWait'
  <2>1. Len(senders') = Len(senders) - 1 /\ \A i \in 1 .. Len(senders) - 1 : senders'[i] = senders[i + 1]
    BY <1>0, <1>2, HeadTailProperties
  <2>2. \A i \in 1 .. Len(senders) - 1 : i + 1 \in 1 .. Len(senders) /\ i + 1 # 1
    BY <1>0
  <2>3. ASSUME NEW i \in 1 .. Len(senders') PROVE state'[senders'[i]] = "WATISEND"
    <3>1. senders'[i] = senders[i + 1] /\ i + 1 \in 1 .. Len(senders) /\ i + 1 # 1 /\ 1 \in 1 .. Len(senders)
      BY <1>0, <2>1, <2>2
    <3>2. senders[i + 1] # t
      BY <1>0, <1>1, <3>1
    <3>3. QED
      BY <1>0, <1>2, <3>1, <3>2
  <2>4. ASSUME NEW i \in 1 .. Len(senders'), NEW j \in 1 .. Len(senders'), senders'[i] = senders'[j]
        PROVE  i = j
    <3>1. senders[i + 1] = senders[j + 1] /\ i + 1 \in 1 .. Len(senders) /\ j + 1 \in 1 .. Len(senders)
      BY <2>1, <2>2, <2>4
    <3>2. i + 1 = j + 1
      BY <1>0, <3>1
    <3>3. QED
      BY <3>2
  <2>5. QED
    BY <1>2, <2>3, <2>4 DEF SendersWait
<1>4. AnswersOwed'
  <2>1. ~InQueue(t)
    BY <1>1, QueuedWait DEF InQueue
  <2>2. Queued' = Queued /\ \A c \in Clients : InQueue(c)' <=> InQueue(c)
    BY <1>2 DEF Queued, InQueue
  <2>3. \A c \in Clients : /\ Handling(c)' <=> c = t
                           /\ state[c] = "WATIREPLY" <=> InQueue(c)
    BY <1>2 DEF Handling, ClockInvariant, AnswersOwed
  <2>4. \A c \in Clients : /\ ~(InQueue(c) /\ Handling(c))'
                           /\ state'[c] = "WATIREPLY" <=> InQueue(c)' \/ Handling(c)'
    BY <1>2, <2>1, <2>2, <2>3
  <2>5. QED
    BY <1>2, <2>2, <2>4 DEF ClockInvariant, AnswersOwed
<1>5. MessagesKept'
  BY <1>1, <1>2 DEF ClockInvariant, MessagesKept, Handling, Asked
<1>6. InFlight' = InFlight
  BY <1>1, <1>2 DEF InFlight
<1>7. TicksAccounted' /\ DeadlinesKept' /\ Answered' /\ ChunksOnce'
  BY <1>1, <1>2, <1>6, DeadlinesSame, AnsweredSame, ChunksSame DEF ClockInvariant, TicksAccounted
<1>8. ClockAhead'
  BY <1>2 DEF ClockInvariant, ClockAhead, Queued
<1>9. QED
  BY <1>3, <1>4, <1>5, <1>7, <1>8 DEF ClockInvariant

\* A tick is counted.  When the clock wraps to zero nobody is waiting.
LEMMA TickKeeps ==
  ASSUME ClockInvariant, TypeOK', clock_server_TICK
  PROVE  ClockInvariant'
<1>1. /\ server = "handle" /\ server' = "wake" /\ tid = notifier /\ state[notifier] = "WATIREPLY"
      /\ \A t \in Tasks : state'[t] = IF t = notifier THEN "replied" ELSE state[t]
      /\ \A t \in Tasks : t # notifier => buffer'[t] = buffer[t]
      /\ ticks' = (ticks + 1) % M /\ msg'.ticks = ticks'
      /\ UNCHANGED <<delay_queue, unused, senders, call, due, wrapped, elapsed, delivered>>
      /\ notifier \in Tasks /\ notifier \notin Clients /\ Clients \subseteq Tasks
  <2>1. msg \in ClockServerMsg /\ tid = notifier /\ state[notifier] = "WATIREPLY"
    BY Handled DEF clock_server_TICK, ClockInvariant, TypeOK
  <2>2. msg'.ticks = ticks'
    BY <2>1 DEF clock_server_TICK, ClockServerMsg
  <2>3. QED
    BY <2>1, <2>2, Typed DEF clock_server_TICK, Reply, history, ClockInvariant, TypeOK
<1>2. SendersWait' /\ ChunksOnce' /\ Answered' /\ MessagesKept'
  BY <1>1, SameSenders, ChunksSame, AnsweredSame, MessagesSame
<1>3. AnswersOwed'
  BY <1>1 DEF ClockInvariant, AnswersOwed, Queued, InQueue, Handling
<1>4. /\ ticks \in 0 .. M - 1 /\ ticks' \in 0 .. M - 1 /\ M \in Nat /\ InFlight = 1 /\ InFlight' = 0
      /\ ticks' = IF ticks + 1 < M THEN ticks + 1 ELSE ticks + 1 - M
  <2>1. ticks \in 0 .. M - 1 /\ 1 \in 0 .. M - 1
    BY Typed DEF ClockInvariant, TypeOK
  <2>2. InFlight = 1 /\ InFlight' = 0
    BY <1>1 DEF InFlight
  <2>3. QED
    BY <1>1, <2>1, <2>2, Wraps
<1>5. TicksAccounted'
  <2>1. 0 \in 0 .. M - 1
    BY <1>4
  <2>2. PICK n \in 0 .. M - 1 : n = ticks'
    BY <1>4
  <2>3. (n + 0) % M = n
    BY <2>1, Wraps
  <2>4. (ticks' + 0) % M = ticks'
    BY <2>2, <2>3
  <2>5. QED
    BY <1>1, <1>4, <2>4 DEF ClockInvariant, TicksAccounted
<1>6. \A i \in Queued : delay_queue[i].delay \in 0 .. M - 1 /\ delay_queue[i].delay > ticks
  BY <1>1, QueuedWait, Typed DEF ClockInvariant, ClockAhead
<1>7. CASE Queued = {}
  <2>1. DeadlinesKept'
    BY <1>1, <1>7 DEF DeadlinesKept, Queued
  <2>2. delay_queue = <<>>
    <3>1. delay_queue \in Seq(Node)
      BY DEF ClockInvariant, TypeOK
    <3>2. Len(delay_queue) \in Nat
      BY <3>1, LenProperties
    <3>3. Len(delay_queue) = 0
      BY <1>7, <3>2 DEF Queued
    <3>4. QED
      BY <3>1, <3>3, EmptySeq
  <2>3. ClockAhead'
    BY <1>1, <1>7, <2>2 DEF ClockAhead, Queued
  <2>4. QED
    BY <1>2, <1>3, <1>5, <2>1, <2>3 DEF ClockInvariant
<1>8. CASE Queued # {}
  <2>1. ticks' = ticks + 1 /\ ticks' # 0
    BY <1>4, <1>6, <1>8
  <2>2. ticks' + InFlight' = ticks + InFlight
    BY <1>4, <2>1
  <2>3. DeadlinesKept'
    BY <1>1, <2>2, DeadlinesSame
  <2>4. \A i \in Queued : delay_queue[i].delay >= ticks'
    BY <1>4, <1>6, <2>1
  <2>5. ClockAhead'
    BY <1>1, <2>1, <2>4 DEF ClockInvariant, ClockAhead, Queued
  <2>6. QED
    BY <1>2, <1>3, <1>5, <2>3, <2>5 DEF ClockInvariant
<1>9. QED
  BY <1>7, <1>8

\* The call in hand is answered and the server goes back to Receive.
LEMMA OwedReplied ==
  ASSUME ClockInvariant, server = "handle", tid \in Clients, server' = "receive",
         delay_queue' = delay_queue,
         \A t \in Tasks : state'[t] = IF t = tid THEN "replied" ELSE state[t]
  PROVE  AnswersOwed' /\ InFlight' = InFlight
<1>1. ~InQueue(tid) /\ Clients \subseteq Tasks /\ notifier \in Tasks /\ tid # notifier
  BY Typed DEF ClockInvariant, AnswersOwed, Handling
<1>2. Queued' = Queued /\ \A c \in Clients : InQueue(c)' <=> InQueue(c)
  BY DEF Queued, InQueue
<1>3. \A c \in Clients : /\ ~Handling(c)'
                         /\ state[c] = "WATIREPLY" <=> InQueue(c) \/ c = tid
  BY DEF Handling, ClockInvariant, AnswersOwed
<1>4. \A c \in Clients : /\ ~(InQueue(c) /\ Handling(c))'
                         /\ state'[c] = "WATIREPLY" <=> InQueue(c)' \/ Handling(c)'
  BY <1>1, <1>2, <1>3
<1>5. AnswersOwed'
  BY <1>2, <1>4 DEF ClockInvariant, AnswersOwed
<1>6. InFlight' = InFlight
  BY <1>1 DEF InFlight
<1>7. QED
  BY <1>5, <1>6

\* Time is answered.
LEMMA TimeKeeps ==
  ASSUME ClockInvariant, TypeOK', clock_server_TIME
  PROVE  ClockInvariant'
<1>1. /\ server = "handle" /\ server' = "receive" /\ tid \in Clients /\ state[tid] = "WATIREPLY"
      /\ call[tid].action = "TIME"
      /\ \A t \in Tasks : state'[t] = IF t = tid THEN "replied" ELSE state[t]
      /\ \A t \in Tasks : t # tid => buffer'[t] = buffer[t]
      /\ UNCHANGED <<ticks, delay_queue, unused, senders, call, due, wrapped, elapsed, delivered>>
      /\ notifier \in Tasks /\ notifier \notin Clients /\ Clients \subseteq Tasks
  <2>1. server = "handle" /\ msg.action = "TIME"
    BY DEF clock_server_TIME
  <2>2. tid \in Clients /\ Asked(tid, msg) /\ state[tid] = "WATIREPLY"
    BY <2>1, Handled
  <2>3. call[tid].action = "TIME"
    BY <2>1, <2>2 DEF Asked
  <2>4. QED
    BY <2>1, <2>2, <2>3, Typed
       DEF clock_server_TIME, NextReceive, Reply, history, ClockInvariant, TypeOK
<1>2. SendersWait' /\ ChunksOnce' /\ MessagesKept'
  BY <1>1, SameSenders, ChunksSame, MessagesSame
<1>3. AnswersOwed' /\ InFlight' = InFlight
  BY <1>1, OwedReplied
<1>4. TicksAccounted' /\ DeadlinesKept'
  BY <1>1, <1>3, DeadlinesSame DEF ClockInvariant, TicksAccounted
<1>5. Answered'
  BY <1>1 DEF ClockInvariant, Answered, SeenEnough
<1>6. ClockAhead'
  BY <1>1 DEF ClockInvariant, ClockAhead, Queued
<1>7. QED
  BY <1>2, <1>3, <1>4, <1>5, <1>6 DEF ClockInvariant

\* One turn of the loop: the front call is answered at its tick, not before
\* and not after, and its chunk goes back to the pool.
LEMMA WakeKeeps ==
  ASSUME ClockInvariant, TypeOK', clock_server_wake
  PROVE  ClockInvariant'
<1>0. /\ delay_queue \in Seq(Node) /\ delay_queue # <<>> /\ Len(delay_queue) \in Nat \ {0}
      /\ unused \in Seq(1 .. CHUNKS) /\ Len(unused) \in Nat
  <2>1. delay_queue \in Seq(Node) /\ delay_queue # <<>> /\ unused \in Seq(1 .. CHUNKS)
    BY DEF clock_server_wake, Due, ClockInvariant, TypeOK
  <2>2. QED
    BY <2>1, EmptySeq, LenProperties
<1>1. 1 \in Queued
  BY <1>0 DEF Queued
<1>2. PICK c \in Clients : /\ c = delay_queue[1].tid /\ state[c] = "WATIREPLY" /\ delay_queue[1] \in Node
  BY <1>1, QueuedWait
<1>3. PICK k \in 1 .. CHUNKS : k = delay_queue[1].chunk
  BY <1>2, Typed
<1>4. /\ server = "wake" /\ server' = "wake"
      /\ \A t \in Tasks : state'[t] = IF t = c THEN "replied" ELSE state[t]
      /\ \A t \in Tasks : buffer'[t] = IF t = c THEN msg ELSE buffer[t]
      /\ unused' = Append(unused, k) /\ delay_queue' = Tail(delay_queue)
      /\ UNCHANGED <<ticks, tid, msg, senders, call, due, wrapped, elapsed, delivered>>
      /\ notifier \in Tasks /\ notifier \notin Clients /\ Clients \subseteq Tasks /\ c # notifier
      /\ delay_queue[1].delay <= ticks
  BY <1>2, <1>3, Typed DEF clock_server_wake, Reply, Due, memory_pool_free, delay_queue_pop,
     history, ClockInvariant, TypeOK
<1>5. /\ Len(delay_queue') = Len(delay_queue) - 1
      /\ \A i \in Queued' : /\ delay_queue'[i] = delay_queue[i + 1]
                            /\ i + 1 \in Queued /\ i + 1 # 1
      /\ \A j \in Queued : j # 1 => j - 1 \in Queued' /\ delay_queue'[j - 1] = delay_queue[j]
  <2>1. /\ Len(delay_queue') = Len(delay_queue) - 1
        /\ \A i \in 1 .. Len(delay_queue) - 1 : delay_queue'[i] = delay_queue[i + 1]
    BY <1>0, <1>4, HeadTailProperties
  <2>2. ASSUME NEW i \in Queued' PROVE delay_queue'[i] = delay_queue[i + 1] /\ i + 1 \in Queued /\ i + 1 # 1
    BY <1>0, <2>1 DEF Queued
  <2>3. ASSUME NEW j \in Queued, j # 1
        PROVE  j - 1 \in Queued' /\ delay_queue'[j - 1] = delay_queue[j]
    <3>1. j - 1 \in 1 .. Len(delay_queue) - 1 /\ j - 1 + 1 = j
      BY <1>0, <2>3 DEF Queued
    <3>2. QED
      BY <2>1, <3>1 DEF Queued
  <2>4. QED
    BY <2>1, <2>2, <2>3
<1>6. /\ Len(unused') = Len(unused) + 1 /\ unused'[Len(unused) + 1] = k
      /\ \A i \in Free : unused'[i] = unused[i]
      /\ \A i \in Free' : i \in Free \/ i = Len(unused) + 1
      /\ Len(unused) + 1 \in Free' /\ Free \subseteq Free'
  <2>1. /\ Len(unused') = Len(unused) + 1 /\ unused'[Len(unused) + 1] = k
        /\ \A i \in 1 .. Len(unused) : unused'[i] = unused[i]
    BY <1>0, <1>3, <1>4, AppendProperties
  <2>2. QED
    BY <1>0, <2>1 DEF Free
<1>7. /\ delay_queue[1].delay = ticks /\ due[c] = ticks /\ msg.ticks = ticks /\ ticks # 0
      /\ call[c].action = "DELAY_UNTIL" => ticks = call[c].arg
      /\ SeenSoFar(c) /\ ticks \in Int
  <2>1. delay_queue[1].delay \in Int /\ ticks \in Int
    <3>1. ticks \in 0 .. M - 1 /\ M \in Nat
      BY Typed DEF ClockInvariant, TypeOK
    <3>2. QED
      BY <1>2, <3>1, Typed
  <2>2. delay_queue[1].delay >= ticks /\ msg.ticks = ticks /\ ticks # 0
    BY <1>0, <1>1, <1>4 DEF ClockInvariant, ClockAhead
  <2>3. /\ delay_queue[1].delay = due[c] /\ SeenSoFar(c)
        /\ call[c].action = "DELAY_UNTIL" => due[c] = call[c].arg
    BY <1>1, <1>2 DEF ClockInvariant, DeadlinesKept
  <2>4. QED
    BY <1>4, <2>1, <2>2, <2>3
<1>8. SendersWait' /\ MessagesKept'
  BY <1>2, <1>4, SameSenders, MessagesSame
<1>9. InFlight' = InFlight /\ InFlight \in {0, 1}
  BY <1>4 DEF InFlight
<1>10. TicksAccounted'
  BY <1>4, <1>9 DEF ClockInvariant, TicksAccounted
<1>11. AnswersOwed'
  <2>1. \A i, j \in Queued : delay_queue[i].tid = delay_queue[j].tid => i = j
    BY DEF ClockInvariant, AnswersOwed
  <2>2. ASSUME NEW i \in Queued', NEW j \in Queued', delay_queue'[i].tid = delay_queue'[j].tid
        PROVE  i = j
    <3>1. i + 1 = j + 1
      BY <1>5, <2>1, <2>2
    <3>2. i \in Int /\ j \in Int
      BY DEF Queued
    <3>3. QED
      BY <3>1, <3>2
  <2>3. \A i \in Queued' : delay_queue'[i].tid \in Clients
    BY <1>5, QueuedWait
  <2>4. ASSUME NEW u \in Clients
        PROVE  InQueue(u)' <=> InQueue(u) /\ u # c
    <3>1. ASSUME NEW i \in Queued', delay_queue'[i].tid = u PROVE InQueue(u) /\ u # c
      BY <1>1, <1>2, <1>5, <2>1, <3>1 DEF InQueue
    <3>2. ASSUME NEW j \in Queued, delay_queue[j].tid = u, u # c
          PROVE  \E i \in Queued' : delay_queue'[i].tid = u
      <4>1. j # 1
        BY <1>2, <3>2
      <4>2. QED
        BY <1>5, <3>2, <4>1
    <3>3. QED
      BY <3>1, <3>2 DEF InQueue
  <2>5. \A u \in Clients : ~Handling(u) /\ ~Handling(u)'
    BY <1>4 DEF Handling
  <2>6. \A u \in Clients : state[u] = "WATIREPLY" <=> InQueue(u) \/ Handling(u)
    BY DEF ClockInvariant, AnswersOwed
  <2>7. \A u \in Clients : /\ ~(InQueue(u) /\ Handling(u))'
                           /\ state'[u] = "WATIREPLY" <=> InQueue(u)' \/ Handling(u)'
    BY <1>4, <2>4, <2>5, <2>6
  <2>8. QED
    BY <1>4, <2>2, <2>3, <2>7 DEF AnswersOwed
<1>12. DeadlinesKept'
  <2> SUFFICES ASSUME NEW i \in Queued', NEW u, u = delay_queue'[i].tid
               PROVE  /\ delay_queue'[i].delay = due'[u]
                      /\ call'[u].action = "DELAY_UNTIL" => due'[u] = call'[u].arg
                      /\ SeenSoFar(u)'
    BY DEF DeadlinesKept
  <2>1. i + 1 \in Queued /\ delay_queue'[i] = delay_queue[i + 1]
    BY <1>5
  <2>2. /\ delay_queue[i + 1].delay = due[u] /\ SeenSoFar(u)
        /\ call[u].action = "DELAY_UNTIL" => due[u] = call[u].arg
    BY <2>1 DEF ClockInvariant, DeadlinesKept
  <2>3. SeenSoFar(u)'
    BY <1>4, <1>9, <2>2 DEF SeenSoFar
  <2>4. QED
    BY <1>4, <2>1, <2>2, <2>3
<1>13. Answered'
  <2>1. SeenEnough(c)'
    <3>1. /\ elapsed[c] \in Int /\ call[c].arg \in Int /\ due[c] \in Int
      BY Typed DEF ClockInvariant, TypeOK
    <3>2. SeenEnough(c)
      BY <1>7, <1>9, <3>1 DEF SeenSoFar, SeenEnough
    <3>3. QED
      BY <1>4, <3>2 DEF SeenEnough
  <2>2. ASSUME NEW u \in Clients, u # c, state'[u] = "replied"
        PROVE  /\ SeenEnough(u)'
               /\ call'[u].action = "DELAY_UNTIL" => buffer'[u].ticks = call'[u].arg
               /\ call'[u].action = "DELAY" => buffer'[u].ticks = due'[u]
    BY <1>4, <2>2 DEF ClockInvariant, Answered, SeenEnough
  <2>3. /\ call'[c].action = "DELAY_UNTIL" => buffer'[c].ticks = call'[c].arg
        /\ call'[c].action = "DELAY" => buffer'[c].ticks = due'[c]
    BY <1>4, <1>7
  <2>4. QED
    BY <2>1, <2>2, <2>3 DEF Answered
<1>14. ClockAhead'
  <2>1. ASSUME NEW i \in Queued', NEW j \in Queued', i < j
        PROVE  delay_queue'[i].delay <= delay_queue'[j].delay
    <3>1. i + 1 < j + 1
      BY <2>1 DEF Queued
    <3>2. QED
      BY <1>5, <3>1 DEF ClockInvariant, ClockAhead
  <2>2. \A i \in Queued' : delay_queue'[i].delay >= ticks
    BY <1>4, <1>5 DEF ClockInvariant, ClockAhead
  <2>3. QED
    BY <1>4, <1>7, <2>1, <2>2 DEF ClockAhead
<1>15. ChunksOnce'
  <2>1. /\ Len(unused) + Len(delay_queue) = CHUNKS
        /\ \A i, j \in Free : unused[i] = unused[j] => i = j
        /\ \A i, j \in Queued : delay_queue[i].chunk = delay_queue[j].chunk => i = j
        /\ \A i \in Free, j \in Queued : unused[i] # delay_queue[j].chunk
        /\ \A n \in 1 .. CHUNKS : \/ \E i \in Free : unused[i] = n
                                  \/ \E i \in Queued : delay_queue[i].chunk = n
    BY DEF ClockInvariant, ChunksOnce
  <2>2. Len(unused') + Len(delay_queue') = CHUNKS
    BY <1>0, <1>5, <1>6, <2>1
  <2>3. \A i \in Free : unused[i] # k
    BY <1>1, <1>3, <2>1
  <2>4. \A i, j \in Free' : unused'[i] = unused'[j] => i = j
    BY <1>6, <2>1, <2>3
  <2>5. ASSUME NEW i \in Queued', NEW j \in Queued', delay_queue'[i].chunk = delay_queue'[j].chunk
        PROVE  i = j
    <3>1. i + 1 = j + 1
      BY <1>5, <2>1, <2>5
    <3>2. i \in Int /\ j \in Int
      BY DEF Queued
    <3>3. QED
      BY <3>1, <3>2
  <2>6. \A j \in Queued' : delay_queue'[j].chunk # k
    BY <1>1, <1>3, <1>5, <2>1
  <2>7. \A i \in Free', j \in Queued' : unused'[i] # delay_queue'[j].chunk
    BY <1>5, <1>6, <2>1, <2>6
  <2>8. ASSUME NEW n \in 1 .. CHUNKS
        PROVE  \/ \E i \in Free' : unused'[i] = n
               \/ \E i \in Queued' : delay_queue'[i].chunk = n
    <3>1. CASE \E i \in Free : unused[i] = n
      BY <1>6, <3>1
    <3>2. ASSUME NEW j \in Queued, delay_queue[j].chunk = n
          PROVE  n = k \/ \E i \in Queued' : delay_queue'[i].chunk = n
      BY <1>3, <1>5, <3>2
    <3>3. CASE n = k
      BY <1>6, <3>3
    <3>4. QED
      BY <2>1, <3>1, <3>2, <3>3
  <2>9. QED
    BY <2>2, <2>4, <2>5, <2>7, <2>8 DEF ChunksOnce
<1>16. QED
  BY <1>8, <1>10, <1>11, <1>12, <1>13, <1>14, <1>15 DEF ClockInvariant

\* What a Delay or DelayUntil that is being handled waits for.
LEMMA TargetIs ==
  ASSUME ClockInvariant, clock_server_DELAY
  PROVE  /\ server = "handle" /\ tid \in Clients /\ state[tid] = "WATIREPLY" /\ ~InQueue(tid)
         /\ ticks \in Nat /\ DelayTarget \in 0 .. M - 1 /\ call[tid].arg \in Nat /\ elapsed[tid] \in Nat
         /\ call[tid].action \in {"DELAY", "DELAY_UNTIL"}
         /\ call[tid].action = "DELAY_UNTIL" => DelayTarget = call[tid].arg
         /\ call[tid].action = "DELAY" /\ ~wrapped'[tid] => DelayTarget = call[tid].arg + ticks
         /\ due'[tid] = DelayTarget
         /\ \A c \in Clients : c # tid => due'[c] = due[c] /\ wrapped'[c] = wrapped[c]
         /\ UNCHANGED <<ticks, senders, call, elapsed, delivered>>
<1>1. /\ server = "handle" /\ msg.action \in {"DELAY", "DELAY_UNTIL"}
      /\ UNCHANGED <<ticks, senders, call, elapsed, delivered>>
  BY DEF clock_server_DELAY
<1>2. tid \in Clients /\ Asked(tid, msg) /\ state[tid] = "WATIREPLY" /\ ~InQueue(tid)
  BY <1>1, Handled
<1>3. msg.action = call[tid].action /\ msg.ticks = call[tid].arg
  BY <1>1, <1>2 DEF Asked
<1>4. /\ ticks \in 0 .. M - 1 /\ msg.ticks \in 0 .. M - 1 /\ M \in Nat
      /\ elapsed[tid] \in Nat /\ DelayTarget \in 0 .. M - 1
  <2>1. /\ ticks \in 0 .. M - 1 /\ msg \in ClockServerMsg /\ TypeOK
        /\ elapsed \in [Clients -> 0 .. I32Max]
    BY DEF ClockInvariant, TypeOK
  <2>2. QED
    BY <1>2, <2>1, Typed, TargetTyped
<1>5. /\ due'[tid] = DelayTarget
      /\ \A c \in Clients : c # tid => due'[c] = due[c] /\ wrapped'[c] = wrapped[c]
  BY <1>2 DEF clock_server_DELAY, ClockInvariant, TypeOK
<1>6. ASSUME call[tid].action = "DELAY", ~wrapped'[tid] PROVE DelayTarget = call[tid].arg + ticks
  <2>1. wrapped'[tid] = (msg.action = "DELAY" /\ msg.ticks + ticks >= M)
    BY <1>2 DEF clock_server_DELAY, ClockInvariant, TypeOK
  <2>2. msg.action = "DELAY" /\ ~(msg.ticks + ticks >= M)
    BY <1>3, <1>6, <2>1
  <2>3. msg.ticks + ticks < M
    BY <1>4, <2>2
  <2>4. (msg.ticks + ticks) % M = msg.ticks + ticks
    BY <1>4, <2>3, Wraps
  <2>5. QED
    BY <1>3, <2>2, <2>4 DEF DelayTarget
<1>7. call[tid].action = "DELAY_UNTIL" => DelayTarget = call[tid].arg
  BY <1>3 DEF DelayTarget
<1>8. QED
  BY <1>1, <1>2, <1>3, <1>4, <1>5, <1>6, <1>7

\* Each waiting call has a chunk and the one being handled has none, so a
\* pool with a chunk per client has one left.
LEMMA PoolSuffices ==
  ASSUME ClockInvariant, server = "handle", tid \in Clients
  PROVE  unused # <<>>
<1>1. Cardinality(Clients \ {tid}) = Cardinality(Clients) - 1 /\ IsFiniteSet(Clients \ {tid})
      /\ Cardinality(Clients) \in Nat
  BY ClientAssumption, FS_RemoveElement, FS_CardinalityType
<1> DEFINE f == [i \in Queued |-> delay_queue[i].tid]
<1>2. ~InQueue(tid) /\ \A i \in Queued : delay_queue[i].tid \in Clients
  BY DEF ClockInvariant, AnswersOwed, Handling
<1>3. f \in [Queued -> Clients \ {tid}]
  BY <1>2 DEF InQueue
<1>4. \A i, j \in Queued : f[i] = f[j] => i = j
  BY DEF ClockInvariant, AnswersOwed
<1>5. Len(delay_queue) \in Nat /\ Len(unused) + Len(delay_queue) = CHUNKS
  BY LenProperties DEF ClockInvariant, TypeOK, ChunksOnce
<1>6. IsFiniteSet(Queued) /\ Cardinality(Queued) = Len(delay_queue)
  <2>1. PICK n \in Nat : n = Len(delay_queue)
    BY <1>5
  <2>2. IsFiniteSet(1 .. n) /\ Cardinality(1 .. n) = IF 1 > n THEN 0 ELSE n - 1 + 1
    BY FS_Interval
  <2>3. Cardinality(1 .. n) = n
    BY <2>2
  <2>4. QED
    BY <2>1, <2>2, <2>3 DEF Queued
<1> HIDE DEF f
<1>7. ~(Cardinality(Clients \ {tid}) < Cardinality(Queued))
  BY <1>1, <1>3, <1>4, <1>6, FS_PigeonHole
<1>8. Len(delay_queue) < CHUNKS
  BY <1>1, <1>5, <1>6, <1>7, ChunkAssumption
<1>9. SUFFICES ASSUME unused = <<>> PROVE FALSE
  OBVIOUS
<1>10. Len(unused) = 0
  BY <1>9
<1>11. QED
  BY <1>5, <1>8, <1>10, ChunkAssumption

\* A call whose tick has passed is answered at once.
LEMMA DelayNowKeeps ==
  ASSUME ClockInvariant, TypeOK', clock_server_DELAY, DelayTarget <= ticks
  PROVE  ClockInvariant'
<1>1. /\ server' = "receive" /\ UNCHANGED <<delay_queue, unused>>
      /\ Reply(tid, [msg EXCEPT !.ticks = DelayTarget])
  <2>1. ~(DelayTarget > ticks)
    BY TargetIs, Typed
  <2>2. QED
    BY <2>1 DEF clock_server_DELAY, NextReceive
<1>2. /\ tid \in Tasks /\ notifier \in Tasks /\ notifier \notin Clients /\ Clients \subseteq Tasks
      /\ \A t \in Tasks : state'[t] = IF t = tid THEN "replied" ELSE state[t]
      /\ \A t \in Tasks : t # tid => buffer'[t] = buffer[t]
      /\ buffer'[tid].ticks = DelayTarget
  <2>1. msg \in ClockServerMsg /\ tid \in Tasks
    BY DEF ClockInvariant, TypeOK
  <2>2. [msg EXCEPT !.ticks = DelayTarget].ticks = DelayTarget
    BY <2>1 DEF ClockServerMsg
  <2>3. QED
    BY <1>1, <2>1, <2>2, Typed DEF Reply, ClockInvariant, TypeOK
<1>3. server = "handle" /\ tid \in Clients /\ state[tid] = "WATIREPLY" /\ ~InQueue(tid)
      /\ UNCHANGED <<ticks, senders, call, elapsed, delivered>>
      /\ \A c \in Clients : c # tid => due'[c] = due[c] /\ wrapped'[c] = wrapped[c]
  BY TargetIs
<1>4. SendersWait' /\ ChunksOnce' /\ MessagesKept'
  BY <1>1, <1>2, <1>3, SameSenders, ChunksSame, MessagesSame
<1>5. AnswersOwed' /\ InFlight' = InFlight
  BY <1>1, <1>2, <1>3, OwedReplied
<1>6. DeadlinesKept'
  <2>1. \A c \in Clients : InQueue(c) => c # tid
    BY <1>3
  <2>2. QED
    BY <1>1, <1>3, <1>5, <2>1, DeadlinesQueued
<1>7. TicksAccounted'
  BY <1>3, <1>5 DEF ClockInvariant, TicksAccounted
<1>8. ClockAhead'
  BY <1>1, <1>3 DEF ClockInvariant, ClockAhead, Queued
<1>9. Answered'
  <2>0. PICK c \in Clients : c = tid
    BY <1>3
  <2>1. ASSUME NEW u \in Clients, u # c, state'[u] = "replied"
        PROVE  /\ SeenEnough(u)'
               /\ call'[u].action = "DELAY_UNTIL" => buffer'[u].ticks = call'[u].arg
               /\ call'[u].action = "DELAY" => buffer'[u].ticks = due'[u]
    BY <1>2, <1>3, <2>0, <2>1 DEF ClockInvariant, Answered, SeenEnough
  <2>2. ASSUME call[c].action = "DELAY", ~wrapped'[c]
        PROVE  elapsed[c] >= call[c].arg - 1
    <3>1. DelayTarget = call[c].arg + ticks /\ ticks \in Nat /\ call[c].arg \in Nat /\ elapsed[c] \in Nat
      BY <2>0, <2>2, TargetIs
    <3>2. DelayTarget \in Nat
      BY <3>1
    <3>3. QED
      BY <3>1, <3>2
  <2>3. SeenEnough(c)'
    BY <1>3, <2>2 DEF SeenEnough
  <2>4. /\ call'[c].action = "DELAY_UNTIL" => buffer'[c].ticks = call'[c].arg
        /\ call'[c].action = "DELAY" => buffer'[c].ticks = due'[c]
    BY <1>2, <1>3, <2>0, TargetIs
  <2>5. QED
    BY <2>1, <2>3, <2>4 DEF Answered
<1>10. QED
  BY <1>4, <1>5, <1>6, <1>7, <1>8, <1>9 DEF ClockInvariant

\* A call whose tick is to come is queued at its place.
LEMMA DelayQueuedKeeps ==
  ASSUME ClockInvariant, TypeOK', clock_server_DELAY, DelayTarget > ticks
  PROVE  ClockInvariant'
<1>0. /\ unused # <<>> /\ unused \in Seq(1 .. CHUNKS) /\ delay_queue \in Seq(Node)
      /\ Len(unused) \in Nat \ {0} /\ Len(delay_queue) \in Nat
  <2>1. unused # <<>>
    BY PoolSuffices, TargetIs
  <2>2. unused \in Seq(1 .. CHUNKS) /\ delay_queue \in Seq(Node)
    BY DEF ClockInvariant, TypeOK
  <2>3. QED
    BY <2>1, <2>2, EmptySeq, LenProperties
<1>1. PICK c \in Clients : c = tid
  BY TargetIs
<1>2. PICK k \in 1 .. CHUNKS : k = Last(unused) /\ k = unused[Len(unused)]
  BY <1>0, FrontIs
<1>3. PICK d \in 0 .. M - 1 : d = DelayTarget
  BY TargetIs
<1>4. PICK node \in Node : node = [tid |-> c, delay |-> d, chunk |-> k]
  BY Typed DEF Node
<1>5. node.tid = c /\ node.delay = d /\ node.chunk = k
  BY <1>4
<1>6. /\ delay_queue' = delay_queue_add(delay_queue, node) /\ unused' = Front(unused)
      /\ server' = "receive" /\ UNCHANGED <<state, buffer>>
  <2>1. ~(DelayTarget <= ticks)
    BY TargetIs, Typed
  <2>2. QED
    BY <1>0, <1>1, <1>2, <1>3, <1>4, <2>1 DEF clock_server_DELAY, NextReceive
<1>7. /\ server = "handle" /\ state[c] = "WATIREPLY" /\ ~InQueue(c) /\ ticks \in Nat
      /\ UNCHANGED <<ticks, senders, call, elapsed, delivered>>
      /\ \A u \in Clients : u # c => due'[u] = due[u] /\ wrapped'[u] = wrapped[u]
      /\ due'[c] = d /\ d > ticks /\ call[c].arg \in Nat /\ elapsed[c] \in Nat
      /\ call[c].action = "DELAY_UNTIL" => d = call[c].arg
      /\ call[c].action = "DELAY" /\ ~wrapped'[c] => d = call[c].arg + ticks
      /\ notifier \in Tasks /\ notifier \notin Clients /\ Clients \subseteq Tasks
  BY <1>1, <1>3, TargetIs, Typed
<1>8. PICK p \in 0 .. Len(delay_queue) :
        /\ delay_queue'[p + 1] = node
        /\ \A i \in 1 .. p : delay_queue'[i] = delay_queue[i] /\ delay_queue[i].delay <= d
        /\ \A i \in p + 1 .. Len(delay_queue) : delay_queue'[i + 1] = delay_queue[i]
        /\ p < Len(delay_queue) => delay_queue[p + 1].delay > d
        /\ Len(delay_queue') = Len(delay_queue) + 1
  <2>1. Len(delay_queue') = Len(delay_queue) + 1
    BY <1>0, <1>6, AddIs
  <2>2. PICK p \in 0 .. Len(delay_queue) : Inserted(delay_queue, node, delay_queue', p)
    BY <1>0, <1>6, AddIs
  <2>3. QED
    BY <1>5, <2>1, <2>2 DEF Inserted
<1> DEFINE old(i) == IF i <= p THEN i ELSE i - 1
           new(j) == IF j <= p THEN j ELSE j + 1
<1>9. /\ p + 1 \in Queued' /\ p \in Int
      /\ delay_queue'[p + 1].tid = c /\ delay_queue'[p + 1].delay = d
      /\ delay_queue'[p + 1].chunk = k
      /\ \A i \in Queued' : i # p + 1 => /\ i \in Int /\ old(i) \in Queued
                                         /\ delay_queue'[i] = delay_queue[old(i)]
      /\ \A j \in Queued : /\ new(j) \in Queued' /\ new(j) # p + 1 /\ j \in Int
                           /\ delay_queue'[new(j)] = delay_queue[j]
  <2>1. p \in Nat /\ p <= Len(delay_queue)
    BY <1>0
  <2>2. ASSUME NEW i \in Queued', i # p + 1
        PROVE  i \in Int /\ old(i) \in Queued /\ delay_queue'[i] = delay_queue[old(i)]
    <3>1. i \in 1 .. Len(delay_queue) + 1
      BY <1>8 DEF Queued
    <3>2. CASE i <= p
      BY <1>0, <1>8, <2>1, <3>1, <3>2 DEF Queued
    <3>3. CASE i > p
      <4>1. i - 1 \in p + 1 .. Len(delay_queue) /\ i - 1 + 1 = i /\ ~(i <= p)
        BY <1>0, <2>1, <2>2, <3>1, <3>3
      <4>2. delay_queue'[i] = delay_queue[i - 1] /\ i - 1 \in Queued
        BY <1>0, <1>8, <2>1, <4>1 DEF Queued
      <4>3. QED
        BY <3>1, <4>1, <4>2
    <3>4. QED
      BY <2>1, <3>1, <3>2, <3>3
  <2>3. ASSUME NEW j \in Queued
        PROVE  /\ new(j) \in Queued' /\ new(j) # p + 1 /\ j \in Int
               /\ delay_queue'[new(j)] = delay_queue[j]
    <3>1. j \in 1 .. Len(delay_queue)
      BY DEF Queued
    <3>2. CASE j <= p
      BY <1>0, <1>8, <2>1, <3>1, <3>2 DEF Queued
    <3>3. CASE j > p
      <4>1. j \in p + 1 .. Len(delay_queue) /\ ~(j <= p) /\ j + 1 # p + 1 /\ j + 1 \in 1 .. Len(delay_queue) + 1
        BY <1>0, <2>1, <3>1, <3>3
      <4>2. QED
        BY <1>8, <4>1 DEF Queued
    <3>4. QED
      BY <2>1, <3>1, <3>2, <3>3
  <2>4. p + 1 \in Queued'
    BY <1>0, <1>8, <2>1 DEF Queued
  <2>5. /\ delay_queue'[p + 1].tid = c /\ delay_queue'[p + 1].delay = d
        /\ delay_queue'[p + 1].chunk = k
    BY <1>5, <1>8
  <2>6. QED
    BY <2>1, <2>2, <2>3, <2>4, <2>5
<1>10. /\ \A i, j \in Int : i # p + 1 /\ j # p + 1 /\ old(i) = old(j) => i = j
       /\ \A i, j \in Int : i < j /\ i # p + 1 /\ j # p + 1 => old(i) < old(j)
  BY <1>9
<1>11. /\ Len(unused') = Len(unused) - 1
       /\ \A i \in Free' : i \in Free /\ i # Len(unused) /\ unused'[i] = unused[i]
       /\ \A i \in Free : i # Len(unused) => i \in Free'
       /\ Len(unused) \in Free
  <2>1. Len(unused') = Len(unused) - 1 /\ \A i \in 1 .. Len(unused) - 1 : unused'[i] = unused[i]
    BY <1>0, <1>6, FrontIs
  <2>2. QED
    BY <1>0, <2>1 DEF Free
<1> HIDE DEF old, new
<1>12. SendersWait' /\ MessagesKept'
  BY <1>6, <1>7, SameSenders, MessagesSame
<1>13. InFlight' = InFlight /\ InFlight \in {0, 1}
  BY <1>1, <1>6, <1>7 DEF InFlight
<1>14. TicksAccounted'
  BY <1>6, <1>7, <1>13 DEF ClockInvariant, TicksAccounted
<1>15. AnswersOwed'
  <2>1. /\ \A i \in Queued : delay_queue[i].tid \in Clients /\ delay_queue[i].tid # c
        /\ \A i, j \in Queued : delay_queue[i].tid = delay_queue[j].tid => i = j
    BY <1>7 DEF ClockInvariant, AnswersOwed, InQueue
  <2>2. ASSUME NEW i \in Queued', NEW j \in Queued', delay_queue'[i].tid = delay_queue'[j].tid
        PROVE  i = j
    <3>1. CASE i = p + 1 \/ j = p + 1
      <4>1. \A l \in Queued' : l # p + 1 => delay_queue'[l].tid # c
        BY <1>9, <2>1
      <4>2. delay_queue'[p + 1].tid = c
        BY <1>9
      <4>3. QED
        BY <2>2, <3>1, <4>1, <4>2
    <3>2. CASE i # p + 1 /\ j # p + 1
      <4>1. /\ i \in Int /\ old(i) \in Queued /\ delay_queue'[i] = delay_queue[old(i)]
            /\ j \in Int /\ old(j) \in Queued /\ delay_queue'[j] = delay_queue[old(j)]
        BY <1>9, <3>2
      <4>2. old(i) = old(j)
        BY <2>1, <2>2, <4>1
      <4>3. QED
        BY <1>10, <3>2, <4>1, <4>2
    <3>3. QED
      BY <3>1, <3>2
  <2>3. \A i \in Queued' : delay_queue'[i].tid \in Clients
    BY <1>9, <2>1
  <2>4. ASSUME NEW u \in Clients PROVE InQueue(u)' <=> InQueue(u) \/ u = c
    <3>1. ASSUME NEW i \in Queued', delay_queue'[i].tid = u PROVE InQueue(u) \/ u = c
      BY <1>9, <3>1 DEF InQueue
    <3>2. ASSUME NEW j \in Queued, delay_queue[j].tid = u PROVE \E i \in Queued' : delay_queue'[i].tid = u
      BY <1>9, <3>2
    <3>3. u = c => \E i \in Queued' : delay_queue'[i].tid = u
      BY <1>9
    <3>4. QED
      BY <3>1, <3>2, <3>3 DEF InQueue
  <2>5. \A u \in Clients : (Handling(u) <=> u = c) /\ ~Handling(u)'
    BY <1>1, <1>6, <1>7 DEF Handling
  <2>6. \A u \in Clients : state[u] = "WATIREPLY" <=> InQueue(u) \/ Handling(u)
    BY DEF ClockInvariant, AnswersOwed
  <2>7. \A u \in Clients : /\ ~(InQueue(u) /\ Handling(u))'
                           /\ state'[u] = "WATIREPLY" <=> InQueue(u)' \/ Handling(u)'
    BY <1>6, <2>4, <2>5, <2>6
  <2>8. QED
    BY <1>6, <2>2, <2>3, <2>7 DEF AnswersOwed
<1>16. DeadlinesKept'
  <2> SUFFICES ASSUME NEW i \in Queued', NEW u, u = delay_queue'[i].tid
               PROVE  /\ delay_queue'[i].delay = due'[u]
                      /\ call'[u].action = "DELAY_UNTIL" => due'[u] = call'[u].arg
                      /\ SeenSoFar(u)'
    BY DEF DeadlinesKept
  <2>1. CASE i = p + 1
    <3>1. u = c /\ delay_queue'[i].delay = due'[u]
      BY <1>5, <1>7, <1>8, <2>1
    <3>2. ASSUME call[c].action = "DELAY", ~wrapped'[c]
          PROVE  elapsed[c] >= (ticks + InFlight) - (d - call[c].arg) - 1
      <4>1. d = call[c].arg + ticks /\ call[c].arg \in Nat /\ ticks \in Nat /\ elapsed[c] \in Nat
        BY <1>7, <3>2
      <4>2. \A a, n, e \in Nat, f \in {0, 1} : e >= (n + f) - ((a + n) - a) - 1
        OBVIOUS
      <4>3. QED
        BY <1>13, <4>1, <4>2
    <3>3. SeenSoFar(c)'
      BY <1>7, <1>13, <3>2 DEF SeenSoFar
    <3>4. QED
      BY <1>7, <3>1, <3>3
  <2>2. CASE i # p + 1
    <3>1. old(i) \in Queued /\ delay_queue'[i] = delay_queue[old(i)]
      BY <1>9, <2>2
    <3>2. u \in Clients /\ u # c
      BY <1>7, <3>1, QueuedWait DEF InQueue
    <3>3. /\ delay_queue'[i].delay = due[u] /\ SeenSoFar(u)
          /\ call[u].action = "DELAY_UNTIL" => due[u] = call[u].arg
      BY <3>1 DEF ClockInvariant, DeadlinesKept
    <3>4. due'[u] = due[u] /\ wrapped'[u] = wrapped[u]
      BY <1>7, <3>2
    <3>5. SeenSoFar(u)'
      BY <1>7, <1>13, <3>3, <3>4, Zenon DEF SeenSoFar
    <3>6. QED
      BY <1>7, <3>3, <3>4, <3>5
  <2>3. QED
    BY <2>1, <2>2
<1>17. Answered'
  <2>1. \A u \in Clients : state'[u] = "replied" => u # c
    BY <1>6, <1>7
  <2>2. QED
    BY <1>6, <1>7, <2>1, AnsweredSame
<1>18. ClockAhead'
  <2>0. \A i \in Queued : delay_queue[i].delay \in Int
    <3>1. \A i \in Queued : delay_queue[i] \in Node
      BY QueuedWait
    <3>2. QED
      BY <3>1, Typed
  <2>1. \A i, j \in Queued : i < j => delay_queue[i].delay <= delay_queue[j].delay
    BY DEF ClockInvariant, ClockAhead
  <2>2. \A i \in Queued : i <= p => delay_queue[i].delay <= d
    BY <1>8 DEF Queued
  <2>3. ASSUME NEW j \in Queued, j > p PROVE delay_queue[j].delay > d
    <3>1. j \in 1 .. Len(delay_queue) /\ p \in Nat
      BY DEF Queued
    <3>2. p < Len(delay_queue) /\ p + 1 \in Queued /\ (j = p + 1 \/ p + 1 < j)
      BY <1>0, <2>3, <3>1 DEF Queued
    <3>3. delay_queue[p + 1].delay > d /\ (j = p + 1 \/ delay_queue[p + 1].delay <= delay_queue[j].delay)
      BY <1>8, <2>1, <3>2
    <3>4. d \in Int
      BY Typed
    <3>5. QED
      BY <2>0, <3>2, <3>3, <3>4
  <2>4. ASSUME NEW i \in Queued', NEW j \in Queued', i < j
        PROVE  delay_queue'[i].delay <= delay_queue'[j].delay
    <3>0. i \in Int /\ j \in Int /\ p \in Int /\ d \in Int
      BY <1>9, Typed DEF Queued
    <3>1. CASE i = p + 1
      <4>1. j # p + 1 /\ old(j) > p
        BY <2>4, <3>0, <3>1 DEF old
      <4>2. old(j) \in Queued /\ delay_queue'[j] = delay_queue[old(j)]
        BY <1>9, <4>1
      <4>3. delay_queue[old(j)].delay > d /\ delay_queue[old(j)].delay \in Int
        BY <2>0, <2>3, <4>1, <4>2
      <4>4. delay_queue'[i].delay = d
        BY <1>9, <3>1
      <4>5. QED
        BY <3>0, <4>2, <4>3, <4>4
    <3>2. CASE j = p + 1
      <4>1. i # p + 1 /\ old(i) <= p
        BY <2>4, <3>0, <3>2 DEF old
      <4>2. old(i) \in Queued /\ delay_queue'[i] = delay_queue[old(i)]
        BY <1>9, <4>1
      <4>3. QED
        BY <1>9, <2>2, <3>2, <4>1, <4>2
    <3>3. CASE i # p + 1 /\ j # p + 1
      <4>1. old(i) < old(j)
        BY <1>10, <2>4, <3>0, <3>3
      <4>2. QED
        BY <1>9, <2>1, <3>3, <4>1
    <3>4. QED
      BY <3>1, <3>2, <3>3
  <2>5. \A i \in Queued' : delay_queue'[i].delay > ticks
    <3>1. \A i \in Queued : delay_queue[i].delay > ticks
      BY <1>7 DEF ClockInvariant, ClockAhead
    <3>2. QED
      BY <1>7, <1>9, <3>1
  <2>6. QED
    BY <1>6, <1>7, <2>4, <2>5 DEF ClockAhead
<1>19. ChunksOnce'
  <2>1. /\ Len(unused) + Len(delay_queue) = CHUNKS
        /\ \A i, j \in Free : unused[i] = unused[j] => i = j
        /\ \A i, j \in Queued : delay_queue[i].chunk = delay_queue[j].chunk => i = j
        /\ \A i \in Free, j \in Queued : unused[i] # delay_queue[j].chunk
        /\ \A n \in 1 .. CHUNKS : \/ \E i \in Free : unused[i] = n
                                  \/ \E i \in Queued : delay_queue[i].chunk = n
    BY DEF ClockInvariant, ChunksOnce
  <2>2. Len(unused') + Len(delay_queue') = CHUNKS
    BY <1>0, <1>8, <1>11, <2>1
  <2>3. \A j \in Queued : delay_queue[j].chunk # k
    BY <1>2, <1>11, <2>1
  <2>4. \A i, j \in Free' : unused'[i] = unused'[j] => i = j
    BY <1>11, <2>1
  <2>5. ASSUME NEW i \in Queued', NEW j \in Queued', delay_queue'[i].chunk = delay_queue'[j].chunk
        PROVE  i = j
    <3>1. CASE i = p + 1 \/ j = p + 1
      <4>1. \A l \in Queued' : l # p + 1 => delay_queue'[l].chunk # k
        BY <1>9, <2>3
      <4>2. delay_queue'[p + 1].chunk = k
        BY <1>9
      <4>3. QED
        BY <2>5, <3>1, <4>1, <4>2
    <3>2. CASE i # p + 1 /\ j # p + 1
      <4>1. /\ i \in Int /\ old(i) \in Queued /\ delay_queue'[i] = delay_queue[old(i)]
            /\ j \in Int /\ old(j) \in Queued /\ delay_queue'[j] = delay_queue[old(j)]
        BY <1>9, <3>2
      <4>2. old(i) = old(j)
        BY <2>1, <2>5, <4>1
      <4>3. QED
        BY <1>10, <3>2, <4>1, <4>2
    <3>3. QED
      BY <3>1, <3>2
  <2>6. \A i \in Free' : unused'[i] # k
    BY <1>2, <1>11, <2>1
  <2>7. ASSUME NEW i \in Free', NEW j \in Queued' PROVE unused'[i] # delay_queue'[j].chunk
    <3>1. i \in Free /\ unused'[i] = unused[i] /\ unused'[i] # k
      BY <1>11, <2>6
    <3>2. j = p + 1 \/ \E n \in Queued : delay_queue'[j] = delay_queue[n]
      BY <1>9
    <3>3. delay_queue'[p + 1].chunk = k
      BY <1>9
    <3>4. QED
      BY <2>1, <3>1, <3>2, <3>3
  <2>8. ASSUME NEW n \in 1 .. CHUNKS
        PROVE  \/ \E i \in Free' : unused'[i] = n
               \/ \E i \in Queued' : delay_queue'[i].chunk = n
    <3>1. CASE n = k
      BY <1>9, <3>1
    <3>2. CASE n # k /\ \E i \in Free : unused[i] = n
      BY <1>2, <1>11, <3>2
    <3>3. CASE \E j \in Queued : delay_queue[j].chunk = n
      BY <1>9, <3>3
    <3>4. QED
      BY <2>1, <3>1, <3>2, <3>3
  <2>9. QED
    BY <2>2, <2>4, <2>5, <2>7, <2>8 DEF ChunksOnce
<1>20. QED
  BY <1>12, <1>14, <1>15, <1>16, <1>17, <1>18, <1>19 DEF ClockInvariant

LEMMA NextClock == ClockInvariant /\ [Next]_vars => ClockInvariant'
<1> SUFFICES ASSUME ClockInvariant, [Next]_vars PROVE ClockInvariant'
  OBVIOUS
<1>1. TypeOK'
  BY NextTyped DEF ClockInvariant
<1>2. CASE UNCHANGED vars
  <2>1. UNCHANGED <<ticks, delay_queue, unused, tid, msg, server, senders, state, buffer, call,
                    due, wrapped, elapsed, delivered>>
    BY <1>2 DEF vars, serverVars, history
  <2>2. SendersWait'
    BY <2>1 DEF ClockInvariant, SendersWait
  <2>3. AnswersOwed' /\ ChunksOnce' /\ ClockAhead' /\ Answered' /\ MessagesKept'
    BY <2>1, OwedSame, ChunksSame, AheadSame, AnsweredSame, MessagesSame
  <2>4. InFlight' = InFlight
    BY <2>1 DEF InFlight
  <2>5. TicksAccounted' /\ DeadlinesKept'
    BY <1>1, <2>1, <2>4, DeadlinesSame DEF ClockInvariant, TicksAccounted
  <2>6. QED
    BY <1>1, <2>2, <2>3, <2>5 DEF ClockInvariant
<1>3. CASE Server
  <2>1. CASE clock_server_DELAY
    <3>1. DelayTarget <= ticks \/ DelayTarget > ticks
      BY <2>1, TargetIs, Typed
    <3>2. QED
      BY <1>1, <2>1, <3>1, DelayNowKeeps, DelayQueuedKeeps
  <2>2. QED
    BY <1>1, <1>3, <2>1, StartKeeps, ReceiveKeeps, TickKeeps, WakeKeeps, AwakeKeeps, TimeKeeps
       DEF Server
<1>4. CASE clock_server_tick_await \/ clock_server_tick_send \/ timer_interrupt
  BY <1>1, <1>4, AwaitKeeps, TickSendKeeps, InterruptKeeps
<1>5. ASSUME NEW c \in Clients, Client(c) PROVE ClockInvariant'
  <2>1. CASE Time(c)
    <3>1. 0 \in 0 .. I32Max
      BY Typed
    <3>2. QED
      BY <1>1, <2>1, <3>1, AskKeeps DEF Time
  <2>2. CASE Delay(c) \/ DelayUntil(c)
    <3>1. \A d \in Arguments : d >= 0 => d \in 0 .. I32Max
      BY WidthAssumption
    <3>2. QED
      BY <1>1, <2>2, <3>1, AskKeeps DEF Delay, DelayUntil
  <2>3. CASE Return(c)
    BY <1>1, <2>3, ReturnKeeps
  <2>4. QED
    BY <1>5, <2>1, <2>2, <2>3 DEF Client
<1>6. QED
  BY <1>2, <1>3, <1>4, <1>5 DEF Next

\* The inductive invariant of the clock server holds in every reachable state.
THEOREM ClockInvariantHolds == Spec => []ClockInvariant
BY InitClock, NextClock, PTL DEF Spec

-----------------------------------------------------------------------------
(* What follows from the invariant.                                        *)

\* A set without two elements.
LEMMA CountOne ==
  ASSUME NEW T, \A i, j \in T : i = j
  PROVE  Cardinality(T) = IF T = {} THEN 0 ELSE 1
<1>1. CASE T # {}
  <2>1. PICK i : T = {i}
    BY <1>1
  <2>2. QED
    BY <1>1, <2>1, FS_Singleton
<1>2. QED
  BY <1>1, FS_EmptySet

\* Every value of a variable is one the C types allow, also where the tick
\* count and the call arguments wrap.
THEOREM ClockTyped == Spec => []TypeOK
BY InitTyped, NextTyped, PTL DEF Spec

\* A client that waits for a reply is in the delay queue once or is the one in
\* hand, never both, so no call is answered twice or forgotten.
THEOREM AnswersOnce == Spec => []EachAwaitsOneAnswer
<1>1. ASSUME ClockInvariant PROVE EachAwaitsOneAnswer
  <2> SUFFICES ASSUME NEW c \in Clients
               PROVE  Cardinality({i \in DOMAIN delay_queue : delay_queue[i].tid = c})
                      + (IF server = "handle" /\ tid = c THEN 1 ELSE 0)
                      = (IF state[c] = "WATIREPLY" /\ server # "fault" THEN 1 ELSE 0)
    BY DEF EachAwaitsOneAnswer
  <2>1. DOMAIN delay_queue = Queued
    BY <1>1, LenProperties DEF ClockInvariant, TypeOK, Queued
  <2>2. /\ \A i, j \in Queued : delay_queue[i].tid = c /\ delay_queue[j].tid = c => i = j
        /\ server # "fault" /\ ~(InQueue(c) /\ Handling(c))
        /\ state[c] = "WATIREPLY" <=> InQueue(c) \/ Handling(c)
    BY <1>1 DEF ClockInvariant, AnswersOwed
  <2>3. Cardinality({i \in Queued : delay_queue[i].tid = c}) = IF InQueue(c) THEN 1 ELSE 0
    <3>1. PICK T : T = {i \in Queued : delay_queue[i].tid = c}
      OBVIOUS
    <3>2. (\A i, j \in T : i = j) /\ (T = {} <=> ~InQueue(c))
      BY <2>2, <3>1 DEF InQueue
    <3>3. QED
      BY <3>1, <3>2, CountOne
  <2>4. QED
    BY <2>1, <2>2, <2>3 DEF Handling
<1>2. QED
  BY <1>1, ClockInvariantHolds, PTL

\* The delay queue is in order and never holds a call whose tick has passed;
\* when the clock wraps it is empty.
THEOREM QueueOrdered == Spec => []DelayQueueOrdered
<1>1. ASSUME ClockInvariant PROVE DelayQueueOrdered
  <2>1. DOMAIN delay_queue = Queued
    BY <1>1, LenProperties DEF ClockInvariant, TypeOK, Queued
  <2>2. QED
    BY <1>1, <2>1 DEF ClockInvariant, ClockAhead, DelayQueueOrdered
<1>2. QED
  BY <1>1, ClockInvariantHolds, PTL

\* A pool with a chunk per client never runs out: every chunk is free once or
\* in use once, and the server never writes through a null node.
THEOREM PoolNeverEmpty == Spec => []ChunksAccounted
<1>1. ASSUME ClockInvariant PROVE ChunksAccounted
  <2>1. DOMAIN delay_queue = Queued /\ DOMAIN unused = Free /\ server # "fault"
    BY <1>1, LenProperties DEF ClockInvariant, TypeOK, AnswersOwed, Queued, Free
  <2>2. ASSUME NEW k \in 1 .. CHUNKS
        PROVE  Cardinality({i \in Free : unused[i] = k})
               + Cardinality({i \in Queued : delay_queue[i].chunk = k}) = 1
    <3>1. PICK S, T : S = {i \in Free : unused[i] = k} /\ T = {i \in Queued : delay_queue[i].chunk = k}
      OBVIOUS
    <3>2. (\A i, j \in S : i = j) /\ (\A i, j \in T : i = j) /\ (S = {} <=> T # {})
      BY <1>1, <3>1 DEF ClockInvariant, ChunksOnce
    <3>3. Cardinality(S) = (IF S = {} THEN 0 ELSE 1) /\ Cardinality(T) = (IF T = {} THEN 0 ELSE 1)
      BY <3>2, CountOne
    <3>4. QED
      BY <3>1, <3>2, <3>3
  <2>3. QED
    BY <2>1, <2>2 DEF ChunksAccounted
<1>2. QED
  BY <1>1, ClockInvariantHolds, PTL

\* No tick that woke the notifier is lost or counted twice.
THEOREM NoTickLost == Spec => []TicksAccounted
<1>1. ClockInvariant => TicksAccounted
  BY DEF ClockInvariant
<1>2. QED
  BY <1>1, ClockInvariantHolds, PTL

\* Delay(d) is not answered before d - 1 timer interrupts have passed, unless
\* the deadline overflowed the tick count.
THEOREM DelaysNotEarly == Spec => []NotEarly
<1>1. ClockInvariant => NotEarly
  BY DEF ClockInvariant, Answered, SeenEnough, NotEarly
<1>2. QED
  BY <1>1, ClockInvariantHolds, PTL

\* A call returns the tick it waited for, as the i32 the library call makes of
\* it, for any width of the tick count.
THEOREM DelaysOnTime == Spec => []ReturnsOnTime
<1>1. ASSUME ClockInvariant PROVE ReturnsOnTime
  <2> SUFFICES ASSUME NEW c \in Clients, state[c] = "replied"
               PROVE  /\ Returned(c) <= I32Max
                      /\ call[c].action = "DELAY_UNTIL" => Returned(c) = call[c].arg
                      /\ call[c].action = "DELAY" => Returned(c) % M = due[c]
    BY DEF ReturnsOnTime
  <2>1. PICK u \in 0 .. M - 1 : u = buffer[c].ticks
    BY <1>1, Typed DEF ClockInvariant, TypeOK
  <2>2. /\ call[c].action = "DELAY_UNTIL" => u = call[c].arg
        /\ call[c].action = "DELAY" => u = due[c]
        /\ call[c].arg <= I32Max
    <3>1. call[c].arg \in 0 .. I32Max
      BY <1>1 DEF ClockInvariant, TypeOK
    <3>2. QED
      BY <1>1, <2>1, <3>1, Typed DEF ClockInvariant, Answered
  <2>3. QED
    BY <2>1, <2>2, SignWraps DEF Returned
<1>2. QED
  BY <1>1, ClockInvariantHolds, PTL
=============================================================================
