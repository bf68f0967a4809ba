---------------------------- MODULE ClockServer ----------------------------
(***************************************************************************)
(* The clock server (clock_server.c), its notifier task, its clients and   *)
(* the timer interrupt, with the memory pool (memory_pool.c) that holds    *)
(* the nodes of the delay queue.                                           *)
(*                                                                         *)
(* Tasks are preempted anywhere, so their steps interleave: a step is a    *)
(* system call with the local code around it.  Send, Receive and Reply are *)
(* used as the kernel provides them (module MessagePassing): a sender      *)
(* waits in the server's queue (WATISEND) until it is received, then for   *)
(* the reply (WATIREPLY).  An interrupt that finds the notifier anywhere   *)
(* but in AwaitEvent wakes nobody: that tick is lost.                      *)
(*                                                                         *)
(* Ticks are u32 in the code and wrap around at M here.  The call          *)
(* arguments are i32, so the non-negative ones are half the range.         *)
(***************************************************************************)
EXTENDS Integers, Sequences, FiniteSets, SequencesExt

CONSTANTS
  Clients,
  notifier,        \* the task that runs clock_server_tick
  Arguments,       \* what clients pass to Delay and DelayUntil
  I32Max,          \* the largest i32 (2^31 - 1)
  CHUNKS           \* chunks of the memory pool

M == 2 * (I32Max + 1)  \* values of a u32
Tasks == Clients \cup {notifier}

ASSUME ClientAssumption == notifier \notin Clients /\ IsFiniteSet(Clients)
ASSUME WidthAssumption ==
  /\ I32Max \in Nat
  /\ Arguments \subseteq Int /\ \A a \in Arguments : a <= I32Max
ASSUME ChunkAssumption == CHUNKS \in Nat /\ CHUNKS >= Cardinality(Clients)

VARIABLES
  ticks, delay_queue, unused,   \* the server's clock, waiting calls, free chunks
  tid, msg,                     \* the message it is handling
  server,                       \* where the server is
  senders,                      \* tasks waiting in its sender queue
  state,                        \* where every other task is
  buffer,                       \* the message in every task's memory
  call,                         \* the call a client is in
  due, wrapped, elapsed,        \* history of that call: the tick it waits for,
                                \* whether that sum overflowed, and the timer
                                \* interrupts from a Delay(d) to its answer,
                                \* up to d - 1
  delivered                     \* history: interrupts that woke the notifier

serverVars == <<ticks, delay_queue, unused, tid, msg, server>>
history == <<due, wrapped, elapsed, delivered>>
vars == <<serverVars, senders, state, buffer, call, history>>

Action == {"TICK", "TIME", "DELAY", "DELAY_UNTIL"}
ClockServerMsg == [action : Action, ticks : 0 .. M - 1]
Node == [tid : Tasks, delay : 0 .. M - 1, chunk : 1 .. CHUNKS]
Msg(a, t) == [action |-> a, ticks |-> t]
NoMsg == Msg("TICK", 0)

TypeOK ==
  /\ ticks \in 0 .. M - 1
  /\ delay_queue \in Seq(Node) /\ unused \in Seq(1 .. CHUNKS)
  /\ tid \in Tasks /\ msg \in ClockServerMsg
  /\ server \in {"start", "receive", "handle", "wake", "fault"}
  /\ senders \in Seq(Tasks)
  /\ state \in [Tasks -> {"none", "ready", "AWATIEVENT", "woken", "WATISEND",
                          "WATIREPLY", "replied"}]
  /\ buffer \in [Tasks -> ClockServerMsg]
  /\ call \in [Clients -> [action : {"none", "TIME", "DELAY", "DELAY_UNTIL"},
                           arg : 0 .. I32Max]]
  /\ due \in [Clients -> 0 .. M - 1] /\ wrapped \in [Clients -> BOOLEAN]
  /\ elapsed \in [Clients -> 0 .. I32Max] /\ delivered \in 0 .. M - 1

NoCall == [action |-> "none", arg |-> 0]

Init ==
  /\ ticks = 0 /\ delay_queue = <<>>
  /\ unused = [i \in 1 .. CHUNKS |-> i]
  /\ tid = notifier /\ msg = NoMsg
  /\ server = "start" /\ senders = <<>>
  /\ state = [t \in Tasks |-> IF t = notifier THEN "none" ELSE "ready"]
  /\ buffer = [t \in Tasks |-> NoMsg]
  /\ call = [c \in Clients |-> NoCall]
  /\ due = [c \in Clients |-> 0] /\ wrapped = [c \in Clients |-> FALSE]
  /\ elapsed = [c \in Clients |-> 0] /\ delivered = 0

\* Faulty variant: the unsigned count is returned as it is.
ToI32_unsigned(u) == u

\* A u32 read as an i32.
ToI32(u) == IF u > I32Max THEN u - M ELSE u

-----------------------------------------------------------------------------
(* The delay queue and the memory pool.  `end' of the C queue only tells   *)
(* whether the queue is empty.                                             *)

\* Faulty variant: a node goes behind the first one that is later.
delay_queue_add_append(q, node) == Append(q, node)

\* Behind every node that is not later.
delay_queue_add(q, node) ==
  LET k == Cardinality({i \in DOMAIN q : \A j \in 1 .. i : q[j].delay <= node.delay})
  IN  SubSeq(q, 1, k) \o <<node>> \o SubSeq(q, k + 1, Len(q))

\* Faulty variant: nothing is popped.
delay_queue_pop_nothing(q) == q

delay_queue_pop(q) == Tail(q)

\* Faulty variant: the chunk is never handed back.
memory_pool_free_nothing(chunk) == unused

memory_pool_free(chunk) == Append(unused, chunk)

-----------------------------------------------------------------------------
(* The kernel's calls, as the other tasks see them.                        *)

Send(t, m) ==
  /\ senders' = Append(senders, t)
  /\ state' = [state EXCEPT ![t] = "WATISEND"]
  /\ buffer' = [buffer EXCEPT ![t] = m]

Reply(t, m) ==
  /\ state' = [state EXCEPT ![t] = "replied"]
  /\ buffer' = [buffer EXCEPT ![t] = m]

-----------------------------------------------------------------------------
(* clock_server                                                            *)

\* Back to Receive, which overwrites tid and msg: what they held is forgotten.
NextReceive == server' = "receive" /\ tid' = notifier /\ msg' = NoMsg

\* RegisterAs and Create; the pool, the queue and ticks are initialised.
clock_server_start ==
  /\ server = "start"
  /\ server' = "receive"
  /\ state' = [state EXCEPT ![notifier] = "ready"]
  /\ UNCHANGED <<ticks, delay_queue, unused, tid, msg, senders, buffer, call, history>>

\* Receive returns the oldest sender's message.
clock_server_receive ==
  /\ server = "receive" /\ senders # <<>>
  /\ tid' = Head(senders) /\ senders' = Tail(senders)
  /\ msg' = buffer[tid']
  /\ state' = [state EXCEPT ![tid'] = "WATIREPLY"]
  /\ server' = "handle"
  /\ UNCHANGED <<ticks, delay_queue, unused, buffer, call, history>>

\* Faulty variant: the tick is not counted.
clock_server_TICK_uncounted ==
  /\ server = "handle" /\ msg.action = "TICK"
  /\ Reply(tid, msg)
  /\ server' = "wake"
  /\ UNCHANGED <<ticks, delay_queue, unused, tid, msg, senders, call, history>>

\* case TICK, up to the loop that wakes the clients.
clock_server_TICK ==
  /\ server = "handle" /\ msg.action = "TICK"
  /\ ticks' = (ticks + 1) % M
  /\ Reply(tid, msg)
  /\ msg' = [msg EXCEPT !.ticks = ticks']
  /\ server' = "wake"
  /\ UNCHANGED <<delay_queue, unused, tid, senders, call, history>>

\* Faulty variant: only calls that are already late are answered.
Due_late(q) == q # <<>> /\ q[1].delay < ticks

\* The loop's condition.
Due(q) == q # <<>> /\ q[1].delay <= ticks

\* One turn of the loop: the front client is answered and its node freed.
clock_server_wake ==
  /\ server = "wake" /\ Due(delay_queue)
  /\ Reply(delay_queue[1].tid, msg)
  /\ unused' = memory_pool_free(delay_queue[1].chunk)
  /\ delay_queue' = delay_queue_pop(delay_queue)
  /\ UNCHANGED <<ticks, tid, msg, server, senders, call, history>>

clock_server_awake ==
  /\ server = "wake" /\ ~Due(delay_queue)
  /\ NextReceive
  /\ UNCHANGED <<ticks, delay_queue, unused, senders, state, buffer, call, history>>

clock_server_TIME ==
  /\ server = "handle" /\ msg.action = "TIME"
  /\ Reply(tid, [msg EXCEPT !.ticks = ticks])
  /\ NextReceive
  /\ UNCHANGED <<ticks, delay_queue, unused, senders, call, history>>

\* Faulty variant: DELAY is not made absolute before it falls through.
DelayTarget_relative == msg.ticks

\* The tick a call waits for: DELAY adds the clock and falls through.
DelayTarget == IF msg.action = "DELAY" THEN (msg.ticks + ticks) % M ELSE msg.ticks

\* cases DELAY and DELAY_UNTIL: answered at once if the tick has passed, else
\* queued in a chunk of the pool.  The code does not look whether it got one: an
\* empty pool would have the node written through the null pointer.
clock_server_DELAY ==
  /\ server = "handle" /\ msg.action \in {"DELAY", "DELAY_UNTIL"}
  /\ due' = [due EXCEPT ![tid] = DelayTarget]
  /\ wrapped' = [wrapped EXCEPT ![tid] = msg.action = "DELAY" /\ msg.ticks + ticks >= M]
  /\ \/ /\ DelayTarget <= ticks
        /\ Reply(tid, [msg EXCEPT !.ticks = DelayTarget])
        /\ NextReceive
        /\ UNCHANGED <<delay_queue, unused>>
     \/ /\ DelayTarget > ticks
        /\ IF unused = <<>>
           THEN server' = "fault" /\ UNCHANGED <<delay_queue, unused, tid, msg>>
           ELSE /\ delay_queue' = delay_queue_add(delay_queue,
                     [tid |-> tid, delay |-> DelayTarget, chunk |-> Last(unused)])
                /\ unused' = Front(unused)
                /\ NextReceive
        /\ UNCHANGED <<state, buffer>>
  /\ UNCHANGED <<ticks, senders, call, elapsed, delivered>>

Server == \/ clock_server_start \/ clock_server_receive \/ clock_server_TICK
          \/ clock_server_wake \/ clock_server_awake \/ clock_server_TIME
          \/ clock_server_DELAY

-----------------------------------------------------------------------------
(* clock_server_tick, the notifier.  AwaitEvent returns the result of the  *)
(* call before it (MyParentTid or Send), which is never negative, so the   *)
(* loop does not end.                                                      *)

clock_server_tick_await ==
  /\ state[notifier] \in {"ready", "replied"}
  /\ state' = [state EXCEPT ![notifier] = "AWATIEVENT"]
  /\ UNCHANGED <<serverVars, senders, buffer, call, history>>

clock_server_tick_send ==
  /\ state[notifier] = "woken"
  /\ Send(notifier, Msg("TICK", buffer[notifier].ticks))
  /\ UNCHANGED <<serverVars, call, history>>

\* The timer interrupt.
timer_interrupt ==
  /\ elapsed' = [c \in Clients |->
                   IF /\ call[c].action = "DELAY" /\ elapsed[c] < call[c].arg - 1
                      /\ state[c] \in {"WATISEND", "WATIREPLY"}
                   THEN elapsed[c] + 1 ELSE elapsed[c]]
  /\ IF state[notifier] = "AWATIEVENT"
     THEN /\ state' = [state EXCEPT ![notifier] = "woken"]
          /\ delivered' = (delivered + 1) % M
     ELSE UNCHANGED <<state, delivered>>
  /\ UNCHANGED <<serverVars, senders, buffer, call, due, wrapped>>

-----------------------------------------------------------------------------
(* The clients' library calls.                                             *)

\* Client c makes the call `a' with argument d and sends message m.
Ask(c, a, d, m) ==
  /\ state[c] = "ready"
  /\ call' = [call EXCEPT ![c] = [action |-> a, arg |-> d]]
  /\ Send(c, m)
  /\ UNCHANGED <<serverVars, history>>

\* Time leaves msg.ticks uninitialised; nothing reads it before the server
\* has written it.
Time(c) == Ask(c, "TIME", 0, Msg("TIME", 0))

\* A negative argument is refused without a Send, which leaves no trace.
Delay(c) ==
  \E d \in Arguments : d >= 0 /\ Ask(c, "DELAY", d, Msg("DELAY", d))

DelayUntil(c) ==
  \E d \in Arguments : d >= 0 /\ Ask(c, "DELAY_UNTIL", d, Msg("DELAY_UNTIL", d))

\* What a call returns: the ticks of the reply, which is in its local msg.
Returned(c) == ToI32(buffer[c].ticks)

Return(c) ==
  /\ state[c] = "replied"
  /\ state' = [state EXCEPT ![c] = "ready"]
  /\ buffer' = [buffer EXCEPT ![c] = NoMsg]
  /\ call' = [call EXCEPT ![c] = NoCall]
  /\ due' = [due EXCEPT ![c] = 0] /\ wrapped' = [wrapped EXCEPT ![c] = FALSE]
  /\ elapsed' = [elapsed EXCEPT ![c] = 0]
  /\ UNCHANGED <<serverVars, senders, delivered>>

Client(c) == Time(c) \/ Delay(c) \/ DelayUntil(c) \/ Return(c)

Next == \/ Server \/ clock_server_tick_await \/ clock_server_tick_send
        \/ timer_interrupt \/ \E c \in Clients : Client(c)

Spec == Init /\ [][Next]_vars

\* Every task that can run does, for a client at least to leave its call (it
\* need not make another), and the timer never stops interrupting.
FairSpec ==
  /\ Spec
  /\ WF_vars(Server) /\ WF_vars(timer_interrupt)
  /\ WF_vars(clock_server_tick_await) /\ WF_vars(clock_server_tick_send)
  /\ \A c \in Clients : WF_vars(Return(c))

-----------------------------------------------------------------------------
\* Whoever is in the delay queue is blocked in its call and is there once; the
\* task being handled is blocked and not yet there; no other client waits for
\* a reply.  So the server answers every call exactly once and never replies
\* to a task that does not wait, which the kernel would not survive.
EachAwaitsOneAnswer ==
  \A c \in Clients :
    Cardinality({i \in DOMAIN delay_queue : delay_queue[i].tid = c})
    + (IF server = "handle" /\ tid = c THEN 1 ELSE 0)
    = (IF state[c] = "WATIREPLY" /\ server # "fault" THEN 1 ELSE 0)

\* The delay queue is in order, and whenever the server waits for a message
\* every call in it is still in the future; when the clock wraps to zero the
\* queue has just been emptied.
DelayQueueOrdered ==
  /\ \A i, j \in DOMAIN delay_queue :
       i < j => delay_queue[i].delay <= delay_queue[j].delay
  /\ server \in {"receive", "handle"} =>
       \A i \in DOMAIN delay_queue : delay_queue[i].delay > ticks
  /\ server = "wake" /\ ticks = 0 => delay_queue = <<>>

\* Every chunk is free once or holds one node, and the pool never runs out
\* while it has a chunk for each client: no null node is written.
ChunksAccounted ==
  /\ server # "fault"
  /\ \A k \in 1 .. CHUNKS :
       Cardinality({i \in DOMAIN unused : unused[i] = k})
       + Cardinality({i \in DOMAIN delay_queue : delay_queue[i].chunk = k}) = 1

\* The interrupts that have woken the notifier are the ticks of the clock, but
\* for the one that is still on its way to the server.
InFlight ==
  IF \/ state[notifier] \in {"woken", "WATISEND"}
     \/ server = "handle" /\ tid = notifier
  THEN 1 ELSE 0
TicksAccounted == delivered = (ticks + InFlight) % M

\* A client whose Delay(d) has been answered has seen at least d - 1 timer
\* interrupts (one tick can be on its way when it asks), unless its deadline
\* overflowed.
NotEarly ==
  \A c \in Clients :
    state[c] = "replied" /\ call[c].action = "DELAY" /\ ~wrapped[c]
      => elapsed[c] >= call[c].arg - 1

\* DelayUntil(t) returns t if t is in the future and what was asked for anyway
\* if not, and Delay the tick it waited for, as an i32: the clock moves by one
\* and wakes every client that is due, so nobody is woken at a later tick.
ReturnsOnTime ==
  \A c \in Clients : state[c] = "replied" =>
    /\ Returned(c) <= I32Max
    /\ call[c].action = "DELAY_UNTIL" => Returned(c) = call[c].arg
    /\ call[c].action = "DELAY" => Returned(c) % M = due[c]

\* Every call returns, also when the clock wraps and whatever ticks are lost.
EveryCallReturns ==
  \A c \in Clients : state[c] # "ready" ~> state[c] = "ready"
=============================================================================
