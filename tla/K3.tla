--------------------------------- MODULE K3 ---------------------------------
(***************************************************************************)
(* The program the kernel boots into (tasks/k3_user_tasks.c) with the name *)
(* server, the clock server and its notifier, on the kernel of module      *)
(* Kernel: every step of a task is a system call of that module, with the  *)
(* arguments the task's code gives it, and the local code before it.       *)
(*                                                                         *)
(* Priorities and round robin decide who runs, so only the timer interrupt *)
(* is free: GAP system calls, or the idle task, separate two of them (a    *)
(* tick is 10 ms, a system call some microseconds).  Interrupts strike     *)
(* where register 0 holds nothing of value; what happens to it otherwise   *)
(* is what RegistersPreserved of module Kernel is about.                   *)
(***************************************************************************)
EXTENDS Kernel

CONSTANTS
  CLIENT_PRIORITIES, CLIENT_DELAYS, CLIENT_NUMS,  \* the arrays of k3_first_user_task
  TICKS_RANGE,   \* values of the u32 ticks: 2^32
  GAP,           \* system calls between two timer interrupts, at least
  TURNAROUND     \* system calls after which the notifier waits again, at most

NClients == Len(CLIENT_PRIORITIES)

\* What k3_first_user_task creates, in order.
Creations ==
  << [priority |-> INITIAL_PRIORITY, function |-> "name_server"],
     [priority |-> INITIAL_PRIORITY, function |-> "clock_server"] >>
  \o [i \in 1 .. NClients |->
       [priority |-> CLIENT_PRIORITIES[i], function |-> "k3_client"]]

K3Payload == [kind : {"K3", "REGISTER_AS", "WHO_IS", "TICK", "DELAY"},
              val : -1 .. TASK_POOL_SIZE + TICKS_RANGE]

NoK3Message == [kind |-> "none", val |-> 0]

ASSUME K3Assumption ==
  /\ CLIENT_PRIORITIES \in Seq(Int)
  /\ Len(CLIENT_DELAYS) = NClients /\ Len(CLIENT_NUMS) = NClients
  /\ TASK_POOL_SIZE >= NClients + 5
  /\ TICKS_RANGE \in Nat \ {0} /\ GAP \in Nat
  /\ TURNAROUND \in Nat /\ TURNAROUND >= GAP
  /\ Payload = K3Payload /\ NoPayload = NoK3Message
  /\ SendLens # {} /\ Lens # {} /\ AwaitedIds = {WAIT_TIMER_1} /\ ~ReplyAnyone
  /\ UserCalls = {"Create", "MyTid", "MyParentTid", "Yield", "Exit", "Send",
                  "Receive", "Reply", "AwaitEvent"}

VARIABLES
  function, pc,     \* the code a task runs, and its next system call
  name_server_tid,  \* the static of name_server.c
  name,             \* the entry "clock_server" of the name server's table
  created, replied, client_idx,     \* locals of k3_first_user_task
  idx, num, server, \* a client's parameters; the server it or the notifier uses
  ticks, delay_queue,               \* locals of clock_server
  since             \* system calls since the last timer interrupt, up to TURNAROUND

firstVars == <<created, replied, client_idx>>
clientVars == <<idx, num, server>>
clockVars == <<ticks, delay_queue>>
programVars == <<name_server_tid, name, firstVars, clientVars, clockVars>>
k3vars == <<vars, function, pc, programVars, since>>

Msg(k, v) == [kind |-> k, val |-> v]

K3Init ==
  /\ Init
  /\ function = [t \in Tid |-> IF t = FirstTid THEN "k3_first_user_task"
                               ELSE IF t = IdleTid THEN "idle" ELSE "none"]
  /\ pc = [t \in Tid |-> IF t = FirstTid THEN "create" ELSE "start"]
  /\ name_server_tid = 0 /\ name = -1
  /\ created = 0 /\ replied = 0 /\ client_idx = [t \in Tid |-> 0]
  /\ idx = [t \in Tid |-> 0] /\ num = [t \in Tid |-> 0] /\ server = [t \in Tid |-> -1]
  /\ ticks = 0 /\ delay_queue = <<>>
  /\ since = 0

-----------------------------------------------------------------------------
(* System calls with given arguments.                                      *)

Goto(t, p) == pc' = [pc EXCEPT ![t] = p]

Create(t, prio, f, p) ==
  /\ sys_create(t)
  /\ mode' = "kernel" => priority'[task_id_cnt] = prio
  /\ function' = [function EXCEPT ![task_id_cnt] = f]
  /\ Goto(t, p)

Send(t, r, m) ==
  IF r \notin jobq THEN sys_send_unknown(t)
  ELSE \/ sys_send_deliver(t) /\ args'[t].msg = m /\ buffer'[r].from = t
       \/ sys_send_queue(t) /\ args'[t].msg = m /\ InSeq(senders'[r], t)

Receive(t) ==
  sys_receive_block(t) \/ sys_receive_unknown(t) \/ sys_receive_deliver(t)

Reply(t, s, m) ==
  IF s \notin jobq THEN sys_reply_unknown(t)
  ELSE Trap("Reply", t) /\ m \in Payload /\ reply_to(t, s, m)

-----------------------------------------------------------------------------
(* k3_first_user_task                                                      *)

first_create(t) ==
  LET c == Creations[created + 1] IN
  /\ pc[t] = "create"
  /\ Create(t, c.priority, c.function,
            IF created + 1 = Len(Creations) THEN "receive" ELSE "create")
  /\ created' = created + 1
  /\ client_idx' = [client_idx EXCEPT ![task_id_cnt] = created - 1]
  /\ UNCHANGED <<name_server_tid, name, replied, clientVars, clockVars>>

first_receive(t) ==
  /\ pc[t] = "receive"
  /\ Receive(t)
  /\ Goto(t, "reply")
  /\ UNCHANGED <<function, programVars>>

first_reply(t) ==
  /\ pc[t] = "reply"
  /\ Reply(t, buffer[t].from, Msg("K3", client_idx[buffer[t].from]))
  /\ replied' = replied + 1
  /\ Goto(t, IF replied' = NClients THEN "exit" ELSE "receive")
  /\ UNCHANGED <<function, name_server_tid, name, created, client_idx, clientVars, clockVars>>

first_exit(t) ==
  /\ pc[t] = "exit"
  /\ sys_exit(t)
  /\ UNCHANGED <<function, pc, programVars>>

k3_first_user_task(t) ==
  first_create(t) \/ first_receive(t) \/ first_reply(t) \/ first_exit(t)

-----------------------------------------------------------------------------
(* k3_client                                                               *)

client_start(t) ==
  /\ \/ pc[t] = "start" /\ sys_tid(t) /\ Goto(t, "parent")
     \/ pc[t] = "parent" /\ sys_parent_tid(t) /\ Goto(t, "ask")
  /\ UNCHANGED <<function, programVars>>

\* MyParentTid has returned the task to ask for the parameters.
client_ask(t) ==
  /\ pc[t] = "ask"
  /\ Send(t, result[t], Msg("K3", 0))
  /\ Goto(t, "asked")
  /\ UNCHANGED <<function, programVars>>

\* The parameters are in msg; WhoIs calls MyTid.  A failed Send ends the task.
client_asked(t) ==
  /\ pc[t] = "asked"
  /\ IF result[t] < 0 THEN sys_exit(t) /\ UNCHANGED <<pc, idx, num>>
     ELSE /\ sys_tid(t)
          /\ idx' = [idx EXCEPT ![t] = buffer[t].msg.val]
          /\ num' = [num EXCEPT ![t] = CLIENT_NUMS[idx'[t]]]
          /\ Goto(t, "whois")
  /\ UNCHANGED <<function, name_server_tid, name, firstVars, server, clockVars>>

WhoIs(t) ==
  /\ pc[t] = "whois"
  /\ Send(t, name_server_tid, Msg("WHO_IS", 0))
  /\ Goto(t, "found")
  /\ UNCHANGED <<function, programVars>>

\* What WhoIs returns, and what the client has kept of it later.
FoundServer(t) == IF pc[t] = "delay" THEN server[t]
                  ELSE IF result[t] < 0 THEN -1 ELSE buffer[t].msg.val

\* The loop: a Delay per turn, whatever it returns; then Exit.
client_delay(t) ==
  /\ pc[t] \in {"found", "delay"} /\ num[t] > 0
  /\ server' = [server EXCEPT ![t] = FoundServer(t)]
  /\ Send(t, server'[t], Msg("DELAY", CLIENT_DELAYS[idx[t]]))
  /\ num' = [num EXCEPT ![t] = @ - 1]
  /\ Goto(t, "delay")
  /\ UNCHANGED <<function, name_server_tid, name, firstVars, idx, clockVars>>

client_exit(t) ==
  /\ pc[t] \in {"found", "delay"} /\ num[t] = 0
  /\ sys_exit(t)
  /\ UNCHANGED <<function, pc, programVars>>

k3_client(t) ==
  \/ client_start(t) \/ client_ask(t) \/ client_asked(t) \/ WhoIs(t)
  \/ client_delay(t) \/ client_exit(t)

-----------------------------------------------------------------------------
(* name_server                                                             *)

name_server_start(t) ==
  /\ pc[t] = "start" /\ sys_tid(t) /\ Goto(t, "store")
  /\ UNCHANGED <<function, programVars>>

\* Faulty variant: the static stays zero.
name_server_store_lost(t) ==
  /\ pc[t] = "store"
  /\ Goto(t, "receive")
  /\ UNCHANGED <<vars, function, name_server_tid, name, firstVars, clientVars, clockVars>>

\* The static is written when MyTid has returned; no system call.
name_server_store(t) ==
  /\ pc[t] = "store"
  /\ name_server_tid' = result[t]
  /\ Goto(t, "receive")
  /\ UNCHANGED <<vars, function, name, firstVars, clientVars, clockVars>>

name_server_receive(t) ==
  /\ pc[t] = "receive"
  /\ Receive(t)
  /\ Goto(t, "handle")
  /\ UNCHANGED <<function, programVars>>

\* Any message is answered, with an answer of its own only to WHO_IS.
name_server_reply(t) ==
  LET m == buffer[t].msg
      answer == IF m.kind = "WHO_IS" THEN Msg("WHO_IS", name) ELSE m
  IN
  /\ pc[t] = "handle"
  /\ name' = IF m.kind = "REGISTER_AS" THEN buffer[t].from ELSE name
  /\ Reply(t, buffer[t].from, answer)
  /\ Goto(t, "receive")
  /\ UNCHANGED <<function, name_server_tid, firstVars, clientVars, clockVars>>

name_server(t) == name_server_start(t) \/ name_server_receive(t) \/ name_server_reply(t)

-----------------------------------------------------------------------------
(* clock_server                                                            *)

\* RegisterAs: MyTid, Send, Yield.
RegisterAs(t) ==
  /\ \/ pc[t] = "start" /\ sys_tid(t) /\ Goto(t, "register")
     \/ /\ pc[t] = "register" /\ Send(t, name_server_tid, Msg("REGISTER_AS", 0))
        /\ Goto(t, "yield")
     \/ pc[t] = "yield" /\ sys_yield(t) /\ Goto(t, "notifier")
  /\ UNCHANGED <<function, programVars>>

\* Faulty variant: the notifier gets a priority below the clients'.
clock_server_create_low(t) ==
  /\ pc[t] = "notifier"
  /\ Create(t, TASK_PRIORITY_MIN + 1, "clock_server_tick", "receive")
  /\ UNCHANGED programVars

clock_server_create(t) ==
  /\ pc[t] = "notifier"
  /\ Create(t, INITIAL_PRIORITY, "clock_server_tick", "receive")
  /\ UNCHANGED programVars

Due == delay_queue # <<>> /\ delay_queue[1].delay <= ticks

\* Nothing (more) to do for the last message: Receive.
clock_server_receive(t) ==
  /\ pc[t] \in {"receive", "wake"} /\ (pc[t] = "wake" => ~Due)
  /\ Receive(t)
  /\ Goto(t, "handle")
  /\ UNCHANGED <<function, programVars>>

\* Faulty variant: the tick is answered but not counted.
clock_server_TICK_uncounted(t) ==
  /\ pc[t] = "handle" /\ buffer[t].msg.kind = "TICK"
  /\ Reply(t, buffer[t].from, buffer[t].msg)
  /\ Goto(t, "wake")
  /\ UNCHANGED <<function, name_server_tid, name, firstVars, clientVars, clockVars>>

clock_server_TICK(t) ==
  /\ pc[t] = "handle" /\ buffer[t].msg.kind = "TICK"
  /\ ticks' = (ticks + 1) % TICKS_RANGE
  /\ Reply(t, buffer[t].from, buffer[t].msg)
  /\ Goto(t, "wake")
  /\ UNCHANGED <<function, name_server_tid, name, firstVars, clientVars, delay_queue>>

clock_server_wake(t) ==
  /\ pc[t] = "wake" /\ Due
  /\ Reply(t, delay_queue[1].tid, Msg("TICK", ticks))
  /\ delay_queue' = Tail(delay_queue)
  /\ UNCHANGED <<function, pc, name_server_tid, name, firstVars, clientVars, ticks>>

\* Behind every node that is not later.
delay_queue_add(q, node) ==
  LET k == Cardinality({i \in DOMAIN q : \A j \in 1 .. i : q[j].delay <= node.delay})
  IN  SubSeq(q, 1, k) \o <<node>> \o SubSeq(q, k + 1, Len(q))

\* Faulty variant: the client is answered although it is queued.
clock_server_DELAY_eager(t) ==
  LET target == (buffer[t].msg.val + ticks) % TICKS_RANGE IN
  /\ pc[t] = "handle" /\ buffer[t].msg.kind = "DELAY"
  /\ Reply(t, buffer[t].from, Msg("DELAY", target)) /\ Goto(t, "receive")
  /\ delay_queue' = delay_queue_add(delay_queue, [tid |-> buffer[t].from, delay |-> target])
  /\ UNCHANGED <<function, name_server_tid, name, firstVars, clientVars, ticks>>

\* A deadline that has passed is answered at once; any other is queued, and the
\* server receives again.
clock_server_DELAY(t) ==
  LET target == (buffer[t].msg.val + ticks) % TICKS_RANGE IN
  /\ pc[t] = "handle" /\ buffer[t].msg.kind = "DELAY"
  /\ \/ /\ target <= ticks
        /\ Reply(t, buffer[t].from, Msg("DELAY", target)) /\ Goto(t, "receive")
        /\ UNCHANGED delay_queue
     \/ /\ target > ticks
        /\ delay_queue' = delay_queue_add(delay_queue,
                            [tid |-> buffer[t].from, delay |-> target])
        /\ Receive(t) /\ UNCHANGED pc
  /\ UNCHANGED <<function, name_server_tid, name, firstVars, clientVars, ticks>>

clock_server(t) ==
  \/ RegisterAs(t) \/ clock_server_create(t) \/ clock_server_receive(t)
  \/ clock_server_TICK(t) \/ clock_server_wake(t) \/ clock_server_DELAY(t)

-----------------------------------------------------------------------------
(* clock_server_tick, the notifier                                         *)

notifier_start(t) ==
  /\ pc[t] = "start" /\ sys_parent_tid(t) /\ Goto(t, "await")
  /\ UNCHANGED <<function, programVars>>

\* The first AwaitEvent comes after MyParentTid, every other after a Send; a Send
\* that failed ends the task.
notifier_await(t) ==
  /\ pc[t] \in {"await", "again"}
  /\ IF pc[t] = "again" /\ result[t] < 0 THEN sys_exit(t) /\ UNCHANGED <<pc, server>>
     ELSE /\ sys_await_event(t)
          /\ server' = [server EXCEPT ![t] = IF pc[t] = "await" THEN result[t] ELSE @]
          /\ Goto(t, "tick")
  /\ UNCHANGED <<function, name_server_tid, name, firstVars, idx, num, clockVars>>

\* AwaitEvent returns what the call before it returned.
notifier_send(t) ==
  /\ pc[t] = "tick"
  /\ IF result[t] < 0 THEN sys_exit(t) /\ UNCHANGED pc
     ELSE Send(t, server[t], Msg("TICK", 0)) /\ Goto(t, "again")
  /\ UNCHANGED <<function, programVars>>

clock_server_tick(t) == notifier_start(t) \/ notifier_await(t) \/ notifier_send(t)

-----------------------------------------------------------------------------
Program(t) ==
  \/ function[t] = "k3_first_user_task" /\ k3_first_user_task(t)
  \/ function[t] = "k3_client" /\ k3_client(t)
  \/ function[t] = "name_server" /\ name_server(t)
  \/ function[t] = "clock_server" /\ clock_server(t)
  \/ function[t] = "clock_server_tick" /\ clock_server_tick(t)

UserStep(t) ==
  /\ mode = "user" /\ current_task = t
  /\ \/ Program(t) /\ since' = IF since < TURNAROUND THEN since + 1 ELSE since
     \/ function[t] = "name_server" /\ name_server_store(t) /\ UNCHANGED since

MayInterrupt == since >= GAP \/ current_task = IdleTid

Timer == /\ MayInterrupt
         /\ handle_irq
         /\ since' = 0
         /\ UNCHANGED <<function, pc, programVars>>

Resume == schedule /\ UNCHANGED <<function, pc, programVars, since>>

K3Next == Resume \/ Timer \/ \E t \in Tid : UserStep(t)

K3Spec == K3Init /\ [][K3Next]_k3vars

\* The kernel returns, the timer keeps interrupting, and tasks are not only
\* interrupted; which task gets on is the scheduler's decision.
K3FairSpec ==
  /\ K3Spec
  /\ WF_k3vars(Resume) /\ SF_k3vars(Timer) /\ SF_k3vars(\E t \in Tid : UserStep(t))

-----------------------------------------------------------------------------
Understood(f) ==
  CASE f = "k3_first_user_task" -> {"K3"}
    [] f = "name_server" -> {"REGISTER_AS", "WHO_IS"}
    [] f = "clock_server" -> {"TICK", "DELAY"}
    [] OTHER -> {}

HasMessage(t) == buffer[t].from # NoTask

\* Every message is on its way to, or in the hands of, a task that understands
\* it, and every client that has looked for the clock server has found it: no
\* task uses name_server_tid before the name server has stored it, and none
\* asks for the clock server before it has registered (name_server.c, k3_client).
MessagesReachServers ==
  /\ \A r \in jobq : \A i \in DOMAIN senders[r] :
       args[senders[r][i]].msg.kind \in Understood(function[r])
  /\ \A r \in jobq : HasMessage(r) => buffer[r].msg.kind \in Understood(function[r])
  /\ \A t \in jobq : function[t] = "k3_client" /\ pc[t] = "delay" =>
       server[t] \in jobq /\ function[server[t]] = "clock_server"

\* Whoever a server is about to answer waits for that answer, and for no other:
\* the programs use Reply the way KernelInvariantHolds assumes, and no assertion
\* of the kernel fails.
RepliesAwaited ==
  /\ NoAssertionFailure
  /\ \A t \in jobq : HasMessage(t) => state[buffer[t].from] = "WATIREPLY"
  /\ \A i \in DOMAIN delay_queue :
       /\ state[delay_queue[i].tid] = "WATIREPLY"
       /\ \A t \in jobq : HasMessage(t) => buffer[t].from # delay_queue[i].tid
       /\ \A j \in DOMAIN delay_queue : delay_queue[j].tid = delay_queue[i].tid => j = i

\* AwaitEvent, which assigns no result, never seems to fail: the call before it
\* returned a tid or a length (sys_await_event, clock_server_tick).
AwaitEventSucceeds ==
  \A t \in jobq : function[t] = "clock_server_tick" /\ pc[t] \in {"tick", "again"} =>
    result[t] >= 0

\* Once the notifier has waited for a tick it is back in AwaitEvent TURNAROUND
\* system calls after an interrupt, or when the idle task runs: a tick that
\* comes no earlier finds it there and is not lost (clock_server_tick).
NotifierInTime ==
  \A t \in jobq : function[t] = "clock_server_tick" /\ pc[t] \in {"tick", "again"} =>
    (mode = "user" /\ (since = TURNAROUND \/ current_task = IdleTid)
       => state[t] = "AWATIEVENT")

\* Every client gets its parameters, finds the clock server, spends its delays
\* and exits.
ClientsFinish ==
  <>(created = Len(Creations) /\
     \A t \in Tid : function[t] \in {"k3_first_user_task", "k3_client"} => t \notin jobq)
=============================================================================
