------------------------------- MODULE Kernel -------------------------------
(***************************************************************************)
(* The kernel: task table, scheduler, system calls, message passing and    *)
(* the timer interrupt (task_scheduler.c, task.c, message_passing.c,       *)
(* kernel_syscall.c, exception.c, interrupt.c, kernel.c).                  *)
(*                                                                         *)
(* The kernel runs at EL1 with interrupts masked, so a handler is one      *)
(* atomic step.  kmain alternates: a task runs at EL0 (mode = "user")      *)
(* until it traps; the handler runs (one action per handler) and leaves    *)
(* mode = "kernel"; schedule() and activate() pick and resume a task.      *)
(* User programs are arbitrary sequences of system calls, interrupted      *)
(* anywhere by the timer; the idle task only waits for interrupts.         *)
(*                                                                         *)
(* assert() prints and enters exit_all, an endless wait: mode "halted".    *)
(* "exited" is kmain returning.  "wild" is undefined behaviour: the kernel *)
(* copies through registers that hold no message pointer, or resumes a     *)
(* task slot that task_init has zeroed; the model follows it no further.   *)
(***************************************************************************)
EXTENDS Integers, Sequences, FiniteSets

CONSTANTS
  TASK_POOL_SIZE,        \* task slots, and nodes of each TaskNodePool (MAX_TASK_NUM)
  TASK_PRIORITY_MAX,     \* priorities are 0 .. TASK_PRIORITY_MAX - 1
  INITIAL_PRIORITY,      \* priority of the first user task
  MAX_SENDER_CAPACITY,   \* ring slots of a sender queue, one of which stays empty
  MEMORY_BLOCK_MAX_NUM,  \* stack blocks
  WAIT_TIMER_1,          \* interrupt id of the system timer
  UserCalls,             \* the system calls user programs make
  CreatePriorities,      \* priorities they pass to Create, before clamping
  AwaitedIds,            \* event ids they pass to AwaitEvent
  Payload,               \* message contents
  SendLens,              \* lengths of the message and of the reply buffer of a Send
  Lens,                  \* lengths programs pass to Receive and Reply
  NoPayload,             \* stands for the contents where there is no message
  ReplyAnyone            \* FALSE: programs reply only to tasks blocked in a
                         \* received Send; TRUE: to any tid

TASK_PRIORITY_MIN == 0
Tid == 0 .. TASK_POOL_SIZE - 1
Prio == TASK_PRIORITY_MIN .. TASK_PRIORITY_MAX - 1
Blocks == 0 .. MEMORY_BLOCK_MAX_NUM - 1
FirstTid == 0
IdleTid == 1
NoTask == -1
NoBlock == -1
ValidIntid(e) == 0 <= e /\ e < 1022
EventIds == {e \in AwaitedIds : ValidIntid(e)} \cup {WAIT_TIMER_1}

ASSUME PoolAssumption == TASK_POOL_SIZE \in Nat /\ TASK_POOL_SIZE >= 2
ASSUME PriorityAssumption ==
  /\ TASK_PRIORITY_MAX \in Nat
  /\ INITIAL_PRIORITY \in 1 .. TASK_PRIORITY_MAX - 1
ASSUME CapacityAssumption ==
  /\ MAX_SENDER_CAPACITY \in Nat /\ MAX_SENDER_CAPACITY >= TASK_POOL_SIZE
  /\ MEMORY_BLOCK_MAX_NUM \in Nat /\ MEMORY_BLOCK_MAX_NUM >= TASK_POOL_SIZE
ASSUME InputAssumption ==
  /\ CreatePriorities \subseteq Int /\ AwaitedIds \subseteq Int
  /\ WAIT_TIMER_1 \in Int /\ ValidIntid(WAIT_TIMER_1)
  /\ SendLens \subseteq [msg : Nat, reply : Nat] /\ Lens \subseteq Nat
  /\ Payload # {} /\ ReplyAnyone \in BOOLEAN

\* What programs do that use the kernel as intended: they reply only to tasks
\* that wait for it, and await only events the kernel knows.
WellBehaved == ~ReplyAnyone /\ \A e \in AwaitedIds : ValidIntid(e)

TaskState == {"INITIALIZED", "WATISEND", "WAITRECEIVE", "WATIREPLY",
              "AWATIEVENT", "READY", "RUNNING"}

VARIABLES
  task_id_cnt,         \* next tid; slot tid of task_pool is the task's slot
  jobq,                \* tids of the live tasks (the list's contents)
  state, priority, parent_tid, result, should_pass_result,
  senders,             \* tids waiting in a task's sender queue, oldest first
  memory_block,        \* the stack block of a task
  memory_blocks_used,
  x0,                  \* what register 0 of a trapped task holds: "arg" (of its
                       \* system call), "user" (its own value) or "result"
  args,                \* the message arguments in a trapped task's registers
  buffer,              \* what the kernel copied to the task's buffers in the
                       \* call it is returning from; consumed by its next call
  readyq, readyq_pool, \* READY tasks by priority; free nodes of the pool
  irqq, irqq_pool,     \* tasks awaiting each event; free nodes of the pool
  current_task,
  mode

taskVars == <<state, priority, parent_tid, result, should_pass_result, senders>>
memVars == <<memory_block, memory_blocks_used>>
userVars == <<x0, args, buffer>>
readyVars == <<readyq, readyq_pool>>
irqVars == <<irqq, irqq_pool>>
vars == <<task_id_cnt, jobq, taskVars, memVars, userVars, readyVars, irqVars,
          current_task, mode>>

NoArgs == [call |-> "none", msg |-> NoPayload, msg_len |-> 0, reply_len |-> 0]
SendArgs(m, ln) == [call |-> "send", msg |-> m, msg_len |-> ln.msg, reply_len |-> ln.reply]
ReceiveArgs(l) == [call |-> "receive", msg |-> NoPayload, msg_len |-> l, reply_len |-> 0]
Args == [call : {"none", "send", "receive"}, msg : Payload \cup {NoPayload},
         msg_len : Nat, reply_len : Nat]
NoMessage == [from |-> NoTask, msg |-> NoPayload, len |-> 0]
Message == [from : Tid \cup {NoTask}, msg : Payload \cup {NoPayload}, len : Nat]

-----------------------------------------------------------------------------
(* The data structures the handlers use.                                   *)

i32_clamp(v, lo, hi) == IF v < lo THEN lo ELSE IF v > hi THEN hi ELSE v

\* Faulty variant: a task is pushed in front of its equals.
ptask_queue_push_front(q, p, t) == [q EXCEPT ![p] = <<t>> \o @]

ptask_queue_push(q, p, t) == [q EXCEPT ![p] = Append(@, t)]

ptask_queue_empty(q) == \A p \in Prio : q[p] = <<>>

\* Faulty variant: the scan starts at the lowest priority.
ptask_queue_first_low(q, p) == q[p] # <<>> /\ \A o \in Prio : o < p => q[o] = <<>>

\* The list ptask_queue_pop takes its task from.
ptask_queue_first(q, p) == q[p] # <<>> /\ \A o \in Prio : o > p => q[o] = <<>>

\* Faulty variant: the task stays in the list.
ptask_queue_peek(q, p) == q

ptask_queue_pop(q, p) == [q EXCEPT ![p] = Tail(@)]

\* The block memory_allocate_block returns: the first unused one, or NULL.
memory_allocate_block(b) ==
  IF b = NoBlock THEN memory_blocks_used = Blocks
  ELSE /\ b \notin memory_blocks_used
       /\ \A c \in Blocks : c < b => c \in memory_blocks_used

\* Faulty variant: two ring slots stay empty.
queue_is_full_early(q) == Len(q) >= MAX_SENDER_CAPACITY - 2

queue_is_full(q) == Len(q) = MAX_SENDER_CAPACITY - 1

\* Faulty variant: the sender stays in the queue.
next_sender_peek(q) == q

\* The sender queue after next_sender has taken its head.
next_sender(q) == Tail(q)

\* Faulty variant: the longer of the two lengths.
copy_message_longer(from_len, to_len) == IF from_len < to_len THEN to_len ELSE from_len

copy_message(from_len, to_len) == IF from_len < to_len THEN from_len ELSE to_len

-----------------------------------------------------------------------------
(* What the handlers have in common.                                       *)

\* assert(): exit_all never returns.
Halt == /\ mode' = "halted"
        /\ UNCHANGED <<task_id_cnt, jobq, taskVars, memVars, userVars, readyVars,
                       irqVars, current_task>>

Wild == /\ mode' = "wild"
        /\ UNCHANGED <<task_id_cnt, jobq, taskVars, memVars, userVars, readyVars,
                       irqVars, current_task>>

\* Task t executes svc for one of the calls of its program; registers saved.
Trap(call, t) ==
  /\ mode = "user" /\ current_task = t /\ t # IdleTid
  /\ call \in UserCalls

\* The registers and buffers of a task that made an svc with message arguments a.
SvcUser(t, a) ==
  /\ x0' = [x0 EXCEPT ![t] = "arg"]
  /\ args' = [args EXCEPT ![t] = a]
  /\ buffer' = [buffer EXCEPT ![t] = NoMessage]

\* Faulty variant: the flag is forgotten.
assign_result_unflagged(t, v) ==
  /\ result' = [result EXCEPT ![t] = v]
  /\ UNCHANGED should_pass_result

assign_result(t, v) ==
  /\ result' = [result EXCEPT ![t] = v]
  /\ should_pass_result' = [should_pass_result EXCEPT ![t] = TRUE]

\* The assertions of change_task_state(t, READY), ptask_queue_push included.
MayBecomeReady(t) == state[t] # "READY" /\ readyq_pool > 0

PushReady(t) ==
  /\ readyq' = ptask_queue_push(readyq, priority[t], t)
  /\ readyq_pool' = readyq_pool - 1

-----------------------------------------------------------------------------
(* kernel_syscall.c                                                        *)

\* A new task in the next slot: create_task.
create_task(prio, parent, b) ==
  LET n == task_id_cnt IN
  /\ task_id_cnt' = n + 1
  /\ jobq' = jobq \cup {n}
  /\ parent_tid' = [parent_tid EXCEPT ![n] = parent]
  /\ priority' = [priority EXCEPT ![n] = prio]
  /\ memory_block' = [memory_block EXCEPT ![n] = b]
  /\ memory_blocks_used' = memory_blocks_used \cup ({b} \ {NoBlock})
  /\ readyq' = ptask_queue_push(readyq, prio, n)
  /\ readyq_pool' = readyq_pool - 1
  /\ state' = [state EXCEPT ![n] = "READY"]

sys_create(t) ==
  /\ Trap("Create", t)
  /\ IF task_id_cnt = TASK_POOL_SIZE
     THEN /\ SvcUser(t, NoArgs)
          /\ assign_result(t, -1)
          /\ mode' = "kernel"
          /\ UNCHANGED <<task_id_cnt, jobq, state, priority, parent_tid, senders,
                         memVars, readyVars, irqVars, current_task>>
     ELSE IF Cardinality(jobq) < TASK_POOL_SIZE /\ MayBecomeReady(task_id_cnt)
     THEN /\ \E v \in CreatePriorities, b \in Blocks \cup {NoBlock} :
               /\ memory_allocate_block(b)
               /\ create_task(i32_clamp(v, TASK_PRIORITY_MIN, TASK_PRIORITY_MAX - 1), t, b)
          /\ SvcUser(t, NoArgs)
          /\ assign_result(t, task_id_cnt)
          /\ mode' = "kernel"
          /\ UNCHANGED <<senders, irqVars, current_task>>
     ELSE Halt

\* sys_tid and sys_parent_tid differ in the value they return.
Query(call, t, v) ==
  /\ Trap(call, t)
  /\ SvcUser(t, NoArgs)
  /\ assign_result(t, v)
  /\ mode' = "kernel"
  /\ UNCHANGED <<task_id_cnt, jobq, state, priority, parent_tid, senders, memVars,
                 readyVars, irqVars, current_task>>

sys_tid(t) == Query("MyTid", t, t)

\* Faulty variant: the parent was never recorded.
sys_parent_tid_unset(t) == Query("MyParentTid", t, NoTask)

sys_parent_tid(t) == Query("MyParentTid", t, parent_tid[t])

\* sys_yield does nothing: the scheduler that follows every trap does the work.
sys_yield(t) ==
  /\ Trap("Yield", t)
  /\ SvcUser(t, NoArgs)
  /\ mode' = "kernel"
  /\ UNCHANGED <<task_id_cnt, jobq, taskVars, memVars, readyVars, irqVars, current_task>>

\* Faulty variant: the block stays marked as used.
memory_free_nothing(b) == memory_blocks_used

memory_free_block(b) == memory_blocks_used \ {b}

\* Faulty variant: the state is left as it was.
task_init_partly(t) ==
  /\ priority' = [priority EXCEPT ![t] = TASK_PRIORITY_MIN]
  /\ senders' = [senders EXCEPT ![t] = <<>>]
  /\ memory_block' = [memory_block EXCEPT ![t] = NoBlock]
  /\ UNCHANGED <<state, parent_tid, result, should_pass_result, args, x0>>

task_init(t) ==
  /\ state' = [state EXCEPT ![t] = "INITIALIZED"]
  /\ priority' = [priority EXCEPT ![t] = TASK_PRIORITY_MIN]
  /\ parent_tid' = [parent_tid EXCEPT ![t] = NoTask]
  /\ result' = [result EXCEPT ![t] = 0]
  /\ should_pass_result' = [should_pass_result EXCEPT ![t] = FALSE]
  /\ senders' = [senders EXCEPT ![t] = <<>>]
  /\ memory_block' = [memory_block EXCEPT ![t] = NoBlock]
  /\ args' = [args EXCEPT ![t] = NoArgs]
  /\ x0' = [x0 EXCEPT ![t] = "arg"]

\* The slot is not handed back to the task pool.
sys_exit(t) ==
  /\ Trap("Exit", t)
  /\ jobq' = jobq \ {t}
  /\ memory_blocks_used' = memory_free_block(memory_block[t])
  /\ task_init(t)
  /\ buffer' = [buffer EXCEPT ![t] = NoMessage]
  /\ current_task' = NoTask
  /\ mode' = "kernel"
  /\ UNCHANGED <<task_id_cnt, readyVars, irqVars>>

-----------------------------------------------------------------------------
(* message_passing.c.  get_task_by_tid(r) is r itself when r \in jobq.     *)

\* Send to a tid that names no task returns -1.
sys_send_unknown(t) ==
  /\ Trap("Send", t)
  /\ SvcUser(t, NoArgs)
  /\ assign_result(t, -1)
  /\ mode' = "kernel"
  /\ UNCHANGED <<task_id_cnt, jobq, state, priority, parent_tid, senders, memVars,
                 readyVars, irqVars, current_task>>

\* Send to a task blocked in Receive: the message is copied at once, and the
\* sender waits for the reply.
sys_send_deliver(t) ==
  /\ Trap("Send", t)
  /\ \E r \in jobq, m \in Payload, ln \in SendLens :
       LET actual_len == copy_message(ln.msg, args[r].msg_len) IN
       /\ state[r] = "WAITRECEIVE"
       /\ IF readyq_pool > 0
          THEN /\ x0' = [x0 EXCEPT ![t] = "arg"]
               /\ args' = [args EXCEPT ![t] = SendArgs(m, ln)]
               /\ buffer' = [buffer EXCEPT ![t] = NoMessage,
                               ![r] = [from |-> t, msg |-> m, len |-> actual_len]]
               /\ assign_result(r, actual_len)
               /\ PushReady(r)
               /\ state' = [state EXCEPT ![r] = "READY", ![t] = "WATIREPLY"]
               /\ mode' = "kernel"
               /\ UNCHANGED <<task_id_cnt, jobq, priority, parent_tid, senders,
                              memVars, irqVars, current_task>>
          ELSE Halt

\* Send to any other task, itself included: the sender waits in its queue; the
\* message stays in the sender's memory.  A full queue returns -2.
sys_send_queue(t) ==
  /\ Trap("Send", t)
  /\ \E r \in jobq, m \in Payload, ln \in SendLens :
       /\ state[r] # "WAITRECEIVE"
       /\ IF queue_is_full(senders[r])
          THEN /\ SvcUser(t, NoArgs)
               /\ assign_result(t, -2)
               /\ UNCHANGED <<senders, state>>
          ELSE /\ SvcUser(t, SendArgs(m, ln))
               /\ senders' = [senders EXCEPT ![r] = Append(@, t)]
               /\ state' = [state EXCEPT ![t] = "WATISEND"]
               /\ UNCHANGED <<result, should_pass_result>>
       /\ mode' = "kernel"
       /\ UNCHANGED <<task_id_cnt, jobq, priority, parent_tid, memVars, readyVars,
                      irqVars, current_task>>

\* Receive with no sender waiting blocks.
sys_receive_block(t) ==
  /\ Trap("Receive", t)
  /\ senders[t] = <<>>
  /\ \E l \in Lens : SvcUser(t, ReceiveArgs(l))
  /\ state' = [state EXCEPT ![t] = "WAITRECEIVE"]
  /\ mode' = "kernel"
  /\ UNCHANGED <<task_id_cnt, jobq, priority, parent_tid, result, should_pass_result,
                 senders, memVars, readyVars, irqVars, current_task>>

\* The oldest sender has exited meanwhile: -1.
sys_receive_unknown(t) ==
  /\ Trap("Receive", t)
  /\ senders[t] # <<>> /\ Head(senders[t]) \notin jobq
  /\ senders' = [senders EXCEPT ![t] = next_sender(@)]
  /\ SvcUser(t, NoArgs)
  /\ assign_result(t, -1)
  /\ mode' = "kernel"
  /\ UNCHANGED <<task_id_cnt, jobq, state, priority, parent_tid, memVars, readyVars,
                 irqVars, current_task>>

\* The oldest sender's message is copied; that sender now waits for the reply.
\* Its registers are read as Send arguments whatever call it is in: those of a
\* Receive name a buffer too (the caller's own, if it has queued on itself).
sys_receive_deliver(t) ==
  /\ Trap("Receive", t)
  /\ senders[t] # <<>> /\ Head(senders[t]) \in jobq
  /\ \E l \in Lens :
       LET s == Head(senders[t])
           send_args == IF s = t THEN ReceiveArgs(l) ELSE args[s]
           actual_len == copy_message(send_args.msg_len, l)
       IN IF send_args.call = "none" THEN Wild
          ELSE IF state[s] = "WATIREPLY" THEN Halt
          ELSE /\ senders' = [senders EXCEPT ![t] = next_sender(@)]
               /\ x0' = [x0 EXCEPT ![t] = "arg"]
               /\ args' = [args EXCEPT ![t] = NoArgs]
               /\ buffer' = [buffer EXCEPT ![t] =
                               [from |-> s, msg |-> send_args.msg, len |-> actual_len]]
               /\ assign_result(t, actual_len)
               /\ state' = [state EXCEPT ![s] = "WATIREPLY"]
               /\ mode' = "kernel"
               /\ UNCHANGED <<task_id_cnt, jobq, priority, parent_tid, memVars,
                              readyVars, irqVars, current_task>>

\* Reply to a tid that names no task returns -1.
sys_reply_unknown(t) ==
  /\ Trap("Reply", t)
  /\ SvcUser(t, NoArgs)
  /\ assign_result(t, -1)
  /\ mode' = "kernel"
  /\ UNCHANGED <<task_id_cnt, jobq, state, priority, parent_tid, senders, memVars,
                 readyVars, irqVars, current_task>>

\* Reply does not look at the state of the task it answers: the reply is copied
\* to where that task's registers point, and the task becomes READY.
reply_to(t, s, m) ==
  \E l \in Lens :
    LET actual_len == copy_message(l, args[s].reply_len) IN
    IF s = t \/ args[s].call # "send" THEN Wild
    ELSE IF MayBecomeReady(s)
    THEN /\ x0' = [x0 EXCEPT ![t] = "arg"]
         /\ args' = [args EXCEPT ![t] = NoArgs]
         /\ buffer' = [buffer EXCEPT ![t] = NoMessage,
                         ![s] = [from |-> NoTask, msg |-> m, len |-> actual_len]]
         /\ result' = [result EXCEPT ![s] = actual_len, ![t] = actual_len]
         /\ should_pass_result' = [should_pass_result EXCEPT ![s] = TRUE, ![t] = TRUE]
         /\ PushReady(s)
         /\ state' = [state EXCEPT ![s] = "READY"]
         /\ mode' = "kernel"
         /\ UNCHANGED <<task_id_cnt, jobq, priority, parent_tid, senders, memVars,
                        irqVars, current_task>>
    ELSE Halt

sys_reply(t) ==
  /\ Trap("Reply", t)
  /\ \E s \in jobq, m \in Payload :
       /\ ReplyAnyone \/ state[s] = "WATIREPLY"
       /\ reply_to(t, s, m)

-----------------------------------------------------------------------------
(* Events and interrupts.                                                  *)

sys_await_event(t) ==
  /\ Trap("AwaitEvent", t)
  /\ \E intid \in AwaitedIds :
       IF ValidIntid(intid) /\ irqq_pool > 0
       THEN /\ state' = [state EXCEPT ![t] = "AWATIEVENT"]
            /\ irqq' = [irqq EXCEPT ![intid] = ptask_queue_push(@, priority[t], t)]
            /\ irqq_pool' = irqq_pool - 1
            /\ SvcUser(t, NoArgs)
            /\ mode' = "kernel"
            /\ UNCHANGED <<task_id_cnt, jobq, priority, parent_tid, result,
                           should_pass_result, senders, memVars, readyVars, current_task>>
       ELSE Halt

\* The running task is interrupted between two of its instructions: its
\* registers are saved as they are.
Interrupted(t) ==
  /\ mode = "user" /\ current_task = t
  /\ x0' = [x0 EXCEPT ![t] = "user"]
  /\ args' = [args EXCEPT ![t] = NoArgs]
  /\ UNCHANGED buffer

\* The timer interrupt wakes the first task that awaits it; with nobody
\* waiting the event is lost.  handle_timer_1 is the Timer component's.
handle_irq ==
  LET q == irqq[WAIT_TIMER_1] IN
  /\ mode = "user"
  /\ IF ptask_queue_empty(q)
     THEN /\ Interrupted(current_task)
          /\ mode' = "kernel"
          /\ UNCHANGED <<taskVars, readyVars, irqVars>>
          /\ UNCHANGED <<task_id_cnt, jobq, memVars, current_task>>
     ELSE \E p \in Prio :
            /\ ptask_queue_first(q, p)
            /\ LET u == Head(q[p]) IN
               IF state[u] = "AWATIEVENT" /\ readyq_pool > 0
               THEN /\ Interrupted(current_task)
                    /\ irqq' = [irqq EXCEPT ![WAIT_TIMER_1] = ptask_queue_pop(q, p)]
                    /\ irqq_pool' = irqq_pool + 1
                    /\ PushReady(u)
                    /\ state' = [state EXCEPT ![u] = "READY"]
                    /\ mode' = "kernel"
                    /\ UNCHANGED <<priority, parent_tid, result, should_pass_result, senders>>
                    /\ UNCHANGED <<task_id_cnt, jobq, memVars, current_task>>
               ELSE Halt

\* A synchronous exception that is no svc is printed and ignored: the task
\* resumes at the same instruction.
unsupported_exception(t) ==
  /\ "fault" \in UserCalls /\ t # IdleTid
  /\ Interrupted(t)
  /\ mode' = "kernel"
  /\ UNCHANGED <<task_id_cnt, jobq, taskVars, memVars, readyVars, irqVars, current_task>>

-----------------------------------------------------------------------------
(* kmain: schedule() and activate().                                       *)

\* The task that trapped is still RUNNING: schedule() makes it READY.
StillRuns == current_task # NoTask /\ state[current_task] = "RUNNING"

ScheduledReadyq == IF StillRuns
                   THEN ptask_queue_push(readyq, priority[current_task], current_task)
                   ELSE readyq

\* activate() writes the result to register 0; the flag is never cleared.
PassedX0(t) == IF should_pass_result[t] THEN "result" ELSE x0[t]

ScheduleAssertion ==
  current_task # NoTask =>
    state[current_task] \in TaskState \ {"READY"}

\* The first READY task of the highest priority is resumed.
schedule ==
  /\ mode = "kernel"
  /\ IF ~ScheduleAssertion \/ (StillRuns /\ readyq_pool = 0) THEN Halt
     ELSE IF ptask_queue_empty(ScheduledReadyq)
     THEN /\ mode' = "exited"
          /\ UNCHANGED <<task_id_cnt, jobq, taskVars, memVars, userVars, readyVars,
                         irqVars, current_task>>
     ELSE \E p \in Prio :
            /\ ptask_queue_first(ScheduledReadyq, p)
            /\ LET t == Head(ScheduledReadyq[p])
                   pool == IF StillRuns THEN readyq_pool - 1 ELSE readyq_pool
                   st == IF StillRuns THEN [state EXCEPT ![current_task] = "READY"]
                         ELSE state
               IN /\ readyq' = ptask_queue_pop(ScheduledReadyq, p)
                  /\ readyq_pool' = pool + 1
                  /\ state' = [st EXCEPT ![t] = "RUNNING"]
                  /\ current_task' = t
                  /\ x0' = [x0 EXCEPT ![t] = PassedX0(t)]
                  /\ args' = [args EXCEPT ![t] = NoArgs]
                  /\ mode' = IF t \in jobq THEN "user" ELSE "wild"
                  /\ UNCHANGED <<task_id_cnt, jobq, priority, parent_tid, result,
                                 should_pass_result, senders, memVars, buffer, irqVars>>

-----------------------------------------------------------------------------
\* After init_kernel and init_tasks: the first user task and the idle task.
Init ==
  /\ task_id_cnt = 2
  /\ jobq = {FirstTid, IdleTid}
  /\ state = [t \in Tid |-> IF t \in {FirstTid, IdleTid} THEN "READY" ELSE "INITIALIZED"]
  /\ priority = [t \in Tid |-> IF t = FirstTid THEN INITIAL_PRIORITY ELSE TASK_PRIORITY_MIN]
  /\ parent_tid = [t \in Tid |-> NoTask]
  /\ result = [t \in Tid |-> 0]
  /\ should_pass_result = [t \in Tid |-> FALSE]
  /\ senders = [t \in Tid |-> <<>>]
  /\ memory_block = [t \in Tid |-> IF t \in {FirstTid, IdleTid} THEN t ELSE NoBlock]
  /\ memory_blocks_used = {FirstTid, IdleTid}
  /\ x0 = [t \in Tid |-> "arg"]
  /\ args = [t \in Tid |-> NoArgs]
  /\ buffer = [t \in Tid |-> NoMessage]
  /\ readyq = [p \in Prio |-> IF p = INITIAL_PRIORITY THEN <<FirstTid>>
                              ELSE IF p = TASK_PRIORITY_MIN THEN <<IdleTid>> ELSE <<>>]
  /\ readyq_pool = TASK_POOL_SIZE - 2
  /\ irqq = [e \in EventIds |-> [p \in Prio |-> <<>>]]
  /\ irqq_pool = TASK_POOL_SIZE
  /\ current_task = NoTask
  /\ mode = "kernel"

\* What a user program does on its own account.
TaskStep(t) ==
  \/ sys_create(t) \/ sys_tid(t) \/ sys_parent_tid(t) \/ sys_yield(t) \/ sys_exit(t)
  \/ sys_send_unknown(t) \/ sys_send_deliver(t) \/ sys_send_queue(t)
  \/ sys_receive_block(t) \/ sys_receive_unknown(t) \/ sys_receive_deliver(t)
  \/ sys_reply_unknown(t) \/ sys_reply(t)
  \/ sys_await_event(t) \/ unsupported_exception(t)

Next == schedule \/ handle_irq \/ \E t \in Tid : TaskStep(t)

Spec == Init /\ [][Next]_vars

\* The kernel never stops in a handler.  The timer keeps raising its interrupt,
\* which stays pending until it is taken, and tasks run with interrupts enabled.
FairSpec == Spec /\ WF_vars(schedule) /\ SF_vars(handle_irq)

-----------------------------------------------------------------------------
(* Properties.                                                             *)

\* Every variable has its type: in particular the scheduler's current_task is
\* a task or NULL and the node pools stay within their arrays (task_queue.c).
TypeOK ==
  /\ task_id_cnt \in 2 .. TASK_POOL_SIZE
  /\ jobq \subseteq 0 .. task_id_cnt - 1
  /\ state \in [Tid -> TaskState]
  /\ priority \in [Tid -> Prio]
  /\ parent_tid \in [Tid -> Tid \cup {NoTask}]
  /\ result \in [Tid -> Int]
  /\ should_pass_result \in [Tid -> BOOLEAN]
  /\ senders \in [Tid -> Seq(Tid)]
  /\ memory_block \in [Tid -> Blocks \cup {NoBlock}]
  /\ memory_blocks_used \subseteq Blocks
  /\ x0 \in [Tid -> {"arg", "user", "result"}]
  /\ args \in [Tid -> Args]
  /\ buffer \in [Tid -> Message]
  /\ readyq \in [Prio -> Seq(Tid)]
  /\ readyq_pool \in Int
  /\ irqq \in [EventIds -> [Prio -> Seq(Tid)]]
  /\ irqq_pool \in Int
  /\ current_task \in Tid \cup {NoTask}
  /\ mode \in {"kernel", "user", "halted", "exited", "wild"}
  /\ mode = "user" => current_task \in Tid

InSeq(q, t) == \E i \in 1 .. Len(q) : q[i] = t
NoRepeats(q) == \A i, j \in 1 .. Len(q) : q[i] = q[j] => i = j

\* The ready queue holds exactly the READY tasks, each once, in the list of its
\* priority (change_task_state and schedule keep queue and state together).
ReadyQueueExact ==
  /\ \A p \in Prio : NoRepeats(readyq[p])
  /\ \A t \in Tid, p \in Prio :
       InSeq(readyq[p], t) <=> state[t] = "READY" /\ priority[t] = p

\* An event queue holds only tasks in AWATIEVENT, no task is in two of them or
\* twice in one, and every task in AWATIEVENT is in one: an interrupt that finds
\* a waiter wakes it and trips no assertion (wake_up_irq_blocked_tasks).
EventQueuesExact ==
  /\ \A e \in EventIds, p \in Prio : NoRepeats(irqq[e][p])
  /\ \A t \in Tid, e \in EventIds, p \in Prio : InSeq(irqq[e][p], t) =>
       state[t] = "AWATIEVENT" /\ priority[t] = p
  /\ \A t \in Tid, e, f \in EventIds, p \in Prio :
       InSeq(irqq[e][p], t) /\ InSeq(irqq[f][p], t) => e = f
  /\ \A t \in Tid : state[t] = "AWATIEVENT" =>
       \E e \in EventIds : InSeq(irqq[e][priority[t]], t)

\* A sender queue holds only tasks in WATISEND, with the arguments of their Send
\* still in their registers, and no task waits in two places: a Receive always
\* finds the message it was promised (sys_receive).
SenderQueuesExact ==
  /\ \A r \in Tid : NoRepeats(senders[r])
  /\ \A t, r \in Tid : InSeq(senders[r], t) => state[t] = "WATISEND"
  /\ \A t, r, q \in Tid : InSeq(senders[r], t) /\ InSeq(senders[q], t) => r = q
  /\ \A t \in Tid : state[t] \in {"WATISEND", "WATIREPLY"} => args[t].call = "send"
  /\ \A t \in Tid : state[t] = "WAITRECEIVE" =>
       senders[t] = <<>> /\ args[t].call = "receive"

\* A task is live exactly when its slot is in use, and exactly the task the
\* scheduler knows as current is RUNNING.
LiveTasksExact ==
  /\ jobq = {t \in Tid : state[t] # "INITIALIZED"}
  /\ \A t \in Tid : state[t] = "RUNNING" => current_task = t
  /\ current_task # NoTask => state[current_task] \notin {"READY", "INITIALIZED"}
  /\ mode = "user" => state[current_task] = "RUNNING"

\* No handler trips an assertion and none runs into undefined behaviour, in
\* particular no TaskNodePool runs empty (task_queue.c:27).
NoAssertionFailure == mode \notin {"halted", "wild"}

\* The free nodes of each TaskNodePool are those no queue holds.
NodePoolsBalanced ==
  /\ readyq_pool = TASK_POOL_SIZE - Cardinality({t \in Tid : state[t] = "READY"})
  /\ irqq_pool = TASK_POOL_SIZE - Cardinality({t \in Tid : state[t] = "AWATIEVENT"})

\* Every live task has a stack block of its own, and the used blocks are those
\* (create_task, remove_current_task): no two tasks share a stack, none leaks.
StackOwnership ==
  /\ \A t \in jobq : memory_block[t] # NoBlock
  /\ \A t, u \in jobq : memory_block[t] = memory_block[u] => t = u
  /\ memory_blocks_used = {memory_block[t] : t \in jobq}

\* The idle task keeps kmain from ever returning (schedule returns no NULL).
NeverExits ==
  /\ mode # "exited"
  /\ state[IdleTid] \in {"READY", "RUNNING"}

\* Queues, states, pools and the list of live tasks agree after every handler,
\* and so no assertion fails and kmain goes on (task_scheduler.c).  The parts
\* need each other: together they are inductive.
KernelInvariant ==
  /\ TypeOK
  /\ ReadyQueueExact /\ EventQueuesExact /\ SenderQueuesExact
  /\ LiveTasksExact /\ NodePoolsBalanced /\ NeverExits /\ NoAssertionFailure

\* The task that runs has the highest priority of all that could run.
PriorityRespected ==
  mode = "user" =>
    \A t \in jobq : state[t] = "READY" => priority[t] <= priority[current_task]

\* While a program can call Send, every sender queue has room: Send never fails
\* with -2 (queue_is_full), as long as the ring has a slot per task.
SenderQueueHasRoom ==
  mode = "user" /\ current_task # IdleTid =>
    \A r \in jobq : ~queue_is_full(senders[r])

\* The length a call returns is the length of what it delivered, however long
\* the task waits between delivery and resumption (assign_result, activate).
ResultMatchesDelivery ==
  \A t \in jobq : buffer[t] # NoMessage =>
    should_pass_result[t] /\ result[t] = buffer[t].len

\* A task resumed after an interrupt finds its own value in register 0
\* (macro.S: "save x0"; asm_exception.S: "Context switch back to current_task").
RegistersPreserved ==
  [][\A t \in Tid : current_task' = t /\ mode = "kernel" /\ mode' = "user"
       /\ x0[t] = "user" => x0'[t] = "user"]_vars

\* A READY task runs, or tasks of higher priority do: equals take turns
\* (change_task_state appends, ptask_queue_pop takes the head).
RoundRobin ==
  \A t \in Tid : state[t] = "READY" ~>
    \/ state[t] # "READY"
    \/ current_task # NoTask /\ priority[current_task] > priority[t]

\* A task that awaits the timer is woken, or waiters of higher priority are.
TimerWakes ==
  \A t \in Tid : \A p \in Prio : InSeq(irqq[WAIT_TIMER_1][p], t) ~>
      \/ state[t] # "AWATIEVENT"
      \/ \E o \in Prio : o > p /\ irqq[WAIT_TIMER_1][o] # <<>>
=============================================================================
