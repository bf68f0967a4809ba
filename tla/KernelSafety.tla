---------------------------- MODULE KernelSafety ----------------------------
(***************************************************************************)
(* Theorems about Kernel, for every number of tasks, priorities, blocks,   *)
(* sender slots, and every choice of calls, payloads and lengths.  Types,  *)
(* stacks and what calls return hold whatever programs do.  For programs   *)
(* that use the kernel as intended: the inductive invariant that ties task *)
(* states to the queues, the node pools and the task list, from which no   *)
(* assertion of the kernel ever fails, and that such a kernel implements   *)
(* MessagePassing.                                                         *)
(***************************************************************************)
EXTENDS KernelRefinement, FiniteSetTheorems, SequenceTheorems, TLAPS

-----------------------------------------------------------------------------
(* Type correctness.                                                       *)

\* A clamped priority is a priority, whatever number Create was given.
LEMMA ClampRange ==
  \A v \in Int : i32_clamp(v, TASK_PRIORITY_MIN, TASK_PRIORITY_MAX - 1) \in Prio
BY PriorityAssumption DEF i32_clamp, TASK_PRIORITY_MIN, Prio

\* Pushing and popping keep a priority queue a family of lists of tasks.
LEMMA QueueTypes ==
  ASSUME NEW q \in [Prio -> Seq(Tid)], NEW p \in Prio, NEW t \in Tid
  PROVE  /\ ptask_queue_push(q, p, t) \in [Prio -> Seq(Tid)]
         /\ q[p] # <<>> => /\ Head(q[p]) \in Tid
                           /\ ptask_queue_pop(q, p) \in [Prio -> Seq(Tid)]
BY DEF ptask_queue_push, ptask_queue_pop

\* What is copied is no longer than either side.
LEMMA CopyType ==
  \A m, n \in Nat : /\ copy_message(m, n) \in Nat
                    /\ copy_message(m, n) <= m /\ copy_message(m, n) <= n
BY DEF copy_message

LEMMA TidFacts == FirstTid \in Tid /\ IdleTid \in Tid /\ NoTask \notin Tid
BY PoolAssumption DEF FirstTid, IdleTid, NoTask, Tid

LEMMA ArgTypes ==
  /\ NoArgs \in Args
  /\ NoMessage \in Message
  /\ \A m \in Payload, ln \in SendLens : SendArgs(m, ln) \in Args
  /\ \A l \in Lens : ReceiveArgs(l) \in Args
  /\ \A a \in Args : a.msg_len \in Nat /\ a.reply_len \in Nat /\ a.msg \in Payload \cup {NoPayload}
  /\ \A f \in Tid \cup {NoTask}, m \in Payload \cup {NoPayload}, l \in Nat :
       [from |-> f, msg |-> m, len |-> l] \in Message
<1>1. NoArgs \in Args /\ \A l \in Lens : ReceiveArgs(l) \in Args
  BY InputAssumption DEF NoArgs, Args, ReceiveArgs
<1>2. \A m \in Payload, ln \in SendLens : SendArgs(m, ln) \in Args
  BY InputAssumption DEF Args, SendArgs
<1>3. \A a \in Args : a.msg_len \in Nat /\ a.reply_len \in Nat
                      /\ a.msg \in Payload \cup {NoPayload}
  BY DEF Args
<1>4. \A f \in Tid \cup {NoTask}, m \in Payload \cup {NoPayload}, l \in Nat :
       [from |-> f, msg |-> m, len |-> l] \in Message
  BY DEF Message
<1>5. NoMessage \in Message
  BY <1>4 DEF NoMessage
<1>6. QED
  BY <1>1, <1>2, <1>3, <1>4, <1>5

LEMMA InitType == Init => TypeOK
<1> SUFFICES ASSUME Init PROVE TypeOK
  OBVIOUS
<1>1. jobq \subseteq 0 .. task_id_cnt - 1
  BY PoolAssumption DEF Init, FirstTid, IdleTid
<1>2. priority \in [Tid -> Prio]
  BY PriorityAssumption DEF Init, Prio, TASK_PRIORITY_MIN
<1>3. memory_block \in [Tid -> Blocks \cup {NoBlock}] /\ memory_blocks_used \subseteq Blocks
  BY PoolAssumption, CapacityAssumption DEF Init, Blocks, NoBlock, FirstTid, IdleTid
<1>4. readyq \in [Prio -> Seq(Tid)]
  BY TidFacts DEF Init
<1>5. irqq \in [EventIds -> [Prio -> Seq(Tid)]]
  BY DEF Init
<1>6. QED
  BY <1>1, <1>2, <1>3, <1>4, <1>5, TidFacts, ArgTypes, PoolAssumption DEF Init, TypeOK, TaskState, NoTask


\* The types after the steps that handlers share.
LEMMA SvcType ==
  ASSUME TypeOK, NEW t \in Tid, NEW a \in Args, SvcUser(t, a)
  PROVE  /\ x0' \in [Tid -> {"arg", "user", "result"}]
         /\ args' \in [Tid -> Args] /\ buffer' \in [Tid -> Message]
BY ArgTypes DEF SvcUser, TypeOK

LEMMA ResultType ==
  ASSUME TypeOK, NEW t \in Tid, NEW v \in Int, assign_result(t, v)
  PROVE  result' \in [Tid -> Int] /\ should_pass_result' \in [Tid -> BOOLEAN]
BY DEF assign_result, TypeOK

LEMMA PushType ==
  ASSUME TypeOK, NEW t \in Tid, PushReady(t)
  PROVE  readyq' \in [Prio -> Seq(Tid)] /\ readyq_pool' \in Int
<1>1. priority[t] \in Prio /\ readyq \in [Prio -> Seq(Tid)]
  BY DEF TypeOK
<1>2. readyq' \in [Prio -> Seq(Tid)]
  BY <1>1, QueueTypes DEF PushReady
<1>3. QED
  BY <1>2 DEF PushReady, TypeOK

LEMMA StateType ==
  ASSUME TypeOK, NEW t \in Tid, NEW v \in TaskState
  PROVE  [state EXCEPT ![t] = v] \in [Tid -> TaskState]
BY DEF TypeOK

LEMMA InterruptedType ==
  ASSUME TypeOK, NEW t \in Tid, Interrupted(t)
  PROVE  /\ x0' \in [Tid -> {"arg", "user", "result"}]
         /\ args' \in [Tid -> Args] /\ buffer' \in [Tid -> Message]
BY ArgTypes DEF Interrupted, TypeOK

\* A handler or a scheduling step keeps every variable in its type, whatever
\* tasks reply to and whatever events they await.
LEMMA NextType == TypeOK /\ [Next]_vars => TypeOK'
<1> SUFFICES ASSUME TypeOK, [Next]_vars PROVE TypeOK'
  OBVIOUS
<1>a. jobq \subseteq Tid
  BY PoolAssumption DEF TypeOK, Tid
<1>b. NoArgs \in Args /\ -1 \in Int /\ -2 \in Int
  BY ArgTypes
<1>h. CASE Halt
  BY <1>h DEF Halt, TypeOK, taskVars, memVars, userVars, readyVars, irqVars
<1>w. CASE Wild
  BY <1>w DEF Wild, TypeOK, taskVars, memVars, userVars, readyVars, irqVars
<1>1. ASSUME NEW t \in Tid, sys_create(t), ~Halt PROVE TypeOK'
  <2>1. CASE task_id_cnt = TASK_POOL_SIZE
    <3>1. /\ SvcUser(t, NoArgs) /\ assign_result(t, -1) /\ mode' = "kernel"
          /\ UNCHANGED <<task_id_cnt, jobq, state, priority, parent_tid, senders,
                         memory_block, memory_blocks_used, readyq, readyq_pool,
                         irqq, irqq_pool, current_task>>
      BY <1>1, <2>1 DEF sys_create, memVars, readyVars, irqVars
    <3>2. QED
      BY <1>b, <3>1, SvcType, ResultType DEF TypeOK
  <2>2. CASE task_id_cnt # TASK_POOL_SIZE
    <3>1. /\ SvcUser(t, NoArgs) /\ assign_result(t, task_id_cnt) /\ mode' = "kernel"
          /\ UNCHANGED <<senders, irqq, irqq_pool, current_task>>
          /\ \E v \in CreatePriorities, b \in Blocks \cup {NoBlock} :
               create_task(i32_clamp(v, TASK_PRIORITY_MIN, TASK_PRIORITY_MAX - 1), t, b)
      BY <1>1, <2>2 DEF sys_create, irqVars
    <3>2. PICK v \in CreatePriorities, b \in Blocks \cup {NoBlock} :
               create_task(i32_clamp(v, TASK_PRIORITY_MIN, TASK_PRIORITY_MAX - 1), t, b)
      BY <3>1
    <3> DEFINE prio == i32_clamp(v, TASK_PRIORITY_MIN, TASK_PRIORITY_MAX - 1)
    <3>3. prio \in Prio
      BY ClampRange, InputAssumption
    <3>4. create_task(prio, t, b)
      BY <3>2
    <3> HIDE DEF prio
    <3>5. task_id_cnt \in Tid /\ task_id_cnt \in Int
      BY <2>2, PoolAssumption DEF TypeOK, Tid
    <3>6. readyq' \in [Prio -> Seq(Tid)] /\ readyq_pool' \in Int
      <4>1. ptask_queue_push(readyq, prio, task_id_cnt) \in [Prio -> Seq(Tid)]
        BY <3>3, <3>5, QueueTypes DEF TypeOK
      <4>2. /\ readyq' = ptask_queue_push(readyq, prio, task_id_cnt)
            /\ readyq_pool' = readyq_pool - 1
        BY <3>4 DEF create_task
      <4>3. QED
        BY <4>1, <4>2 DEF TypeOK
    <3>7. /\ task_id_cnt' \in 2 .. TASK_POOL_SIZE
          /\ jobq' \subseteq 0 .. task_id_cnt' - 1
      BY <2>2, <3>4, PoolAssumption DEF create_task, TypeOK
    <3>8. /\ state' \in [Tid -> TaskState] /\ priority' \in [Tid -> Prio]
          /\ parent_tid' \in [Tid -> Tid \cup {NoTask}]
      BY <3>3, <3>4, <3>5 DEF create_task, TypeOK, TaskState
    <3>9. /\ memory_block' \in [Tid -> Blocks \cup {NoBlock}]
          /\ memory_blocks_used' \subseteq Blocks
      BY <3>4, <3>5 DEF create_task, TypeOK
    <3>10. /\ x0' \in [Tid -> {"arg", "user", "result"}]
           /\ args' \in [Tid -> Args] /\ buffer' \in [Tid -> Message]
           /\ result' \in [Tid -> Int] /\ should_pass_result' \in [Tid -> BOOLEAN]
      BY <1>b, <3>1, <3>5, SvcType, ResultType
    <3>11. QED
      BY <3>1, <3>6, <3>7, <3>8, <3>9, <3>10 DEF TypeOK
  <2>3. QED
    BY <2>1, <2>2
<1>2. ASSUME NEW t \in Tid, sys_tid(t) \/ sys_parent_tid(t) PROVE TypeOK'
  <2>1. PICK v \in Int :
          /\ SvcUser(t, NoArgs) /\ assign_result(t, v) /\ mode' = "kernel"
          /\ UNCHANGED <<task_id_cnt, jobq, state, priority, parent_tid, senders,
                         memory_block, memory_blocks_used, readyq, readyq_pool,
                         irqq, irqq_pool, current_task>>
    <3>1. t \in Int /\ parent_tid[t] \in Int
      <4>1. parent_tid[t] \in Tid \cup {NoTask}
        BY DEF TypeOK
      <4>2. Tid \subseteq Int /\ NoTask \in Int
        BY DEF Tid, NoTask
      <4>3. QED
        BY <4>1, <4>2, Zenon
    <3>2. QED
      BY <1>2, <3>1 DEF sys_tid, sys_parent_tid, Query, memVars, readyVars, irqVars
  <2>2. QED
    BY <1>b, <2>1, SvcType, ResultType DEF TypeOK
<1>3. ASSUME NEW t \in Tid, sys_yield(t) PROVE TypeOK'
  <2>1. /\ SvcUser(t, NoArgs) /\ mode' = "kernel"
        /\ UNCHANGED <<task_id_cnt, jobq, state, priority, parent_tid, result,
                       should_pass_result, senders, memory_block, memory_blocks_used,
                       readyq, readyq_pool, irqq, irqq_pool, current_task>>
    BY <1>3 DEF sys_yield, taskVars, memVars, readyVars, irqVars
  <2>2. QED
    BY <1>b, <2>1, SvcType DEF TypeOK
<1>4. ASSUME NEW t \in Tid, sys_exit(t) PROVE TypeOK'
  <2>1. /\ task_init(t) /\ mode' = "kernel" /\ current_task' = NoTask
        /\ jobq' = jobq \ {t}
        /\ memory_blocks_used' = memory_blocks_used \ {memory_block[t]}
        /\ buffer' = [buffer EXCEPT ![t] = NoMessage]
        /\ UNCHANGED <<task_id_cnt, readyq, readyq_pool, irqq, irqq_pool>>
    BY <1>4 DEF sys_exit, memory_free_block, readyVars, irqVars
  <2>2. /\ state' \in [Tid -> TaskState] /\ priority' \in [Tid -> Prio]
        /\ parent_tid' \in [Tid -> Tid \cup {NoTask}]
    BY <2>1, PriorityAssumption DEF task_init, TypeOK, TaskState, Prio, TASK_PRIORITY_MIN
  <2>3. /\ result' \in [Tid -> Int] /\ should_pass_result' \in [Tid -> BOOLEAN]
        /\ senders' \in [Tid -> Seq(Tid)]
        /\ memory_block' \in [Tid -> Blocks \cup {NoBlock}]
    BY <2>1 DEF task_init, TypeOK
  <2>4. /\ x0' \in [Tid -> {"arg", "user", "result"}]
        /\ args' \in [Tid -> Args] /\ buffer' \in [Tid -> Message]
    BY <2>1, ArgTypes DEF task_init, TypeOK
  <2>5. QED
    BY <2>1, <2>2, <2>3, <2>4 DEF TypeOK
<1>5. ASSUME NEW t \in Tid, sys_send_unknown(t) \/ sys_reply_unknown(t) PROVE TypeOK'
  <2>1. /\ SvcUser(t, NoArgs) /\ assign_result(t, -1) /\ mode' = "kernel"
        /\ UNCHANGED <<task_id_cnt, jobq, state, priority, parent_tid, senders,
                       memory_block, memory_blocks_used, readyq, readyq_pool,
                       irqq, irqq_pool, current_task>>
    BY <1>5 DEF sys_send_unknown, sys_reply_unknown, memVars, readyVars, irqVars
  <2>2. QED
    BY <1>b, <2>1, SvcType, ResultType DEF TypeOK
<1>6. ASSUME NEW t \in Tid, sys_send_deliver(t), ~Halt PROVE TypeOK'
  <2>1. PICK r \in jobq, m \in Payload, ln \in SendLens :
          LET actual_len == copy_message(ln.msg, args[r].msg_len) IN
          /\ x0' = [x0 EXCEPT ![t] = "arg"]
          /\ args' = [args EXCEPT ![t] = SendArgs(m, ln)]
          /\ buffer' = [buffer EXCEPT ![t] = NoMessage,
                          ![r] = [from |-> t, msg |-> m, len |-> actual_len]]
          /\ assign_result(r, actual_len)
          /\ PushReady(r)
          /\ state' = [state EXCEPT ![r] = "READY", ![t] = "WATIREPLY"]
          /\ mode' = "kernel"
          /\ UNCHANGED <<task_id_cnt, jobq, priority, parent_tid, senders,
                         memVars, irqVars, current_task>>
    BY <1>6 DEF sys_send_deliver
  <2> DEFINE len == copy_message(ln.msg, args[r].msg_len)
  <2>2. r \in Tid /\ args[r].msg_len \in Nat /\ ln.msg \in Nat
    BY <1>a, ArgTypes, InputAssumption DEF TypeOK
  <2>3. len \in Nat /\ [from |-> t, msg |-> m, len |-> len] \in Message
    BY <2>2, CopyType, ArgTypes
  <2>4. SendArgs(m, ln) \in Args
    BY ArgTypes
  <2> HIDE DEF len
  <2>5. readyq' \in [Prio -> Seq(Tid)] /\ readyq_pool' \in Int
    BY <2>1, <2>2, PushType
  <2>6. args' \in [Tid -> Args]
    BY <2>1, <2>4 DEF TypeOK
  <2>7. buffer' \in [Tid -> Message]
    BY <2>1, <2>2, <2>3, ArgTypes DEF TypeOK, len
  <2>8. state' \in [Tid -> TaskState] /\ x0' \in [Tid -> {"arg", "user", "result"}]
    BY <2>1, <2>2 DEF TypeOK, TaskState
  <2>9. result' \in [Tid -> Int] /\ should_pass_result' \in [Tid -> BOOLEAN]
    BY <2>1, <2>2, <2>3, ResultType DEF len
  <2>10. UNCHANGED <<task_id_cnt, jobq, priority, parent_tid, senders, memory_block,
                     memory_blocks_used, irqq, irqq_pool, current_task>>
         /\ mode' = "kernel"
    BY <2>1 DEF memVars, irqVars
  <2>11. QED
    BY <2>5, <2>6, <2>7, <2>8, <2>9, <2>10 DEF TypeOK
<1>7. ASSUME NEW t \in Tid, sys_send_queue(t) PROVE TypeOK'
  <2>1. PICK r \in jobq, m \in Payload, ln \in SendLens :
          /\ IF queue_is_full(senders[r])
             THEN /\ SvcUser(t, NoArgs)
                  /\ assign_result(t, -2)
                  /\ UNCHANGED <<senders, state>>
             ELSE /\ SvcUser(t, SendArgs(m, ln))
                  /\ senders' = [senders EXCEPT ![r] = Append(@, t)]
                  /\ state' = [state EXCEPT ![t] = "WATISEND"]
                  /\ UNCHANGED <<result, should_pass_result>>
          /\ mode' = "kernel"
          /\ UNCHANGED <<task_id_cnt, jobq, priority, parent_tid, memVars, readyVars,
                         irqVars, current_task>>
    BY <1>7 DEF sys_send_queue
  <2>2. r \in Tid /\ SendArgs(m, ln) \in Args
    BY <1>a, ArgTypes
  <2>3. UNCHANGED <<task_id_cnt, jobq, priority, parent_tid, memory_block,
                    memory_blocks_used, readyq, readyq_pool, irqq, irqq_pool, current_task>>
        /\ mode' = "kernel"
    BY <2>1 DEF memVars, readyVars, irqVars
  <2>4. CASE queue_is_full(senders[r])
    <3>1. SvcUser(t, NoArgs) /\ assign_result(t, -2) /\ UNCHANGED <<senders, state>>
      BY <2>1, <2>4
    <3>2. QED
      BY <1>b, <2>3, <3>1, SvcType, ResultType DEF TypeOK
  <2>5. CASE ~queue_is_full(senders[r])
    <3>1. /\ SvcUser(t, SendArgs(m, ln))
          /\ senders' = [senders EXCEPT ![r] = Append(@, t)]
          /\ state' = [state EXCEPT ![t] = "WATISEND"]
          /\ UNCHANGED <<result, should_pass_result>>
      BY <2>1, <2>5
    <3>2. senders' \in [Tid -> Seq(Tid)] /\ state' \in [Tid -> TaskState]
      BY <2>2, <3>1 DEF TypeOK, TaskState
    <3>3. /\ x0' \in [Tid -> {"arg", "user", "result"}]
          /\ args' \in [Tid -> Args] /\ buffer' \in [Tid -> Message]
      BY <2>2, <3>1, SvcType
    <3>4. QED
      BY <2>3, <3>1, <3>2, <3>3 DEF TypeOK
  <2>6. QED
    BY <2>4, <2>5
<1>8. ASSUME NEW t \in Tid, sys_receive_block(t) PROVE TypeOK'
  <2>1. PICK l \in Lens : SvcUser(t, ReceiveArgs(l))
    BY <1>8 DEF sys_receive_block
  <2>2. /\ x0' \in [Tid -> {"arg", "user", "result"}]
        /\ args' \in [Tid -> Args] /\ buffer' \in [Tid -> Message]
    BY <2>1, SvcType, ArgTypes
  <2>3. /\ UNCHANGED <<task_id_cnt, jobq, priority, parent_tid, result,
                       should_pass_result, senders, memory_block, memory_blocks_used,
                       readyq, readyq_pool, irqq, irqq_pool, current_task>>
        /\ mode' = "kernel"
        /\ state' = [state EXCEPT ![t] = "WAITRECEIVE"]
    BY <1>8 DEF sys_receive_block, memVars, readyVars, irqVars
  <2>4. state' \in [Tid -> TaskState]
    BY <2>3, StateType DEF TaskState
  <2>5. QED
    BY <2>2, <2>3, <2>4 DEF TypeOK
<1>9. ASSUME NEW t \in Tid, sys_receive_unknown(t) PROVE TypeOK'
  <2>1. /\ SvcUser(t, NoArgs) /\ assign_result(t, -1) /\ mode' = "kernel"
        /\ senders[t] # <<>> /\ senders' = [senders EXCEPT ![t] = Tail(@)]
        /\ UNCHANGED <<task_id_cnt, jobq, state, priority, parent_tid,
                       memory_block, memory_blocks_used, readyq, readyq_pool,
                       irqq, irqq_pool, current_task>>
    BY <1>9 DEF sys_receive_unknown, next_sender, memVars, readyVars, irqVars
  <2>2. senders' \in [Tid -> Seq(Tid)]
    BY <2>1 DEF TypeOK
  <2>3. QED
    BY <1>b, <2>1, <2>2, SvcType, ResultType DEF TypeOK
<1>10. ASSUME NEW t \in Tid, sys_receive_deliver(t), ~Halt, ~Wild PROVE TypeOK'
  <2> DEFINE s == Head(senders[t])
             send_args(l) == IF s = t THEN ReceiveArgs(l) ELSE args[s]
             actual_len(l) == copy_message(send_args(l).msg_len, l)
  <2>1. PICK l \in Lens :
          /\ senders[t] # <<>> /\ s \in jobq
          /\ senders' = [senders EXCEPT ![t] = next_sender(@)]
          /\ x0' = [x0 EXCEPT ![t] = "arg"]
          /\ args' = [args EXCEPT ![t] = NoArgs]
          /\ buffer' = [buffer EXCEPT ![t] =
                          [from |-> s, msg |-> send_args(l).msg, len |-> actual_len(l)]]
          /\ assign_result(t, actual_len(l))
          /\ state' = [state EXCEPT ![s] = "WATIREPLY"]
          /\ mode' = "kernel"
          /\ UNCHANGED <<task_id_cnt, jobq, priority, parent_tid, memVars,
                         readyVars, irqVars, current_task>>
    BY <1>10 DEF sys_receive_deliver
  <2>2. s \in Tid /\ send_args(l) \in Args /\ l \in Nat
    BY <2>1, <1>a, ArgTypes, InputAssumption DEF TypeOK
  <2> HIDE DEF s, send_args
  <2>3. send_args(l).msg_len \in Nat /\ send_args(l).msg \in Payload \cup {NoPayload}
    BY <2>2, ArgTypes
  <2>4. actual_len(l) \in Nat
    BY <2>2, <2>3, CopyType
  <2> HIDE DEF actual_len
  <2>5. [from |-> s, msg |-> send_args(l).msg, len |-> actual_len(l)] \in Message
    BY <2>2, <2>3, <2>4, ArgTypes
  <2>6. buffer' \in [Tid -> Message]
    BY <2>1, <2>5 DEF TypeOK
  <2>7. args' \in [Tid -> Args] /\ x0' \in [Tid -> {"arg", "user", "result"}]
    BY <2>1, ArgTypes DEF TypeOK
  <2>8. state' \in [Tid -> TaskState]
    BY <2>1, <2>2, StateType DEF TaskState
  <2>9. senders' \in [Tid -> Seq(Tid)]
    BY <2>1 DEF TypeOK, next_sender
  <2>10. result' \in [Tid -> Int] /\ should_pass_result' \in [Tid -> BOOLEAN]
    BY <2>1, <2>4, ResultType
  <2>11. UNCHANGED <<task_id_cnt, jobq, priority, parent_tid, memory_block,
                     memory_blocks_used, readyq, readyq_pool, irqq, irqq_pool, current_task>>
         /\ mode' = "kernel"
    BY <2>1 DEF memVars, readyVars, irqVars
  <2>12. QED
    BY <2>6, <2>7, <2>8, <2>9, <2>10, <2>11 DEF TypeOK
<1>11. ASSUME NEW t \in Tid, sys_reply(t), ~Halt, ~Wild PROVE TypeOK'
  <2>1. PICK s \in jobq, m \in Payload, l \in Lens :
          LET actual_len == copy_message(l, args[s].reply_len) IN
          /\ x0' = [x0 EXCEPT ![t] = "arg"]
          /\ args' = [args EXCEPT ![t] = NoArgs]
          /\ buffer' = [buffer EXCEPT ![t] = NoMessage,
                          ![s] = [from |-> NoTask, msg |-> m, len |-> actual_len]]
          /\ result' = [result EXCEPT ![s] = actual_len, ![t] = actual_len]
          /\ should_pass_result' =
               [should_pass_result EXCEPT ![s] = TRUE, ![t] = TRUE]
          /\ PushReady(s)
          /\ state' = [state EXCEPT ![s] = "READY"]
          /\ mode' = "kernel"
          /\ UNCHANGED <<task_id_cnt, jobq, priority, parent_tid, senders,
                         memVars, irqVars, current_task>>
    BY <1>11 DEF sys_reply, reply_to
  <2> DEFINE len == copy_message(l, args[s].reply_len)
  <2>2. s \in Tid /\ args[s].reply_len \in Nat /\ l \in Nat
    BY <1>a, ArgTypes, InputAssumption DEF TypeOK
  <2>3. len \in Nat /\ [from |-> NoTask, msg |-> m, len |-> len] \in Message
    BY <2>2, CopyType, ArgTypes
  <2> HIDE DEF len
  <2>4. readyq' \in [Prio -> Seq(Tid)] /\ readyq_pool' \in Int
    BY <2>1, <2>2, PushType
  <2>5. buffer' \in [Tid -> Message]
    BY <2>1, <2>2, <2>3, ArgTypes DEF TypeOK, len
  <2>6. args' \in [Tid -> Args] /\ x0' \in [Tid -> {"arg", "user", "result"}]
    BY <2>1, ArgTypes DEF TypeOK
  <2>7. state' \in [Tid -> TaskState]
    BY <2>1, <2>2, StateType DEF TaskState
  <2>8. result' \in [Tid -> Int] /\ should_pass_result' \in [Tid -> BOOLEAN]
    <3>1. len \in Int
      BY <2>3
    <3>2. /\ result' = [result EXCEPT ![s] = len, ![t] = len]
          /\ should_pass_result' = [should_pass_result EXCEPT ![s] = TRUE, ![t] = TRUE]
      BY <2>1 DEF len
    <3>3. QED
      BY <2>2, <3>1, <3>2 DEF TypeOK
  <2>9. UNCHANGED <<task_id_cnt, jobq, priority, parent_tid, senders, memory_block,
                    memory_blocks_used, irqq, irqq_pool, current_task>>
        /\ mode' = "kernel"
    BY <2>1 DEF memVars, irqVars
  <2>10. QED
    BY <2>4, <2>5, <2>6, <2>7, <2>8, <2>9 DEF TypeOK
<1>12. ASSUME NEW t \in Tid, sys_await_event(t), ~Halt PROVE TypeOK'
  <2>1. PICK intid \in AwaitedIds :
          /\ ValidIntid(intid)
          /\ state' = [state EXCEPT ![t] = "AWATIEVENT"]
          /\ irqq' = [irqq EXCEPT ![intid] = ptask_queue_push(@, priority[t], t)]
          /\ irqq_pool' = irqq_pool - 1
          /\ SvcUser(t, NoArgs)
          /\ mode' = "kernel"
          /\ UNCHANGED <<task_id_cnt, jobq, priority, parent_tid, result,
                         should_pass_result, senders, memVars, readyVars, current_task>>
    BY <1>12 DEF sys_await_event
  <2>2. intid \in EventIds /\ priority[t] \in Prio /\ irqq[intid] \in [Prio -> Seq(Tid)]
    BY <2>1 DEF EventIds, TypeOK
  <2>3. irqq' \in [EventIds -> [Prio -> Seq(Tid)]]
    <3>1. ptask_queue_push(irqq[intid], priority[t], t) \in [Prio -> Seq(Tid)]
      BY <2>2, QueueTypes
    <3>2. QED
      BY <2>1, <3>1 DEF TypeOK
  <2>4. state' \in [Tid -> TaskState] /\ irqq_pool' \in Int
    BY <2>1, StateType DEF TaskState, TypeOK
  <2>5. /\ x0' \in [Tid -> {"arg", "user", "result"}]
        /\ args' \in [Tid -> Args] /\ buffer' \in [Tid -> Message]
    BY <1>b, <2>1, SvcType
  <2>6. UNCHANGED <<task_id_cnt, jobq, priority, parent_tid, result, should_pass_result,
                    senders, memory_block, memory_blocks_used, readyq, readyq_pool, current_task>>
        /\ mode' = "kernel"
    BY <2>1 DEF memVars, readyVars
  <2>7. QED
    BY <2>3, <2>4, <2>5, <2>6 DEF TypeOK
<1>13. ASSUME handle_irq, ~Halt PROVE TypeOK'
  <2> DEFINE q == irqq[WAIT_TIMER_1]
  <2>1. current_task \in Tid /\ WAIT_TIMER_1 \in EventIds /\ q \in [Prio -> Seq(Tid)]
    BY <1>13 DEF handle_irq, TypeOK, EventIds
  <2>2. CASE ptask_queue_empty(q)
    <3>1. /\ Interrupted(current_task) /\ mode' = "kernel"
          /\ UNCHANGED <<task_id_cnt, jobq, state, priority, parent_tid, result,
                         should_pass_result, senders, memory_block, memory_blocks_used,
                         readyq, readyq_pool, irqq, irqq_pool, current_task>>
      BY <1>13, <2>2 DEF handle_irq, taskVars, memVars, readyVars, irqVars
    <3>2. QED
      BY <2>1, <3>1, InterruptedType DEF TypeOK
  <2>3. CASE ~ptask_queue_empty(q)
    <3>1. PICK p \in Prio :
            /\ ptask_queue_first(q, p)
            /\ Interrupted(current_task)
            /\ irqq' = [irqq EXCEPT ![WAIT_TIMER_1] = ptask_queue_pop(q, p)]
            /\ irqq_pool' = irqq_pool + 1
            /\ PushReady(Head(q[p]))
            /\ state' = [state EXCEPT ![Head(q[p])] = "READY"]
            /\ mode' = "kernel"
            /\ UNCHANGED <<priority, parent_tid, result, should_pass_result, senders>>
            /\ UNCHANGED <<task_id_cnt, jobq, memVars, current_task>>
      BY <1>13, <2>3 DEF handle_irq
    <3> HIDE DEF q
    <3>2. Head(q[p]) \in Tid /\ ptask_queue_pop(q, p) \in [Prio -> Seq(Tid)]
      BY <2>1, <3>1, QueueTypes DEF ptask_queue_first
    <3>3. irqq' \in [EventIds -> [Prio -> Seq(Tid)]] /\ irqq_pool' \in Int
      <4>1. /\ irqq' = [irqq EXCEPT ![WAIT_TIMER_1] = ptask_queue_pop(q, p)]
            /\ irqq_pool' = irqq_pool + 1
        BY <3>1
      <4>2. irqq \in [EventIds -> [Prio -> Seq(Tid)]] /\ irqq_pool \in Int
        BY DEF TypeOK
      <4>3. irqq_pool' \in Int
        BY <4>1, <4>2
      <4>4. irqq' \in [EventIds -> [Prio -> Seq(Tid)]]
        BY <3>2, <4>1, <4>2
      <4>5. QED
        BY <4>3, <4>4
    <3>4. readyq' \in [Prio -> Seq(Tid)] /\ readyq_pool' \in Int
      BY <3>1, <3>2, PushType
    <3>5. state' \in [Tid -> TaskState]
      BY <3>1, <3>2, StateType DEF TaskState
    <3>6. /\ x0' \in [Tid -> {"arg", "user", "result"}]
          /\ args' \in [Tid -> Args] /\ buffer' \in [Tid -> Message]
      BY <2>1, <3>1, InterruptedType
    <3>7. UNCHANGED <<priority, parent_tid, result, should_pass_result, senders,
                      task_id_cnt, jobq, memory_block, memory_blocks_used, current_task>>
          /\ mode' = "kernel"
      BY <3>1 DEF memVars
    <3>8. QED
      BY <3>3, <3>4, <3>5, <3>6, <3>7 DEF TypeOK
  <2>4. QED
    BY <2>2, <2>3
<1>14. ASSUME NEW t \in Tid, unsupported_exception(t) PROVE TypeOK'
  <2>1. /\ Interrupted(t) /\ mode' = "kernel"
        /\ UNCHANGED <<task_id_cnt, jobq, state, priority, parent_tid, result,
                       should_pass_result, senders, memory_block, memory_blocks_used,
                       readyq, readyq_pool, irqq, irqq_pool, current_task>>
    BY <1>14 DEF unsupported_exception, taskVars, memVars, readyVars, irqVars
  <2>2. QED
    BY <2>1, InterruptedType DEF TypeOK
<1>15. ASSUME schedule, ~Halt PROVE TypeOK'
  <2>1. ScheduledReadyq \in [Prio -> Seq(Tid)]
    BY QueueTypes DEF ScheduledReadyq, StillRuns, TypeOK
  <2>2. CASE ptask_queue_empty(ScheduledReadyq)
    <3>1. /\ mode' = "exited"
          /\ UNCHANGED <<task_id_cnt, jobq, state, priority, parent_tid, result,
                         should_pass_result, senders, memory_block, memory_blocks_used,
                         x0, args, buffer, readyq, readyq_pool, irqq, irqq_pool, current_task>>
      BY <1>15, <2>2 DEF schedule, taskVars, memVars, userVars, readyVars, irqVars
    <3>2. QED
      BY <3>1 DEF TypeOK
  <2>3. CASE ~ptask_queue_empty(ScheduledReadyq)
    <3> DEFINE st == IF StillRuns THEN [state EXCEPT ![current_task] = "READY"]
                     ELSE state
               pool == IF StillRuns THEN readyq_pool - 1 ELSE readyq_pool
    <3>1. PICK p \in Prio :
            LET t == Head(ScheduledReadyq[p]) IN
            /\ ptask_queue_first(ScheduledReadyq, p)
            /\ readyq' = ptask_queue_pop(ScheduledReadyq, p)
            /\ readyq_pool' = pool + 1
            /\ state' = [st EXCEPT ![t] = "RUNNING"]
            /\ current_task' = t
            /\ x0' = [x0 EXCEPT ![t] = PassedX0(t)]
            /\ args' = [args EXCEPT ![t] = NoArgs]
            /\ mode' = IF t \in jobq THEN "user" ELSE "wild"
            /\ UNCHANGED <<task_id_cnt, jobq, priority, parent_tid, result,
                           should_pass_result, senders, memVars, buffer, irqVars>>
      BY <1>15, <2>3 DEF schedule
    <3>2. Head(ScheduledReadyq[p]) \in Tid /\ readyq' \in [Prio -> Seq(Tid)]
      BY <2>1, <3>1, QueueTypes, TidFacts DEF ptask_queue_first
    <3>3. st \in [Tid -> TaskState] /\ pool \in Int
      BY DEF TypeOK, TaskState, StillRuns
    <3> HIDE DEF st, pool
    <3>4. state' \in [Tid -> TaskState] /\ readyq_pool' \in Int
      BY <3>1, <3>2, <3>3 DEF TaskState
    <3>5. x0' \in [Tid -> {"arg", "user", "result"}]
      BY <3>1, <3>2 DEF PassedX0, TypeOK
    <3>6. args' \in [Tid -> Args]
      BY <3>1, <3>2, ArgTypes DEF TypeOK
    <3>7. /\ UNCHANGED <<task_id_cnt, jobq, priority, parent_tid, result,
                         should_pass_result, senders, memory_block, memory_blocks_used,
                         buffer, irqq, irqq_pool>>
          /\ current_task' \in Tid /\ mode' \in {"user", "wild"}
      BY <3>1, <3>2 DEF memVars, irqVars
    <3>8. QED
      BY <3>2, <3>4, <3>5, <3>6, <3>7 DEF TypeOK
  <2>4. QED
    BY <2>2, <2>3
<1>16. CASE UNCHANGED vars
  BY <1>16 DEF vars, TypeOK, taskVars, memVars, userVars, readyVars, irqVars
<1>17. QED
  BY <1>h, <1>w, <1>1, <1>2, <1>3, <1>4, <1>5, <1>6, <1>7, <1>8, <1>9, <1>10, <1>11,
     <1>12, <1>13, <1>14, <1>15, <1>16 DEF Next, TaskStep

\* Every reachable state of the kernel is well typed, whatever programs do.
THEOREM TypeCorrect == Spec => []TypeOK
BY InitType, NextType, PTL DEF Spec

-----------------------------------------------------------------------------
(* What a call delivers and what it returns.                               *)

\* ResultMatchesDelivery for every slot of the task table, exited tasks too.
DeliveryInvariant ==
  /\ TypeOK
  /\ \A u \in Tid : buffer[u] # NoMessage =>
       should_pass_result[u] /\ result[u] = buffer[u].len

\* A handler touches what was delivered to task u in one of three ways: it
\* consumes it, leaves it with its result, or delivers anew with a new result.
LEMMA StepDelivers ==
  ASSUME TypeOK, [Next]_vars, NEW u \in Tid
  PROVE  \/ buffer'[u] = NoMessage
         \/ /\ buffer'[u] = buffer[u] /\ result'[u] = result[u]
            /\ should_pass_result'[u] = should_pass_result[u]
         \/ should_pass_result'[u] /\ result'[u] = buffer'[u].len
<1> DEFINE Goal ==
      \/ buffer'[u] = NoMessage
      \/ /\ buffer'[u] = buffer[u] /\ result'[u] = result[u]
         /\ should_pass_result'[u] = should_pass_result[u]
      \/ should_pass_result'[u] /\ result'[u] = buffer'[u].len
<1>0. /\ buffer \in [Tid -> Message] /\ result \in [Tid -> Int]
      /\ should_pass_result \in [Tid -> BOOLEAN]
  BY DEF TypeOK
<1>1. CASE UNCHANGED vars
  BY <1>1 DEF vars, userVars, taskVars
<1>2. CASE Halt \/ Wild
  BY <1>2 DEF Halt, Wild, userVars, taskVars
<1>3. CASE schedule
  BY <1>2, <1>3 DEF schedule, userVars, taskVars
<1>4. CASE handle_irq
  BY <1>2, <1>4 DEF handle_irq, Interrupted, taskVars
<1>5. ASSUME NEW t \in Tid, TaskStep(t) PROVE Goal
  <2>1. ASSUME NEW a, SvcUser(t, a),
               \/ UNCHANGED <<result, should_pass_result>>
               \/ \E v : assign_result(t, v)
        PROVE  Goal
    BY <1>0, <2>1 DEF SvcUser, assign_result
  <2>2. CASE sys_create(t)
    <3>1. CASE Halt
      BY <1>2, <3>1
    <3>2. CASE ~Halt
      BY <2>1, <2>2, <3>2 DEF sys_create
    <3>3. QED
      BY <3>1, <3>2
  <2>3. CASE \/ sys_tid(t) \/ sys_parent_tid(t) \/ sys_yield(t) \/ sys_send_unknown(t)
             \/ sys_receive_block(t) \/ sys_receive_unknown(t) \/ sys_reply_unknown(t)
    BY <2>1, <2>3 DEF sys_tid, sys_parent_tid, Query, sys_yield, sys_send_unknown,
       sys_receive_block, sys_receive_unknown, sys_reply_unknown, taskVars
  <2>4. CASE sys_exit(t)
    BY <1>0, <2>4 DEF sys_exit, task_init
  <2>5. CASE sys_send_deliver(t)
    <3>1. CASE Halt
      BY <1>2, <3>1
    <3>2. CASE ~Halt
      <4>1. PICK r, m, l :
              /\ r \in jobq /\ m \in Payload
              /\ buffer' = [buffer EXCEPT ![t] = NoMessage,
                              ![r] = [from |-> t, msg |-> m, len |-> l]]
              /\ assign_result(r, l)
        BY <2>5, <3>2 DEF sys_send_deliver
      <4>2. QED
        BY <1>0, <4>1 DEF assign_result
    <3>3. QED
      BY <3>1, <3>2
  <2>6. CASE sys_send_queue(t)
    <3>1. PICK r \in jobq, m \in Payload, ln \in SendLens :
            \/ SvcUser(t, NoArgs) /\ assign_result(t, -2)
            \/ SvcUser(t, SendArgs(m, ln)) /\ UNCHANGED <<result, should_pass_result>>
      BY <2>6 DEF sys_send_queue
    <3>2. QED
      BY <2>1, <3>1
  <2>7. CASE sys_receive_deliver(t)
    <3>1. CASE Halt \/ Wild
      BY <1>2, <3>1
    <3>2. CASE ~Halt /\ ~Wild
      <4>1. PICK s, m, l :
              /\ buffer' = [buffer EXCEPT ![t] = [from |-> s, msg |-> m, len |-> l]]
              /\ assign_result(t, l)
        BY <2>7, <3>2 DEF sys_receive_deliver
      <4>2. QED
        BY <1>0, <4>1 DEF assign_result
    <3>3. QED
      BY <3>1, <3>2
  <2>8. CASE sys_reply(t)
    <3>1. CASE Halt \/ Wild
      BY <1>2, <3>1
    <3>2. CASE ~Halt /\ ~Wild
      <4>1. PICK s, m, l :
              /\ s \in jobq /\ m \in Payload
              /\ buffer' = [buffer EXCEPT ![t] = NoMessage,
                              ![s] = [from |-> NoTask, msg |-> m, len |-> l]]
              /\ result' = [result EXCEPT ![s] = l, ![t] = l]
              /\ should_pass_result' =
                   [should_pass_result EXCEPT ![s] = TRUE, ![t] = TRUE]
        BY <2>8, <3>2 DEF sys_reply, reply_to
      <4>2. QED
        BY <1>0, <4>1
    <3>3. QED
      BY <3>1, <3>2
  <2>9. CASE sys_await_event(t)
    <3>1. CASE Halt
      BY <1>2, <3>1
    <3>2. CASE ~Halt
      BY <2>1, <2>9, <3>2 DEF sys_await_event
    <3>3. QED
      BY <3>1, <3>2
  <2>10. CASE unsupported_exception(t)
    BY <2>10 DEF unsupported_exception, Interrupted, taskVars
  <2>11. QED
    BY <1>5, <2>2, <2>3, <2>4, <2>5, <2>6, <2>7, <2>8, <2>9, <2>10 DEF TaskStep
<1>6. QED
  BY <1>1, <1>3, <1>4, <1>5 DEF Next

\* The length a call returns is the length of what it delivered, for any
\* programs, also ones that misuse Reply.
THEOREM DeliveriesReported == Spec => []ResultMatchesDelivery
<1>1. Init => DeliveryInvariant
  BY InitType DEF Init, DeliveryInvariant
<1>2. DeliveryInvariant /\ [Next]_vars => DeliveryInvariant'
  <2> SUFFICES ASSUME DeliveryInvariant, [Next]_vars,
                      NEW u \in Tid, buffer'[u] # NoMessage
               PROVE  should_pass_result'[u] /\ result'[u] = buffer'[u].len
    BY NextType DEF DeliveryInvariant
  <2>1. QED
    BY StepDelivers DEF DeliveryInvariant
<1>3. DeliveryInvariant => ResultMatchesDelivery
  BY PoolAssumption DEF DeliveryInvariant, TypeOK, ResultMatchesDelivery, Tid
<1>4. QED
  BY <1>1, <1>2, <1>3, PTL DEF Spec
-----------------------------------------------------------------------------
(* Sequences, queues and counts.                                           *)

\* Appending adds one element and, if it is new, no repetition.
LEMMA PushSeq ==
  ASSUME NEW q \in Seq(Tid), NEW t \in Tid
  PROVE  /\ \A u \in Tid : InSeq(Append(q, t), u) <=> InSeq(q, u) \/ u = t
         /\ NoRepeats(q) /\ ~InSeq(q, t) => NoRepeats(Append(q, t))
BY DEF InSeq, NoRepeats

\* Taking the head removes exactly that element.
LEMMA PopSeq ==
  ASSUME NEW q \in Seq(Tid), q # <<>>, NoRepeats(q)
  PROVE  /\ Head(q) \in Tid /\ Tail(q) \in Seq(Tid) /\ InSeq(q, Head(q))
         /\ \A u \in Tid : InSeq(Tail(q), u) <=> InSeq(q, u) /\ u # Head(q)
         /\ NoRepeats(Tail(q))
<1>1. /\ Head(q) = q[1] /\ Len(q) \in Nat /\ Len(q) >= 1 /\ Tail(q) \in Seq(Tid)
      /\ Len(Tail(q)) = Len(q) - 1
      /\ \A i \in 1 .. Len(q) - 1 : Tail(q)[i] = q[i + 1]
  OBVIOUS
<1>2. InSeq(q, Head(q)) /\ Head(q) \in Tid
  BY <1>1 DEF InSeq
<1>3. ASSUME NEW u \in Tid PROVE InSeq(Tail(q), u) => InSeq(q, u) /\ u # Head(q)
  BY <1>1 DEF InSeq, NoRepeats
<1>4. ASSUME NEW u \in Tid, InSeq(q, u), u # Head(q) PROVE InSeq(Tail(q), u)
  <2>1. PICK i \in 1 .. Len(q) : q[i] = u
    BY <1>4 DEF InSeq
  <2>2. i # 1 /\ i - 1 \in 1 .. Len(q) - 1
    BY <1>1, <1>4, <2>1
  <2>3. Tail(q)[i - 1] = u
    BY <1>1, <2>1, <2>2
  <2>4. QED
    BY <1>1, <2>2, <2>3 DEF InSeq
<1>5. NoRepeats(Tail(q))
  <2>1. SUFFICES ASSUME NEW i \in 1 .. Len(q) - 1, NEW j \in 1 .. Len(q) - 1,
                        Tail(q)[i] = Tail(q)[j]
                 PROVE  i = j
    BY <1>1 DEF NoRepeats
  <2>2. q[i + 1] = q[j + 1] /\ i + 1 \in 1 .. Len(q) /\ j + 1 \in 1 .. Len(q)
    BY <1>1, <2>1
  <2>3. QED
    BY <2>2 DEF NoRepeats
<1>6. QED
  BY <1>1, <1>2, <1>3, <1>4, <1>5

\* The same for a priority queue.
LEMMA PushQueue ==
  ASSUME NEW q \in [Prio -> Seq(Tid)], NEW p \in Prio, NEW t \in Tid
  PROVE  /\ \A o \in Prio, u \in Tid :
              InSeq(ptask_queue_push(q, p, t)[o], u) <=> InSeq(q[o], u) \/ (o = p /\ u = t)
         /\ (\A o \in Prio : NoRepeats(q[o])) /\ ~InSeq(q[p], t)
              => \A o \in Prio : NoRepeats(ptask_queue_push(q, p, t)[o])
<1>1. \A o \in Prio : ptask_queue_push(q, p, t)[o] = IF o = p THEN Append(q[p], t) ELSE q[o]
  BY DEF ptask_queue_push
<1>2. /\ \A u \in Tid : InSeq(Append(q[p], t), u) <=> InSeq(q[p], u) \/ u = t
      /\ NoRepeats(q[p]) /\ ~InSeq(q[p], t) => NoRepeats(Append(q[p], t))
  BY PushSeq
<1>3. QED
  BY <1>1, <1>2

LEMMA PopQueue ==
  ASSUME NEW q \in [Prio -> Seq(Tid)], NEW p \in Prio, q[p] # <<>>,
         \A o \in Prio : NoRepeats(q[o])
  PROVE  /\ Head(q[p]) \in Tid /\ InSeq(q[p], Head(q[p]))
         /\ \A o \in Prio, u \in Tid :
              InSeq(ptask_queue_pop(q, p)[o], u)
                <=> InSeq(q[o], u) /\ ~(o = p /\ u = Head(q[p]))
         /\ \A o \in Prio : NoRepeats(ptask_queue_pop(q, p)[o])
<1>1. \A o \in Prio : ptask_queue_pop(q, p)[o] = IF o = p THEN Tail(q[p]) ELSE q[o]
  BY DEF ptask_queue_pop
<1>2. /\ Head(q[p]) \in Tid /\ InSeq(q[p], Head(q[p]))
      /\ \A u \in Tid : InSeq(Tail(q[p]), u) <=> InSeq(q[p], u) /\ u # Head(q[p])
      /\ NoRepeats(Tail(q[p]))
  BY PopSeq
<1>3. QED
  BY <1>1, <1>2

\* A list somebody is in is not empty, and an empty list holds nobody.
LEMMA EmptySeqs ==
  ASSUME NEW q \in Seq(Tid)
  PROVE  q = <<>> <=> \A u \in Tid : ~InSeq(q, u)
<1>1. CASE q = <<>>
  BY <1>1 DEF InSeq
<1>2. CASE q # <<>>
  <2>1. Len(q) \in Nat /\ Len(q) >= 1 /\ q[1] \in Tid
    BY <1>2
  <2>2. InSeq(q, q[1])
    BY <2>1 DEF InSeq
  <2>3. QED
    BY <1>2, <2>1, <2>2
<1>3. QED
  BY <1>1, <1>2

\* The number of tasks in a state, as NodePoolsBalanced counts them.
CountIn(st, v) == Cardinality({t \in Tid : st[t] = v})

LEMMA TidFinite ==
  /\ IsFiniteSet(Tid) /\ Cardinality(Tid) = TASK_POOL_SIZE
  /\ \A S \in SUBSET Tid : /\ IsFiniteSet(S) /\ Cardinality(S) \in Nat
                           /\ S # Tid => Cardinality(S) < TASK_POOL_SIZE
<1>1. IsFiniteSet(Tid) /\ Cardinality(Tid) = TASK_POOL_SIZE
  <2>1. 0 \in Int /\ TASK_POOL_SIZE - 1 \in Int
    BY PoolAssumption
  <2>2. /\ IsFiniteSet(0 .. TASK_POOL_SIZE - 1)
        /\ Cardinality(0 .. TASK_POOL_SIZE - 1)
             = IF 0 > TASK_POOL_SIZE - 1 THEN 0 ELSE TASK_POOL_SIZE - 1 - 0 + 1
    BY <2>1, FS_Interval
  <2>3. QED
    BY <2>2, PoolAssumption DEF Tid
<1>2. ASSUME NEW S \in SUBSET Tid
      PROVE  /\ IsFiniteSet(S) /\ Cardinality(S) \in Nat
             /\ S # Tid => Cardinality(S) < TASK_POOL_SIZE
  <2>1. /\ IsFiniteSet(S) /\ Cardinality(S) <= Cardinality(Tid)
        /\ Cardinality(Tid) = Cardinality(S) => Tid = S
    BY <1>1, FS_Subset
  <2>2. Cardinality(S) \in Nat
    BY <2>1, FS_CardinalityType
  <2>3. QED
    BY <1>1, <2>1, <2>2, PoolAssumption
<1>3. QED
  BY <1>1, <1>2

\* How one task's change of state moves the counts.
LEMMA Counts ==
  ASSUME NEW st \in [Tid -> TaskState], NEW t \in Tid, NEW v, NEW w
  PROVE  /\ CountIn(st, v) \in Nat
         /\ st[t] # v => CountIn(st, v) < TASK_POOL_SIZE
         /\ st[t] # v /\ w # v => CountIn([st EXCEPT ![t] = w], v) = CountIn(st, v)
         /\ st[t] # v /\ w = v => CountIn([st EXCEPT ![t] = w], v) = CountIn(st, v) + 1
         /\ st[t] = v /\ w # v => CountIn([st EXCEPT ![t] = w], v) = CountIn(st, v) - 1
<1> DEFINE S == {u \in Tid : st[u] = v}
           S2 == {u \in Tid : [st EXCEPT ![t] = w][u] = v}
<1>1. CountIn(st, v) = Cardinality(S) /\ CountIn([st EXCEPT ![t] = w], v) = Cardinality(S2)
  BY DEF CountIn
<1>2. S \in SUBSET Tid /\ (st[t] # v => S # Tid)
  OBVIOUS
<1>3. IsFiniteSet(S) /\ Cardinality(S) \in Nat /\ (S # Tid => Cardinality(S) < TASK_POOL_SIZE)
  BY <1>2, TidFinite
<1>4. /\ Cardinality(S \cup {t}) = IF t \in S THEN Cardinality(S) ELSE Cardinality(S) + 1
      /\ Cardinality(S \ {t}) = IF t \in S THEN Cardinality(S) - 1 ELSE Cardinality(S)
  BY <1>3, FS_AddElement, FS_RemoveElement
<1>5. /\ st[t] # v /\ w # v => S2 = S
      /\ st[t] # v /\ w = v => S2 = S \cup {t}
      /\ st[t] = v /\ w # v => S2 = S \ {t}
  OBVIOUS
<1>6. t \in S <=> st[t] = v
  OBVIOUS
<1> HIDE DEF S, S2
<1>7. QED
  BY <1>1, <1>2, <1>3, <1>4, <1>5, <1>6

-----------------------------------------------------------------------------
(* KernelInvariant is inductive.                                           *)

LEMMA InitInvariant == Init => KernelInvariant
<1> SUFFICES ASSUME Init PROVE KernelInvariant
  OBVIOUS
<1>1. TypeOK
  BY InitType
<1>2. FirstTid \in Tid /\ IdleTid \in Tid /\ FirstTid # IdleTid /\ NoTask \notin Tid
  BY TidFacts DEF FirstTid, IdleTid
<1>3. TASK_PRIORITY_MIN \in Prio /\ INITIAL_PRIORITY \in Prio
      /\ INITIAL_PRIORITY # TASK_PRIORITY_MIN
  BY PriorityAssumption DEF Prio, TASK_PRIORITY_MIN
<1>4. ReadyQueueExact
  <2>1. /\ \A t : InSeq(<<>>, t) <=> FALSE
        /\ \A t, u \in Tid : InSeq(<<u>>, t) <=> t = u
        /\ NoRepeats(<<>>) /\ \A u \in Tid : NoRepeats(<<u>>)
    BY DEF InSeq, NoRepeats
  <2>2. QED
    BY <1>2, <1>3, <2>1 DEF Init, ReadyQueueExact
<1>5. EventQueuesExact
  <2>1. NoRepeats(<<>>) /\ \A t : ~InSeq(<<>>, t)
    BY DEF InSeq, NoRepeats
  <2>2. QED
    BY <2>1 DEF Init, EventQueuesExact
<1>6. SenderQueuesExact
  <2>1. NoRepeats(<<>>) /\ \A t : ~InSeq(<<>>, t)
    BY DEF InSeq, NoRepeats
  <2>2. QED
    BY <2>1 DEF Init, SenderQueuesExact
<1>7. LiveTasksExact /\ NeverExits /\ NoAssertionFailure
  BY <1>2 DEF Init, LiveTasksExact, NeverExits, NoAssertionFailure
<1>8. NodePoolsBalanced
  <2>1. {t \in Tid : state[t] = "READY"} = {FirstTid} \cup {IdleTid}
    BY <1>2 DEF Init
  <2>2. {t \in Tid : state[t] = "AWATIEVENT"} = {}
    BY DEF Init
  <2>3. Cardinality({FirstTid} \cup {IdleTid}) = 2
    <3>1. IsFiniteSet({FirstTid}) /\ Cardinality({FirstTid}) = 1
      BY FS_Singleton
    <3>2. Cardinality({FirstTid} \cup {IdleTid})
            = IF IdleTid \in {FirstTid} THEN Cardinality({FirstTid})
              ELSE Cardinality({FirstTid}) + 1
      BY <3>1, FS_AddElement
    <3>3. QED
      BY <1>2, <3>1, <3>2
  <2>4. Cardinality({}) = 0
    BY FS_EmptySet
  <2>5. readyq_pool = TASK_POOL_SIZE - 2 /\ irqq_pool = TASK_POOL_SIZE - 0
    BY PoolAssumption DEF Init
  <2>6. QED
    BY <2>1, <2>2, <2>3, <2>4, <2>5 DEF NodePoolsBalanced
<1>9. QED
  BY <1>1, <1>4, <1>5, <1>6, <1>7, <1>8 DEF KernelInvariant

\* In user mode the running task is RUNNING, live, and in no queue.
LEMMA Running ==
  ASSUME KernelInvariant, mode = "user"
  PROVE  /\ current_task \in Tid /\ state[current_task] = "RUNNING"
         /\ current_task \in jobq
         /\ \A p \in Prio : ~InSeq(readyq[p], current_task)
         /\ \A e \in EventIds, p \in Prio : ~InSeq(irqq[e][p], current_task)
         /\ \A r \in Tid : ~InSeq(senders[r], current_task)
<1>1. current_task \in Tid /\ state[current_task] = "RUNNING" /\ current_task \in jobq
  BY DEF KernelInvariant, TypeOK, LiveTasksExact
<1>2. QED
  BY <1>1 DEF KernelInvariant, ReadyQueueExact, EventQueuesExact, SenderQueuesExact

\* A handler that moves no task and touches only the caller's registers.
LEMMA QuietHandler ==
  ASSUME KernelInvariant, TypeOK', mode = "user", mode' = "kernel",
         \A u \in Tid : u # current_task => args'[u] = args[u],
         UNCHANGED <<state, priority, senders, readyq, readyq_pool, irqq, irqq_pool,
                     jobq, current_task>>
  PROVE  KernelInvariant'
<1>1. current_task \in Tid /\ state[current_task] = "RUNNING"
  BY Running
<1>2. ReadyQueueExact' /\ EventQueuesExact'
  BY DEF KernelInvariant, ReadyQueueExact, EventQueuesExact
<1>3. SenderQueuesExact'
  BY <1>1 DEF KernelInvariant, SenderQueuesExact
<1>4. LiveTasksExact' /\ NodePoolsBalanced' /\ NeverExits' /\ NoAssertionFailure'
  BY DEF KernelInvariant, LiveTasksExact, NodePoolsBalanced, NeverExits, NoAssertionFailure
<1>5. QED
  BY <1>2, <1>3, <1>4 DEF KernelInvariant

\* A node is free for every task that is not READY: its push trips no assertion.
LEMMA ReadyNodeFree ==
  ASSUME KernelInvariant, NEW u \in Tid, state[u] # "READY"
  PROVE  readyq_pool > 0 /\ MayBecomeReady(u)
<1>1. CountIn(state, "READY") < TASK_POOL_SIZE /\ CountIn(state, "READY") \in Nat
  BY Counts DEF KernelInvariant, TypeOK
<1>2. readyq_pool = TASK_POOL_SIZE - CountIn(state, "READY")
  BY DEF KernelInvariant, NodePoolsBalanced, CountIn
<1>3. readyq_pool > 0
  BY <1>1, <1>2, PoolAssumption
<1>4. QED
  BY <1>3 DEF MayBecomeReady

LEMMA EventNodeFree ==
  ASSUME KernelInvariant, NEW u \in Tid, state[u] # "AWATIEVENT"
  PROVE  irqq_pool > 0
<1>1. CountIn(state, "AWATIEVENT") < TASK_POOL_SIZE /\ CountIn(state, "AWATIEVENT") \in Nat
  BY Counts DEF KernelInvariant, TypeOK
<1>2. irqq_pool = TASK_POOL_SIZE - CountIn(state, "AWATIEVENT")
  BY DEF KernelInvariant, NodePoolsBalanced, CountIn
<1>3. QED
  BY <1>1, <1>2, PoolAssumption

\* A ready queue that agrees with states st and priorities pr.
QueueAgrees(q, st, pr) ==
  /\ \A p \in Prio : NoRepeats(q[p])
  /\ \A t \in Tid, p \in Prio : InSeq(q[p], t) <=> st[t] = "READY" /\ pr[t] = p

LEMMA PushAgrees ==
  ASSUME NEW q \in [Prio -> Seq(Tid)], NEW st \in [Tid -> TaskState],
         NEW pr \in [Tid -> Prio], NEW u \in Tid, st[u] # "READY",
         QueueAgrees(q, st, pr)
  PROVE  QueueAgrees(ptask_queue_push(q, pr[u], u), [st EXCEPT ![u] = "READY"], pr)
<1>1. pr[u] \in Prio /\ ~InSeq(q[pr[u]], u) /\ \A o \in Prio : NoRepeats(q[o])
  BY DEF QueueAgrees
<1>2. /\ \A o \in Prio, t \in Tid :
           InSeq(ptask_queue_push(q, pr[u], u)[o], t) <=> InSeq(q[o], t) \/ (o = pr[u] /\ t = u)
      /\ \A o \in Prio : NoRepeats(ptask_queue_push(q, pr[u], u)[o])
  BY <1>1, PushQueue
<1> DEFINE q2 == ptask_queue_push(q, pr[u], u)
<1> HIDE DEF q2
<1>3. /\ \A o \in Prio, t \in Tid : InSeq(q2[o], t) <=> InSeq(q[o], t) \/ (o = pr[u] /\ t = u)
      /\ \A o \in Prio : NoRepeats(q2[o])
  BY <1>2 DEF q2
<1>4. QueueAgrees(q2, [st EXCEPT ![u] = "READY"], pr)
  BY <1>1, <1>3 DEF QueueAgrees
<1>5. QED
  BY <1>4 DEF q2

LEMMA PopAgrees ==
  ASSUME NEW q \in [Prio -> Seq(Tid)], NEW st \in [Tid -> TaskState],
         NEW pr \in [Tid -> Prio], NEW p \in Prio, q[p] # <<>>,
         QueueAgrees(q, st, pr)
  PROVE  /\ Head(q[p]) \in Tid /\ st[Head(q[p])] = "READY" /\ pr[Head(q[p])] = p
         /\ QueueAgrees(ptask_queue_pop(q, p), [st EXCEPT ![Head(q[p])] = "RUNNING"], pr)
<1> DEFINE u == Head(q[p])
<1>1. /\ u \in Tid /\ InSeq(q[p], u)
      /\ \A o \in Prio, t \in Tid :
           InSeq(ptask_queue_pop(q, p)[o], t) <=> InSeq(q[o], t) /\ ~(o = p /\ t = u)
      /\ \A o \in Prio : NoRepeats(ptask_queue_pop(q, p)[o])
  BY PopQueue DEF QueueAgrees
<1> HIDE DEF u
<1>2. st[u] = "READY" /\ pr[u] = p
  BY <1>1 DEF QueueAgrees
<1>3. QueueAgrees(ptask_queue_pop(q, p), [st EXCEPT ![u] = "RUNNING"], pr)
  BY <1>1, <1>2 DEF QueueAgrees
<1>4. QED
  BY <1>1, <1>2, <1>3 DEF u

\* change_task_state(u, READY) keeps queue, states and node pool together.
LEMMA ReadyAfterPush ==
  ASSUME KernelInvariant, NEW u \in Tid, state[u] # "READY", PushReady(u)
  PROVE  /\ QueueAgrees(readyq', [state EXCEPT ![u] = "READY"], priority)
         /\ readyq_pool' = TASK_POOL_SIZE - CountIn([state EXCEPT ![u] = "READY"], "READY")
<1>1. QueueAgrees(readyq, state, priority)
  BY DEF KernelInvariant, ReadyQueueExact, QueueAgrees
<1>2. QueueAgrees(readyq', [state EXCEPT ![u] = "READY"], priority)
  <2>1. /\ readyq \in [Prio -> Seq(Tid)] /\ state \in [Tid -> TaskState]
        /\ priority \in [Tid -> Prio] /\ readyq' = ptask_queue_push(readyq, priority[u], u)
    BY DEF KernelInvariant, TypeOK, PushReady
  <2>2. QED
    BY <1>1, <2>1, PushAgrees
<1>3. /\ CountIn(state, "READY") \in Nat
      /\ CountIn([state EXCEPT ![u] = "READY"], "READY") = CountIn(state, "READY") + 1
  <2>1. state \in [Tid -> TaskState]
    BY DEF KernelInvariant, TypeOK
  <2>2. QED
    BY <2>1, Counts, ZenonT(30)
<1>4. readyq_pool = TASK_POOL_SIZE - CountIn(state, "READY") /\ readyq_pool' = readyq_pool - 1
  BY DEF KernelInvariant, NodePoolsBalanced, CountIn, PushReady
<1>5. QED
  BY <1>2, <1>3, <1>4, PoolAssumption

\* A task that neither was nor becomes READY is no matter of the ready queue.
LEMMA OtherAgrees ==
  ASSUME NEW q, NEW st \in [Tid -> TaskState], NEW t \in Tid, NEW v \in TaskState,
         NEW pr \in [Tid -> Prio], NEW pr2 \in [Tid -> Prio],
         \A u \in Tid : u # t => pr2[u] = pr[u],
         st[t] # "READY", v # "READY", QueueAgrees(q, st, pr)
  PROVE  QueueAgrees(q, [st EXCEPT ![t] = v], pr2)
BY DEF QueueAgrees

\* The same for the event queues.
EventsAgree(q, st, pr) ==
  /\ \A e \in EventIds, p \in Prio : NoRepeats(q[e][p])
  /\ \A t \in Tid, e \in EventIds, p \in Prio : InSeq(q[e][p], t) =>
       st[t] = "AWATIEVENT" /\ pr[t] = p
  /\ \A t \in Tid, e, f \in EventIds, p \in Prio :
       InSeq(q[e][p], t) /\ InSeq(q[f][p], t) => e = f
  /\ \A t \in Tid : st[t] = "AWATIEVENT" => \E e \in EventIds : InSeq(q[e][pr[t]], t)

LEMMA OtherEventsAgree ==
  ASSUME NEW q, NEW st \in [Tid -> TaskState], NEW t \in Tid, NEW v \in TaskState,
         NEW pr \in [Tid -> Prio], NEW pr2 \in [Tid -> Prio],
         \A u \in Tid : u # t => pr2[u] = pr[u],
         st[t] # "AWATIEVENT", v # "AWATIEVENT", EventsAgree(q, st, pr)
  PROVE  EventsAgree(q, [st EXCEPT ![t] = v], pr2)
<1> DEFINE s2 == [st EXCEPT ![t] = v]
<1>1. \A u \in Tid : /\ s2[u] = "AWATIEVENT" <=> st[u] = "AWATIEVENT"
                     /\ st[u] = "AWATIEVENT" => pr2[u] = pr[u]
  OBVIOUS
<1> HIDE DEF s2
<1>2. EventsAgree(q, s2, pr2)
  BY <1>1 DEF EventsAgree
<1>3. QED
  BY <1>2 DEF s2

\* And for the sender queues.
SendersAgree(sn, st, ar) ==
  /\ \A r \in Tid : NoRepeats(sn[r])
  /\ \A t, r \in Tid : InSeq(sn[r], t) => st[t] = "WATISEND"
  /\ \A t, r, q \in Tid : InSeq(sn[r], t) /\ InSeq(sn[q], t) => r = q
  /\ \A t \in Tid : st[t] \in {"WATISEND", "WATIREPLY"} => ar[t].call = "send"
  /\ \A t \in Tid : st[t] = "WAITRECEIVE" => sn[t] = <<>> /\ ar[t].call = "receive"

\* Tasks that leave no sender queue and enter none may change their state.
LEMMA SendersMove ==
  ASSUME NEW sn, NEW st, NEW ar, NEW st2, NEW ar2, SendersAgree(sn, st, ar),
         \A u \in Tid :
           \/ st2[u] = st[u] /\ ar2[u] = ar[u]
           \/ /\ st[u] # "WATISEND"
              /\ \/ st2[u] = "WATIREPLY" /\ ar2[u].call = "send"
                 \/ st2[u] \notin {"WATISEND", "WATIREPLY", "WAITRECEIVE"}
  PROVE  SendersAgree(sn, st2, ar2)
<1>1. \A u, r \in Tid : InSeq(sn[r], u) => st2[u] = "WATISEND"
  BY DEF SendersAgree
<1>2. \A u \in Tid : st2[u] \in {"WATISEND", "WATIREPLY"} => ar2[u].call = "send"
  BY DEF SendersAgree
<1>3. \A u \in Tid : st2[u] = "WAITRECEIVE" => sn[u] = <<>> /\ ar2[u].call = "receive"
  BY DEF SendersAgree
<1>4. QED
  BY <1>1, <1>2, <1>3 DEF SendersAgree

\* The parts of the invariant, as the lemmas above state them.
LEMMA Parts ==
  KernelInvariant <=>
    /\ TypeOK
    /\ QueueAgrees(readyq, state, priority)
    /\ EventsAgree(irqq, state, priority)
    /\ SendersAgree(senders, state, args)
    /\ LiveTasksExact
    /\ readyq_pool = TASK_POOL_SIZE - CountIn(state, "READY")
    /\ irqq_pool = TASK_POOL_SIZE - CountIn(state, "AWATIEVENT")
    /\ NeverExits /\ NoAssertionFailure
<1>1. ReadyQueueExact <=> QueueAgrees(readyq, state, priority)
  BY DEF ReadyQueueExact, QueueAgrees
<1>2. EventQueuesExact <=> EventsAgree(irqq, state, priority)
  BY DEF EventQueuesExact, EventsAgree
<1>3. SenderQueuesExact <=> SendersAgree(senders, state, args)
  BY DEF SenderQueuesExact, SendersAgree
<1>4. NodePoolsBalanced <=>
        /\ readyq_pool = TASK_POOL_SIZE - CountIn(state, "READY")
        /\ irqq_pool = TASK_POOL_SIZE - CountIn(state, "AWATIEVENT")
  BY DEF NodePoolsBalanced, CountIn
<1>5. QED
  BY <1>1, <1>2, <1>3, <1>4 DEF KernelInvariant

LEMMA NextParts ==
  ASSUME TypeOK', QueueAgrees(readyq', state', priority'),
         EventsAgree(irqq', state', priority'), SendersAgree(senders', state', args'),
         LiveTasksExact',
         readyq_pool' = TASK_POOL_SIZE - CountIn(state', "READY"),
         irqq_pool' = TASK_POOL_SIZE - CountIn(state', "AWATIEVENT"),
         NeverExits', NoAssertionFailure'
  PROVE  KernelInvariant'
<1>1. ReadyQueueExact'
  BY DEF ReadyQueueExact, QueueAgrees
<1>2. EventQueuesExact'
  BY DEF EventQueuesExact, EventsAgree
<1>3. SenderQueuesExact'
  BY DEF SenderQueuesExact, SendersAgree
<1>4. NodePoolsBalanced'
  BY DEF NodePoolsBalanced, CountIn
<1>5. QED
  BY <1>1, <1>2, <1>3, <1>4 DEF KernelInvariant

\* A task enters or leaves a counted state.
LEMMA MovedCount ==
  ASSUME NEW st \in [Tid -> TaskState], NEW t \in Tid, NEW w \in TaskState
  PROVE  /\ CountIn(st, "READY") \in Nat /\ CountIn(st, "AWATIEVENT") \in Nat
         /\ st[t] # "READY" =>
              CountIn([st EXCEPT ![t] = "READY"], "READY") = CountIn(st, "READY") + 1
         /\ st[t] # "AWATIEVENT" =>
              CountIn([st EXCEPT ![t] = "AWATIEVENT"], "AWATIEVENT")
                = CountIn(st, "AWATIEVENT") + 1
         /\ st[t] = "READY" /\ w # "READY" =>
              CountIn([st EXCEPT ![t] = w], "READY") = CountIn(st, "READY") - 1
         /\ st[t] = "AWATIEVENT" /\ w # "AWATIEVENT" =>
              CountIn([st EXCEPT ![t] = w], "AWATIEVENT") = CountIn(st, "AWATIEVENT") - 1
<1>1. ASSUME NEW v, NEW x
      PROVE  /\ CountIn(st, v) \in Nat
             /\ st[t] # v /\ x = v => CountIn([st EXCEPT ![t] = x], v) = CountIn(st, v) + 1
             /\ st[t] = v /\ x # v => CountIn([st EXCEPT ![t] = x], v) = CountIn(st, v) - 1
  <2>1. CountIn(st, v) \in Nat
    BY Counts
  <2>2. st[t] # v /\ x = v => CountIn([st EXCEPT ![t] = x], v) = CountIn(st, v) + 1
    BY Counts, ZenonT(30)
  <2>3. st[t] = v /\ x # v => CountIn([st EXCEPT ![t] = x], v) = CountIn(st, v) - 1
    BY Counts, ZenonT(30)
  <2>4. QED
    BY <2>1, <2>2, <2>3
<1>2. QED
  BY <1>1

\* A change of state that neither enters nor leaves a counted state.
LEMMA SameCount ==
  ASSUME NEW st \in [Tid -> TaskState], NEW t \in Tid, NEW w \in TaskState
  PROVE  /\ st[t] # "READY" /\ w # "READY" =>
              CountIn([st EXCEPT ![t] = w], "READY") = CountIn(st, "READY")
         /\ st[t] # "AWATIEVENT" /\ w # "AWATIEVENT" =>
              CountIn([st EXCEPT ![t] = w], "AWATIEVENT") = CountIn(st, "AWATIEVENT")
<1>1. ASSUME NEW v, st[t] # v, w # v PROVE CountIn([st EXCEPT ![t] = w], v) = CountIn(st, v)
  BY <1>1, Counts
<1>2. QED
  BY <1>1

\* The running task blocks without becoming READY or waiting for an event.
LEMMA CallerBlocks ==
  ASSUME KernelInvariant, TypeOK', mode = "user", mode' = "kernel",
         current_task # IdleTid,
         NEW v \in {"WATISEND", "WAITRECEIVE", "WATIREPLY"},
         state' = [state EXCEPT ![current_task] = v],
         SendersAgree(senders', state', args'),
         UNCHANGED <<priority, readyq, readyq_pool, irqq, irqq_pool, jobq, current_task>>
  PROVE  KernelInvariant'
<1> DEFINE t == current_task
<1>1. t \in Tid /\ state[t] = "RUNNING" /\ t \in jobq
  BY Running
<1>2. /\ state \in [Tid -> TaskState] /\ priority \in [Tid -> Prio] /\ v \in TaskState
  BY DEF KernelInvariant, TypeOK, TaskState
<1>3. QueueAgrees(readyq', state', priority')
  BY <1>1, <1>2, OtherAgrees, Parts
<1>4. EventsAgree(irqq', state', priority')
  BY <1>1, <1>2, OtherEventsAgree, Parts
<1>5. /\ CountIn(state', "READY") = CountIn(state, "READY")
      /\ CountIn(state', "AWATIEVENT") = CountIn(state, "AWATIEVENT")
  <2>1. state[t] # "READY" /\ v # "READY" /\ state[t] # "AWATIEVENT" /\ v # "AWATIEVENT"
    BY <1>1
  <2>2. CountIn([state EXCEPT ![t] = v], "READY") = CountIn(state, "READY")
    BY <1>1, <1>2, <2>1, SameCount
  <2>3. CountIn([state EXCEPT ![t] = v], "AWATIEVENT") = CountIn(state, "AWATIEVENT")
    BY <1>1, <1>2, <2>1, SameCount
  <2>4. QED
    BY <2>2, <2>3
<1>6. LiveTasksExact'
  BY <1>1, <1>2 DEF LiveTasksExact, KernelInvariant
<1>7. NeverExits' /\ NoAssertionFailure'
  BY <1>1, <1>2, TidFacts DEF NeverExits, NoAssertionFailure, KernelInvariant
<1>8. /\ readyq_pool' = TASK_POOL_SIZE - CountIn(state', "READY")
      /\ irqq_pool' = TASK_POOL_SIZE - CountIn(state', "AWATIEVENT")
  BY <1>5, Parts
<1>9. QED
  BY <1>3, <1>4, <1>6, <1>7, <1>8, NextParts

-----------------------------------------------------------------------------
(* Every step keeps the invariant: one lemma per handler.                  *)

LEMMA CreateKeeps ==
  ASSUME KernelInvariant, TypeOK', NEW t \in Tid, sys_create(t)
  PROVE  KernelInvariant'
<1> DEFINE n == task_id_cnt
<1>1. mode = "user" /\ current_task = t /\ t # IdleTid
  BY DEF sys_create, Trap
<1>2. /\ t \in Tid /\ state[t] = "RUNNING" /\ t \in jobq
      /\ \A r \in Tid : ~InSeq(senders[r], t)
  BY <1>1, Running
<1>3. CASE n = TASK_POOL_SIZE
  <2>1. /\ SvcUser(t, NoArgs) /\ mode' = "kernel"
        /\ UNCHANGED <<jobq, state, priority, senders, readyq, readyq_pool, irqq,
                       irqq_pool, current_task>>
    BY <1>3 DEF sys_create, memVars, readyVars, irqVars
  <2>2. \A u \in Tid : u # current_task => args'[u] = args[u]
    BY <1>1, <2>1 DEF SvcUser, KernelInvariant, TypeOK
  <2>3. QED
    BY <1>1, <2>1, <2>2, QuietHandler
<1>4. CASE n # TASK_POOL_SIZE
  <2>1. n \in Tid /\ n \notin jobq /\ jobq \subseteq Tid
    <3>1. n \in 2 .. TASK_POOL_SIZE /\ jobq \subseteq 0 .. n - 1
      BY DEF KernelInvariant, TypeOK
    <3>2. n \in Tid /\ n \notin 0 .. n - 1
      BY <1>4, <3>1, PoolAssumption DEF Tid
    <3>3. 0 .. n - 1 \subseteq Tid
      BY <3>1, PoolAssumption DEF Tid
    <3>4. QED
      BY <3>1, <3>2, <3>3
  <2>2. state[n] = "INITIALIZED" /\ n # t
    BY <1>2, <2>1 DEF KernelInvariant, LiveTasksExact
  <2>3. Cardinality(jobq) < TASK_POOL_SIZE /\ MayBecomeReady(n)
    BY <2>1, <2>2, TidFinite, ReadyNodeFree
  <2>4. /\ SvcUser(t, NoArgs) /\ mode' = "kernel"
        /\ UNCHANGED <<senders, irqq, irqq_pool, current_task>>
        /\ \E v \in CreatePriorities, b \in Blocks \cup {NoBlock} :
             create_task(i32_clamp(v, TASK_PRIORITY_MIN, TASK_PRIORITY_MAX - 1), t, b)
    BY <1>4, <2>3 DEF sys_create, irqVars
  <2>5. PICK pr \in Prio : /\ jobq' = jobq \cup {n}
                           /\ priority' = [priority EXCEPT ![n] = pr]
                           /\ readyq' = ptask_queue_push(readyq, pr, n)
                           /\ readyq_pool' = readyq_pool - 1
                           /\ state' = [state EXCEPT ![n] = "READY"]
    BY <2>4, ClampRange, InputAssumption DEF create_task
  <2> HIDE DEF n
  <2>6. /\ state \in [Tid -> TaskState] /\ priority \in [Tid -> Prio]
        /\ readyq \in [Prio -> Seq(Tid)] /\ priority' \in [Tid -> Prio]
        /\ args \in [Tid -> Args] /\ "READY" \in TaskState
    BY DEF KernelInvariant, TypeOK, TaskState
  <2>7. QueueAgrees(readyq', state', priority')
    <3>1. [state EXCEPT ![n] = "INITIALIZED"] = state
      BY <2>1, <2>2, <2>6
    <3>2. QueueAgrees(readyq, state, priority')
      <4>1. /\ state[n] # "READY" /\ "INITIALIZED" # "READY" /\ "INITIALIZED" \in TaskState
            /\ \A u \in Tid : u # n => priority'[u] = priority[u]
        BY <2>1, <2>2, <2>5, <2>6 DEF TaskState
      <4>2. QueueAgrees(readyq, [state EXCEPT ![n] = "INITIALIZED"], priority')
        BY <2>1, <2>6, <4>1, OtherAgrees, Parts
      <4>3. QED
        BY <3>1, <4>2
    <3>3. priority'[n] = pr
      BY <2>1, <2>5, <2>6
    <3>4. QED
      BY <2>1, <2>2, <2>5, <2>6, <3>2, <3>3, PushAgrees
  <2>8. EventsAgree(irqq', state', priority')
    <3>1. EventsAgree(irqq, [state EXCEPT ![n] = "READY"], priority')
      BY <2>1, <2>2, <2>5, <2>6, OtherEventsAgree, Parts
    <3>2. QED
      BY <2>4, <2>5, <3>1
  <2>9. SendersAgree(senders', state', args')
    <3>1. SendersAgree(senders, state, args)
      BY Parts
    <3>2. /\ \A u \in Tid : u # n => state'[u] = state[u]
          /\ state'[n] = "READY" /\ state'[t] = "RUNNING"
          /\ \A u \in Tid : u # t => args'[u] = args[u]
      BY <1>2, <2>1, <2>2, <2>4, <2>5, <2>6 DEF SvcUser
    <3>3. QED
      BY <2>1, <2>2, <2>4, <3>1, <3>2 DEF SendersAgree
  <2>10. /\ readyq_pool' = TASK_POOL_SIZE - CountIn(state', "READY")
         /\ irqq_pool' = TASK_POOL_SIZE - CountIn(state', "AWATIEVENT")
    <3>a. state[n] # "READY" /\ state[n] # "AWATIEVENT" /\ "READY" # "AWATIEVENT"
      BY <2>2
    <3>1. /\ CountIn([state EXCEPT ![n] = "READY"], "READY") = CountIn(state, "READY") + 1
          /\ CountIn(state, "READY") \in Nat
      BY <2>1, <2>6, <3>a, MovedCount
    <3>2. CountIn([state EXCEPT ![n] = "READY"], "AWATIEVENT") = CountIn(state, "AWATIEVENT")
      BY <2>1, <2>6, <3>a, SameCount
    <3>3. QED
      BY <2>4, <2>5, <3>1, <3>2, Parts, PoolAssumption
  <2>11. LiveTasksExact'
    BY <1>1, <1>2, <2>1, <2>2, <2>4, <2>5, <2>6 DEF KernelInvariant, LiveTasksExact
  <2>12. NeverExits' /\ NoAssertionFailure'
    BY <2>1, <2>2, <2>4, <2>5, <2>6, TidFacts DEF KernelInvariant, NeverExits, NoAssertionFailure
  <2>13. QED
    BY <2>7, <2>8, <2>9, <2>10, <2>11, <2>12, NextParts
<1>5. QED
  BY <1>3, <1>4

\* Calls that move no task.
LEMMA QuietKeeps ==
  ASSUME KernelInvariant, TypeOK', NEW t \in Tid,
         \/ sys_tid(t) \/ sys_parent_tid(t) \/ sys_yield(t)
         \/ sys_send_unknown(t) \/ sys_reply_unknown(t)
  PROVE  KernelInvariant'
<1>1. /\ mode = "user" /\ current_task = t /\ SvcUser(t, NoArgs) /\ mode' = "kernel"
      /\ UNCHANGED <<jobq, state, priority, senders, readyq, readyq_pool, irqq,
                     irqq_pool, current_task>>
  BY DEF sys_tid, sys_parent_tid, Query, sys_yield, sys_send_unknown, sys_reply_unknown,
         Trap, taskVars, readyVars, irqVars
<1>2. \A u \in Tid : u # current_task => args'[u] = args[u]
  BY <1>1 DEF SvcUser, KernelInvariant, TypeOK
<1>3. QED
  BY <1>1, <1>2, QuietHandler

LEMMA FaultKeeps ==
  ASSUME KernelInvariant, TypeOK', NEW t \in Tid, unsupported_exception(t)
  PROVE  KernelInvariant'
<1>1. /\ Interrupted(t) /\ mode' = "kernel"
      /\ UNCHANGED <<jobq, state, priority, senders, readyq, readyq_pool, irqq,
                     irqq_pool, current_task>>
  BY DEF unsupported_exception, taskVars, readyVars, irqVars
<1>2. /\ mode = "user" /\ current_task = t
      /\ \A u \in Tid : u # current_task => args'[u] = args[u]
  BY <1>1 DEF Interrupted, KernelInvariant, TypeOK
<1>3. QED
  BY <1>1, <1>2, QuietHandler

LEMMA ExitKeeps ==
  ASSUME KernelInvariant, TypeOK', NEW t \in Tid, sys_exit(t)
  PROVE  KernelInvariant'
<1>1. mode = "user" /\ current_task = t /\ t # IdleTid
  BY DEF sys_exit, Trap
<1>2. /\ t \in Tid /\ state[t] = "RUNNING" /\ t \in jobq
      /\ \A r \in Tid : ~InSeq(senders[r], t)
  BY <1>1, Running
<1>3. /\ jobq' = jobq \ {t} /\ current_task' = NoTask /\ mode' = "kernel"
      /\ state' = [state EXCEPT ![t] = "INITIALIZED"]
      /\ priority' = [priority EXCEPT ![t] = TASK_PRIORITY_MIN]
      /\ senders' = [senders EXCEPT ![t] = <<>>]
      /\ args' = [args EXCEPT ![t] = NoArgs]
      /\ UNCHANGED <<readyq, readyq_pool, irqq, irqq_pool>>
  BY DEF sys_exit, task_init, readyVars, irqVars
<1>4. /\ state \in [Tid -> TaskState] /\ priority \in [Tid -> Prio]
      /\ priority' \in [Tid -> Prio] /\ senders \in [Tid -> Seq(Tid)]
      /\ args \in [Tid -> Args] /\ "INITIALIZED" \in TaskState
      /\ \A u \in Tid : u # t => priority'[u] = priority[u]
  BY <1>3 DEF KernelInvariant, TypeOK, TaskState
<1>5. QueueAgrees(readyq', state', priority')
  <2>1. QueueAgrees(readyq, [state EXCEPT ![t] = "INITIALIZED"], priority')
    BY <1>2, <1>4, OtherAgrees, Parts
  <2>2. QED
    BY <1>3, <2>1
<1>6. EventsAgree(irqq', state', priority')
  <2>1. EventsAgree(irqq, [state EXCEPT ![t] = "INITIALIZED"], priority')
    BY <1>2, <1>4, OtherEventsAgree, Parts
  <2>2. QED
    BY <1>3, <2>1
<1>7. SendersAgree(senders', state', args')
  <2>1. SendersAgree(senders, state, args)
    BY Parts
  <2>2. NoRepeats(<<>>) /\ \A u : ~InSeq(<<>>, u)
    BY DEF InSeq, NoRepeats
  <2>3. QED
    BY <1>2, <1>3, <1>4, <2>1, <2>2 DEF SendersAgree
<1>8. /\ readyq_pool' = TASK_POOL_SIZE - CountIn(state', "READY")
      /\ irqq_pool' = TASK_POOL_SIZE - CountIn(state', "AWATIEVENT")
  <2>a. /\ state[t] # "READY" /\ state[t] # "AWATIEVENT"
        /\ "INITIALIZED" # "READY" /\ "INITIALIZED" # "AWATIEVENT"
    BY <1>2
  <2>1. CountIn([state EXCEPT ![t] = "INITIALIZED"], "READY") = CountIn(state, "READY")
    BY <1>2, <1>4, <2>a, SameCount
  <2>2. CountIn([state EXCEPT ![t] = "INITIALIZED"], "AWATIEVENT") = CountIn(state, "AWATIEVENT")
    BY <1>2, <1>4, <2>a, SameCount
  <2>3. QED
    BY <1>3, <2>1, <2>2, Parts
<1>9. LiveTasksExact'
  BY <1>1, <1>2, <1>3, <1>4, TidFacts DEF KernelInvariant, LiveTasksExact
<1>10. NeverExits' /\ NoAssertionFailure'
  BY <1>1, <1>3, <1>4, TidFacts DEF KernelInvariant, NeverExits, NoAssertionFailure
<1>11. QED
  BY <1>5, <1>6, <1>7, <1>8, <1>9, <1>10, NextParts

\* A blocked task is woken by a handler of the running one (t stays RUNNING or
\* waits for a reply): what that means for queues and counts.
LEMMA WakeParts ==
  ASSUME KernelInvariant, NEW u \in Tid,
         state[u] \in {"WAITRECEIVE", "WATIREPLY"}, PushReady(u)
  PROVE  LET st == [state EXCEPT ![u] = "READY"] IN
         /\ st \in [Tid -> TaskState]
         /\ QueueAgrees(readyq', st, priority)
         /\ EventsAgree(irqq, st, priority)
         /\ readyq_pool' = TASK_POOL_SIZE - CountIn(st, "READY")
         /\ irqq_pool = TASK_POOL_SIZE - CountIn(st, "AWATIEVENT")
<1>1. /\ state \in [Tid -> TaskState] /\ priority \in [Tid -> Prio]
      /\ "READY" \in TaskState /\ "READY" # "AWATIEVENT"
      /\ state[u] # "READY" /\ state[u] # "AWATIEVENT"
  BY DEF KernelInvariant, TypeOK, TaskState
<1>2. /\ QueueAgrees(readyq', [state EXCEPT ![u] = "READY"], priority)
      /\ readyq_pool' = TASK_POOL_SIZE - CountIn([state EXCEPT ![u] = "READY"], "READY")
  BY <1>1, ReadyAfterPush
<1>3. EventsAgree(irqq, [state EXCEPT ![u] = "READY"], priority)
  BY <1>1, OtherEventsAgree, Parts
<1>4. CountIn([state EXCEPT ![u] = "READY"], "AWATIEVENT") = CountIn(state, "AWATIEVENT")
  BY <1>1, SameCount
<1>5. [state EXCEPT ![u] = "READY"] \in [Tid -> TaskState]
  BY <1>1
<1>6. QED
  BY <1>2, <1>3, <1>4, <1>5, Parts

LEMMA SendDeliverKeeps ==
  ASSUME KernelInvariant, TypeOK', NEW t \in Tid, sys_send_deliver(t)
  PROVE  KernelInvariant'
<1>1. mode = "user" /\ current_task = t /\ t # IdleTid
  BY DEF sys_send_deliver, Trap
<1>2. state[t] = "RUNNING" /\ t \in jobq /\ \A r \in Tid : ~InSeq(senders[r], t)
  BY <1>1, Running
<1>3. PICK r \in jobq, m \in Payload, ln \in SendLens :
        /\ state[r] = "WAITRECEIVE"
        /\ IF readyq_pool > 0
           THEN /\ args' = [args EXCEPT ![t] = SendArgs(m, ln)]
                /\ PushReady(r)
                /\ state' = [state EXCEPT ![r] = "READY", ![t] = "WATIREPLY"]
                /\ mode' = "kernel"
                /\ UNCHANGED <<task_id_cnt, jobq, priority, parent_tid, senders,
                               memVars, irqVars, current_task>>
           ELSE Halt
  BY DEF sys_send_deliver
<1>4. r \in Tid /\ r # t /\ jobq \subseteq Tid
  BY <1>2, <1>3, PoolAssumption DEF KernelInvariant, LiveTasksExact
<1>5. readyq_pool > 0
  BY <1>3, <1>4, ReadyNodeFree
<1>6. /\ args' = [args EXCEPT ![t] = SendArgs(m, ln)] /\ PushReady(r)
      /\ state' = [[state EXCEPT ![r] = "READY"] EXCEPT ![t] = "WATIREPLY"]
      /\ mode' = "kernel"
      /\ UNCHANGED <<jobq, priority, senders, irqq, irqq_pool, current_task>>
  BY <1>3, <1>5 DEF irqVars
<1> DEFINE st == [state EXCEPT ![r] = "READY"]
<1>7. /\ st \in [Tid -> TaskState]
      /\ QueueAgrees(readyq', st, priority) /\ EventsAgree(irqq, st, priority)
      /\ readyq_pool' = TASK_POOL_SIZE - CountIn(st, "READY")
      /\ irqq_pool = TASK_POOL_SIZE - CountIn(st, "AWATIEVENT")
  BY <1>3, <1>4, <1>6, WakeParts
<1>8. /\ state \in [Tid -> TaskState] /\ priority \in [Tid -> Prio] /\ args \in [Tid -> Args]
      /\ "WATIREPLY" \in TaskState
      /\ st[t] = "RUNNING" /\ st[t] # "READY" /\ st[t] # "AWATIEVENT"
  BY <1>2, <1>4 DEF KernelInvariant, TypeOK, TaskState
<1>9. /\ \A u \in Tid : u # r /\ u # t => state'[u] = state[u]
      /\ state'[r] = "READY" /\ state'[t] = "WATIREPLY"
      /\ \A u \in Tid : u # t => args'[u] = args[u]
      /\ args'[t].call = "send"
  BY <1>4, <1>6, <1>8 DEF SendArgs
<1>10. SendersAgree(senders', state', args')
  <2>1. SendersAgree(senders, state, args)
    BY Parts
  <2>2. state[r] # "WATISEND" /\ state[t] # "WATISEND"
    BY <1>2, <1>3
  <2>3. \A u \in Tid :
           \/ state'[u] = state[u] /\ args'[u] = args[u]
           \/ /\ state[u] # "WATISEND"
              /\ \/ state'[u] = "WATIREPLY" /\ args'[u].call = "send"
                 \/ state'[u] \notin {"WATISEND", "WATIREPLY", "WAITRECEIVE"}
    BY <1>9, <2>2
  <2>4. SendersAgree(senders, state', args')
    BY <2>1, <2>3, SendersMove
  <2>5. QED
    BY <1>6, <2>4
<1>11. LiveTasksExact'
  BY <1>1, <1>2, <1>3, <1>4, <1>6, <1>9, TidFacts DEF KernelInvariant, LiveTasksExact
<1>12. NeverExits' /\ NoAssertionFailure'
  BY <1>1, <1>3, <1>4, <1>6, <1>9, TidFacts DEF KernelInvariant, NeverExits, NoAssertionFailure
<1> HIDE DEF st
<1>13. state' = [st EXCEPT ![t] = "WATIREPLY"]
  BY <1>6 DEF st
<1>14. QueueAgrees(readyq', state', priority')
  <2>1. QueueAgrees(readyq', [st EXCEPT ![t] = "WATIREPLY"], priority)
    BY <1>7, <1>8, OtherAgrees
  <2>2. QED
    BY <1>6, <1>13, <2>1
<1>15. EventsAgree(irqq', state', priority')
  <2>1. EventsAgree(irqq, [st EXCEPT ![t] = "WATIREPLY"], priority)
    BY <1>7, <1>8, OtherEventsAgree
  <2>2. QED
    BY <1>6, <1>13, <2>1
<1>16. /\ readyq_pool' = TASK_POOL_SIZE - CountIn(state', "READY")
       /\ irqq_pool' = TASK_POOL_SIZE - CountIn(state', "AWATIEVENT")
  <2>1. "WATIREPLY" # "READY" /\ "WATIREPLY" # "AWATIEVENT"
    OBVIOUS
  <2>2. /\ CountIn([st EXCEPT ![t] = "WATIREPLY"], "READY") = CountIn(st, "READY")
        /\ CountIn([st EXCEPT ![t] = "WATIREPLY"], "AWATIEVENT") = CountIn(st, "AWATIEVENT")
    BY <1>7, <1>8, <2>1, SameCount
  <2>3. QED
    BY <1>6, <1>7, <1>13, <2>2
<1>17. QED
  BY <1>10, <1>11, <1>12, <1>14, <1>15, <1>16, NextParts

LEMMA SendQueueKeeps ==
  ASSUME KernelInvariant, TypeOK', NEW t \in Tid, sys_send_queue(t)
  PROVE  KernelInvariant'
<1>1. mode = "user" /\ current_task = t /\ t # IdleTid
  BY DEF sys_send_queue, Trap
<1>2. state[t] = "RUNNING" /\ t \in jobq /\ \A r \in Tid : ~InSeq(senders[r], t)
  BY <1>1, Running
<1>3. PICK r \in jobq, m \in Payload, ln \in SendLens :
        /\ state[r] # "WAITRECEIVE"
        /\ \/ SvcUser(t, NoArgs) /\ UNCHANGED <<senders, state>>
           \/ /\ SvcUser(t, SendArgs(m, ln))
              /\ senders' = [senders EXCEPT ![r] = Append(@, t)]
              /\ state' = [state EXCEPT ![t] = "WATISEND"]
        /\ mode' = "kernel"
        /\ UNCHANGED <<task_id_cnt, jobq, priority, parent_tid, memVars, readyVars,
                       irqVars, current_task>>
  BY DEF sys_send_queue
<1>4. UNCHANGED <<jobq, priority, readyq, readyq_pool, irqq, irqq_pool, current_task>>
      /\ mode' = "kernel"
  BY <1>3 DEF readyVars, irqVars
<1>5. /\ state \in [Tid -> TaskState] /\ args \in [Tid -> Args] /\ senders \in [Tid -> Seq(Tid)]
      /\ r \in Tid
  BY DEF KernelInvariant, TypeOK, LiveTasksExact
<1>6. CASE SvcUser(t, NoArgs) /\ UNCHANGED <<senders, state>>
  <2>1. \A u \in Tid : u # current_task => args'[u] = args[u]
    BY <1>1, <1>5, <1>6 DEF SvcUser
  <2>2. QED
    BY <1>1, <1>4, <1>6, <2>1, QuietHandler
<1>7. CASE /\ SvcUser(t, SendArgs(m, ln))
           /\ senders' = [senders EXCEPT ![r] = Append(@, t)]
           /\ state' = [state EXCEPT ![t] = "WATISEND"]
  <2>1. /\ \A u \in Tid : u # t => state'[u] = state[u] /\ args'[u] = args[u]
        /\ state'[t] = "WATISEND" /\ args'[t].call = "send"
    BY <1>5, <1>7 DEF SvcUser, SendArgs
  <2>2. /\ \A q \in Tid : q # r => senders'[q] = senders[q]
        /\ \A u \in Tid : InSeq(senders'[r], u) <=> InSeq(senders[r], u) \/ u = t
        /\ NoRepeats(senders[r]) => NoRepeats(senders'[r])
    <3>1. senders'[r] = Append(senders[r], t) /\ \A q \in Tid : q # r => senders'[q] = senders[q]
      BY <1>5, <1>7
    <3>2. QED
      BY <1>2, <1>5, <3>1, PushSeq
  <2>3. SendersAgree(senders, state, args)
    BY Parts
  <2>4. /\ \A q \in Tid : NoRepeats(senders'[q])
        /\ \A u, q \in Tid : InSeq(senders'[q], u) => state'[u] = "WATISEND"
    BY <1>5, <2>1, <2>2, <2>3 DEF SendersAgree
  <2>5. ASSUME NEW u \in Tid, NEW q \in Tid, NEW o \in Tid,
               InSeq(senders'[q], u), InSeq(senders'[o], u)
        PROVE  q = o
    <3>1. CASE u = t
      BY <1>2, <1>5, <2>2, <2>5, <3>1
    <3>2. CASE u # t
      <4>1. InSeq(senders[q], u) /\ InSeq(senders[o], u)
        BY <1>5, <2>2, <2>5, <3>2
      <4>2. QED
        BY <2>3, <4>1 DEF SendersAgree
    <3>3. QED
      BY <3>1, <3>2
  <2>6. \A u \in Tid : state'[u] \in {"WATISEND", "WATIREPLY"} => args'[u].call = "send"
    BY <2>1, <2>3 DEF SendersAgree
  <2>7. ASSUME NEW u \in Tid, state'[u] = "WAITRECEIVE"
        PROVE  senders'[u] = <<>> /\ args'[u].call = "receive"
    <3>1. state[r] # "WAITRECEIVE"
      BY <1>3
    <3>2. u # t /\ state[u] = "WAITRECEIVE"
      BY <2>1, <2>7
    <3>3. u # r /\ senders'[u] = senders[u] /\ args'[u] = args[u]
      BY <2>1, <2>2, <3>1, <3>2
    <3>4. QED
      BY <2>3, <3>2, <3>3 DEF SendersAgree
  <2>8. SendersAgree(senders', state', args')
    BY <2>4, <2>5, <2>6, <2>7 DEF SendersAgree
  <2>9. QED
    BY <1>1, <1>4, <1>7, <2>8, CallerBlocks
<1>8. QED
  BY <1>3, <1>6, <1>7

LEMMA ReceiveBlockKeeps ==
  ASSUME KernelInvariant, TypeOK', NEW t \in Tid, sys_receive_block(t)
  PROVE  KernelInvariant'
<1>1. mode = "user" /\ current_task = t /\ t # IdleTid
  BY DEF sys_receive_block, Trap
<1>2. state[t] = "RUNNING" /\ t \in jobq /\ \A r \in Tid : ~InSeq(senders[r], t)
  BY <1>1, Running
<1>3. PICK l \in Lens : SvcUser(t, ReceiveArgs(l))
  BY DEF sys_receive_block
<1>4. /\ senders[t] = <<>> /\ state' = [state EXCEPT ![t] = "WAITRECEIVE"] /\ mode' = "kernel"
      /\ UNCHANGED <<jobq, priority, senders, readyq, readyq_pool, irqq, irqq_pool, current_task>>
  BY DEF sys_receive_block, readyVars, irqVars
<1>5. /\ \A u \in Tid : u # t => state'[u] = state[u] /\ args'[u] = args[u]
      /\ state'[t] = "WAITRECEIVE" /\ args'[t].call = "receive"
  BY <1>3, <1>4 DEF SvcUser, ReceiveArgs, KernelInvariant, TypeOK
<1>6. SendersAgree(senders', state', args')
  <2>1. SendersAgree(senders, state, args)
    BY Parts
  <2>2. QED
    BY <1>2, <1>4, <1>5, <2>1 DEF SendersAgree
<1>7. QED
  BY <1>1, <1>4, <1>6, CallerBlocks

\* The head of a sender queue is a live task in WATISEND.
LEMMA HeadOfSenders ==
  ASSUME KernelInvariant, NEW t \in Tid, senders[t] # <<>>
  PROVE  LET s == Head(senders[t]) IN
         /\ s \in Tid /\ s \in jobq /\ state[s] = "WATISEND" /\ args[s].call = "send"
         /\ Tail(senders[t]) \in Seq(Tid) /\ NoRepeats(Tail(senders[t]))
         /\ InSeq(senders[t], s)
         /\ \A u \in Tid : InSeq(Tail(senders[t]), u) <=> InSeq(senders[t], u) /\ u # s
<1>1. senders[t] \in Seq(Tid) /\ NoRepeats(senders[t])
  BY DEF KernelInvariant, TypeOK, SenderQueuesExact
<1>2. /\ Head(senders[t]) \in Tid /\ InSeq(senders[t], Head(senders[t]))
      /\ Tail(senders[t]) \in Seq(Tid) /\ NoRepeats(Tail(senders[t]))
      /\ \A u \in Tid :
           InSeq(Tail(senders[t]), u) <=> InSeq(senders[t], u) /\ u # Head(senders[t])
  BY <1>1, PopSeq
<1>3. state[Head(senders[t])] = "WATISEND"
  BY <1>2 DEF KernelInvariant, SenderQueuesExact
<1>4. Head(senders[t]) \in jobq /\ args[Head(senders[t])].call = "send"
  BY <1>2, <1>3 DEF KernelInvariant, SenderQueuesExact, LiveTasksExact
<1>5. QED
  BY <1>2, <1>3, <1>4

\* A Receive never meets a sender that has exited.
LEMMA ReceiveUnknownKeeps ==
  ASSUME KernelInvariant, NEW t \in Tid, sys_receive_unknown(t)
  PROVE  KernelInvariant'
<1>1. senders[t] # <<>> /\ Head(senders[t]) \notin jobq
  BY DEF sys_receive_unknown
<1>2. QED
  BY <1>1, HeadOfSenders

LEMMA ReceiveDeliverKeeps ==
  ASSUME KernelInvariant, TypeOK', NEW t \in Tid, sys_receive_deliver(t)
  PROVE  KernelInvariant'
<1> DEFINE s == Head(senders[t])
<1>1. mode = "user" /\ current_task = t /\ t # IdleTid /\ senders[t] # <<>>
  BY DEF sys_receive_deliver, Trap
<1>2. state[t] = "RUNNING" /\ t \in jobq
  BY <1>1, Running
<1>3. /\ s \in Tid /\ s \in jobq /\ state[s] = "WATISEND" /\ args[s].call = "send"
      /\ Tail(senders[t]) \in Seq(Tid) /\ NoRepeats(Tail(senders[t])) /\ InSeq(senders[t], s)
      /\ \A u \in Tid : InSeq(Tail(senders[t]), u) <=> InSeq(senders[t], u) /\ u # s
  BY <1>1, HeadOfSenders
<1>4. s # t
  BY <1>2, <1>3
<1>5. /\ senders' = [senders EXCEPT ![t] = Tail(senders[t])]
      /\ args' = [args EXCEPT ![t] = NoArgs]
      /\ state' = [state EXCEPT ![s] = "WATIREPLY"]
      /\ mode' = "kernel"
      /\ UNCHANGED <<jobq, priority, readyq, readyq_pool, irqq, irqq_pool, current_task>>
  <2>1. args[s].call # "none" /\ state[s] # "WATIREPLY"
    BY <1>3
  <2>2. PICK l \in Lens :
          LET send_args == IF s = t THEN ReceiveArgs(l) ELSE args[s] IN
          IF send_args.call = "none" THEN Wild
          ELSE IF state[s] = "WATIREPLY" THEN Halt
          ELSE /\ senders' = [senders EXCEPT ![t] = next_sender(@)]
               /\ args' = [args EXCEPT ![t] = NoArgs]
               /\ state' = [state EXCEPT ![s] = "WATIREPLY"]
               /\ mode' = "kernel"
               /\ UNCHANGED <<task_id_cnt, jobq, priority, parent_tid, memVars,
                              readyVars, irqVars, current_task>>
    BY DEF sys_receive_deliver
  <2>3. QED
    BY <1>4, <2>1, <2>2 DEF next_sender, readyVars, irqVars
<1> HIDE DEF s
<1>6. /\ state \in [Tid -> TaskState] /\ priority \in [Tid -> Prio]
      /\ args \in [Tid -> Args] /\ senders \in [Tid -> Seq(Tid)]
      /\ "WATIREPLY" \in TaskState /\ "WATIREPLY" # "READY" /\ "WATIREPLY" # "AWATIEVENT"
      /\ state[s] # "READY" /\ state[s] # "AWATIEVENT"
  BY <1>3 DEF KernelInvariant, TypeOK, TaskState
<1>7. QueueAgrees(readyq', state', priority')
  <2>1. QueueAgrees(readyq, [state EXCEPT ![s] = "WATIREPLY"], priority)
    BY <1>3, <1>6, OtherAgrees, Parts
  <2>2. QED
    BY <1>5, <2>1
<1>8. EventsAgree(irqq', state', priority')
  <2>1. EventsAgree(irqq, [state EXCEPT ![s] = "WATIREPLY"], priority)
    BY <1>3, <1>6, OtherEventsAgree, Parts
  <2>2. QED
    BY <1>5, <2>1
<1>9. /\ \A u \in Tid : u # s => state'[u] = state[u]
      /\ state'[s] = "WATIREPLY" /\ state'[t] = "RUNNING"
      /\ \A u \in Tid : u # t => args'[u] = args[u] /\ senders'[u] = senders[u]
      /\ senders'[t] = Tail(senders[t])
  BY <1>2, <1>3, <1>4, <1>5, <1>6
<1>10. SendersAgree(senders', state', args')
  <2>1. SendersAgree(senders, state, args)
    BY Parts
  <2>2. \A u, r \in Tid : InSeq(senders'[r], u) => InSeq(senders[r], u) /\ u # s
    BY <1>3, <1>9, <2>1 DEF SendersAgree
  <2>3. \A r \in Tid : NoRepeats(senders'[r])
    BY <1>3, <1>9, <2>1 DEF SendersAgree
  <2>4. /\ \A u, r \in Tid : InSeq(senders'[r], u) => state'[u] = "WATISEND"
        /\ \A u, r, q \in Tid : InSeq(senders'[r], u) /\ InSeq(senders'[q], u) => r = q
    BY <1>9, <2>1, <2>2 DEF SendersAgree
  <2>5. \A u \in Tid : state'[u] \in {"WATISEND", "WATIREPLY"} => args'[u].call = "send"
    BY <1>3, <1>4, <1>9, <2>1 DEF SendersAgree
  <2>6. \A u \in Tid : state'[u] = "WAITRECEIVE" => senders'[u] = <<>> /\ args'[u].call = "receive"
    BY <1>3, <1>9, <2>1 DEF SendersAgree
  <2>7. QED
    BY <2>3, <2>4, <2>5, <2>6 DEF SendersAgree
<1>11. /\ readyq_pool' = TASK_POOL_SIZE - CountIn(state', "READY")
       /\ irqq_pool' = TASK_POOL_SIZE - CountIn(state', "AWATIEVENT")
  <2>1. /\ CountIn([state EXCEPT ![s] = "WATIREPLY"], "READY") = CountIn(state, "READY")
        /\ CountIn([state EXCEPT ![s] = "WATIREPLY"], "AWATIEVENT") = CountIn(state, "AWATIEVENT")
    BY <1>3, <1>6, SameCount
  <2>2. QED
    BY <1>5, <2>1, Parts
<1>12. LiveTasksExact'
  BY <1>1, <1>2, <1>3, <1>4, <1>5, <1>9, TidFacts DEF KernelInvariant, LiveTasksExact
<1>13. NeverExits' /\ NoAssertionFailure'
  BY <1>3, <1>5, <1>9, TidFacts DEF KernelInvariant, NeverExits, NoAssertionFailure
<1>14. QED
  BY <1>7, <1>8, <1>10, <1>11, <1>12, <1>13, NextParts

LEMMA ReplyKeeps ==
  ASSUME KernelInvariant, TypeOK', ~ReplyAnyone, NEW t \in Tid, sys_reply(t)
  PROVE  KernelInvariant'
<1>1. mode = "user" /\ current_task = t /\ t # IdleTid
  BY DEF sys_reply, Trap
<1>2. state[t] = "RUNNING" /\ t \in jobq /\ \A r \in Tid : ~InSeq(senders[r], t)
  BY <1>1, Running
<1>3. PICK s \in jobq :
        /\ state[s] = "WATIREPLY"
        /\ IF s = t \/ args[s].call # "send" THEN Wild
           ELSE IF MayBecomeReady(s)
           THEN /\ args' = [args EXCEPT ![t] = NoArgs]
                /\ PushReady(s)
                /\ state' = [state EXCEPT ![s] = "READY"]
                /\ mode' = "kernel"
                /\ UNCHANGED <<task_id_cnt, jobq, priority, parent_tid, senders,
                               memVars, irqVars, current_task>>
           ELSE Halt
  BY DEF sys_reply, reply_to
<1>4. s \in Tid /\ s # t /\ args[s].call = "send" /\ MayBecomeReady(s)
  <2>1. s \in Tid /\ s # t
    BY <1>2, <1>3 DEF KernelInvariant, LiveTasksExact
  <2>2. args[s].call = "send"
    BY <1>3, <2>1 DEF KernelInvariant, SenderQueuesExact
  <2>3. MayBecomeReady(s)
    BY <1>3, <2>1, ReadyNodeFree
  <2>4. QED
    BY <2>1, <2>2, <2>3
<1>5. /\ args' = [args EXCEPT ![t] = NoArgs] /\ PushReady(s)
      /\ state' = [state EXCEPT ![s] = "READY"] /\ mode' = "kernel"
      /\ UNCHANGED <<jobq, priority, senders, irqq, irqq_pool, current_task>>
  BY <1>3, <1>4 DEF irqVars
<1>6. /\ QueueAgrees(readyq', state', priority') /\ EventsAgree(irqq', state', priority')
      /\ readyq_pool' = TASK_POOL_SIZE - CountIn(state', "READY")
      /\ irqq_pool' = TASK_POOL_SIZE - CountIn(state', "AWATIEVENT")
  BY <1>3, <1>4, <1>5, WakeParts
<1>7. /\ \A u \in Tid : u # s => state'[u] = state[u]
      /\ state'[s] = "READY" /\ state'[t] = "RUNNING"
      /\ \A u \in Tid : u # t => args'[u] = args[u]
  BY <1>2, <1>4, <1>5 DEF KernelInvariant, TypeOK
<1>8. SendersAgree(senders', state', args')
  <2>1. SendersAgree(senders, state, args) /\ state[s] # "WATISEND" /\ state[t] # "WATISEND"
    BY <1>2, <1>3, Parts
  <2>2. \A u \in Tid :
           \/ state'[u] = state[u] /\ args'[u] = args[u]
           \/ /\ state[u] # "WATISEND"
              /\ \/ state'[u] = "WATIREPLY" /\ args'[u].call = "send"
                 \/ state'[u] \notin {"WATISEND", "WATIREPLY", "WAITRECEIVE"}
    BY <1>7, <2>1
  <2>3. SendersAgree(senders, state', args')
    BY <2>1, <2>2, SendersMove
  <2>4. QED
    BY <1>5, <2>3
<1>9. LiveTasksExact'
  BY <1>1, <1>2, <1>3, <1>4, <1>5, <1>7, TidFacts DEF KernelInvariant, LiveTasksExact
<1>10. NeverExits' /\ NoAssertionFailure'
  BY <1>3, <1>4, <1>5, <1>7, TidFacts DEF KernelInvariant, NeverExits, NoAssertionFailure
<1>11. QED
  BY <1>6, <1>8, <1>9, <1>10, NextParts

\* A task starts to wait for event e.
LEMMA PushEvents ==
  ASSUME NEW q \in [EventIds -> [Prio -> Seq(Tid)]], NEW st \in [Tid -> TaskState],
         NEW pr \in [Tid -> Prio], NEW e \in EventIds, NEW t \in Tid,
         st[t] # "AWATIEVENT", EventsAgree(q, st, pr)
  PROVE  EventsAgree([q EXCEPT ![e] = ptask_queue_push(@, pr[t], t)],
                     [st EXCEPT ![t] = "AWATIEVENT"], pr)
<1> DEFINE q2 == [q EXCEPT ![e] = ptask_queue_push(@, pr[t], t)]
           s2 == [st EXCEPT ![t] = "AWATIEVENT"]
<1>1. pr[t] \in Prio /\ \A f \in EventIds, p \in Prio : NoRepeats(q[f][p]) /\ ~InSeq(q[f][p], t)
  BY DEF EventsAgree
<1>2. \A f \in EventIds : q2[f] = IF f = e THEN ptask_queue_push(q[e], pr[t], t) ELSE q[f]
  OBVIOUS
<1>3. /\ \A p \in Prio, u \in Tid :
           InSeq(q2[e][p], u) <=> InSeq(q[e][p], u) \/ (p = pr[t] /\ u = t)
      /\ \A p \in Prio : NoRepeats(q2[e][p])
  <2>1. q[e] \in [Prio -> Seq(Tid)] /\ q2[e] = ptask_queue_push(q[e], pr[t], t)
    BY <1>2
  <2> HIDE DEF q2
  <2>2. /\ \A p \in Prio : NoRepeats(q[e][p])
        /\ ~InSeq(q[e][pr[t]], t)
    BY <1>1
  <2>3. /\ \A p \in Prio, u \in Tid : InSeq(ptask_queue_push(q[e], pr[t], t)[p], u)
             <=> InSeq(q[e][p], u) \/ (p = pr[t] /\ u = t)
        /\ \A p \in Prio : NoRepeats(ptask_queue_push(q[e], pr[t], t)[p])
    <3>1. q[e] \in [Prio -> Seq(Tid)] /\ pr[t] \in Prio
      BY <1>1, <2>1
    <3>2. PICK qe \in [Prio -> Seq(Tid)], pt \in Prio : qe = q[e] /\ pt = pr[t]
      BY <3>1
    <3>3. (\A p \in Prio : NoRepeats(qe[p])) /\ ~InSeq(qe[pt], t)
      BY <2>2, <3>2
    <3>4. /\ \A p \in Prio, u \in Tid : InSeq(ptask_queue_push(qe, pt, t)[p], u)
               <=> InSeq(qe[p], u) \/ (p = pt /\ u = t)
          /\ \A p \in Prio : NoRepeats(ptask_queue_push(qe, pt, t)[p])
      BY <3>3, PushQueue
    <3>5. QED
      BY <3>2, <3>4
  <2>4. QED
    BY <2>1, <2>3
<1>4. /\ s2[t] = "AWATIEVENT" /\ \A u \in Tid : u # t => s2[u] = st[u]
      /\ \A f \in EventIds : f # e => q2[f] = q[f]
  BY <1>2
<1> HIDE DEF q2, s2
<1>5. /\ \A f \in EventIds, p \in Prio : NoRepeats(q2[f][p])
      /\ \A u \in Tid, f \in EventIds, p \in Prio :
           InSeq(q2[f][p], u) <=> InSeq(q[f][p], u) \/ (f = e /\ p = pr[t] /\ u = t)
  BY <1>1, <1>3, <1>4
<1>6. /\ \A u \in Tid, f \in EventIds, p \in Prio : InSeq(q2[f][p], u) =>
           s2[u] = "AWATIEVENT" /\ pr[u] = p
      /\ \A u \in Tid, f, g \in EventIds, p \in Prio :
           InSeq(q2[f][p], u) /\ InSeq(q2[g][p], u) => f = g
  <2>1. ASSUME NEW u \in Tid, NEW f \in EventIds, NEW p \in Prio, InSeq(q2[f][p], u)
        PROVE  s2[u] = "AWATIEVENT" /\ pr[u] = p
    BY <1>1, <1>4, <1>5, <2>1 DEF EventsAgree
  <2>2. ASSUME NEW u \in Tid, NEW f \in EventIds, NEW g \in EventIds, NEW p \in Prio,
               InSeq(q2[f][p], u), InSeq(q2[g][p], u)
        PROVE  f = g
    <3>1. CASE u = t
      BY <1>1, <1>5, <2>2, <3>1
    <3>2. CASE u # t
      <4>1. InSeq(q[f][p], u) /\ InSeq(q[g][p], u)
        BY <1>5, <2>2, <3>2
      <4>2. QED
        BY <4>1 DEF EventsAgree
    <3>3. QED
      BY <3>1, <3>2
  <2>3. QED
    BY <2>1, <2>2
<1>7. ASSUME NEW u \in Tid, s2[u] = "AWATIEVENT"
      PROVE  \E f \in EventIds : InSeq(q2[f][pr[u]], u)
  <2>1. CASE u = t
    BY <1>1, <1>5, <2>1
  <2>2. CASE u # t
    <3>1. pr[u] \in Prio /\ \E f \in EventIds : InSeq(q[f][pr[u]], u)
      BY <1>4, <1>7, <2>2 DEF EventsAgree
    <3>2. QED
      BY <1>5, <3>1
  <2>3. QED
    BY <2>1, <2>2
<1>8. EventsAgree(q2, s2, pr)
  BY <1>5, <1>6, <1>7 DEF EventsAgree
<1>9. QED
  BY <1>8 DEF q2, s2

\* The first waiter of an event is taken from its queue.
LEMMA PopEvents ==
  ASSUME NEW q \in [EventIds -> [Prio -> Seq(Tid)]], NEW st \in [Tid -> TaskState],
         NEW pr \in [Tid -> Prio], NEW e \in EventIds, NEW p \in Prio,
         q[e][p] # <<>>, EventsAgree(q, st, pr)
  PROVE  LET u == Head(q[e][p]) IN
         /\ u \in Tid /\ st[u] = "AWATIEVENT"
         /\ EventsAgree([q EXCEPT ![e] = ptask_queue_pop(q[e], p)],
                        [st EXCEPT ![u] = "READY"], pr)
<1> DEFINE u == Head(q[e][p])
           q2 == [q EXCEPT ![e] = ptask_queue_pop(q[e], p)]
           s2 == [st EXCEPT ![u] = "READY"]
<1>1. q[e] \in [Prio -> Seq(Tid)] /\ \A o \in Prio : NoRepeats(q[e][o])
  BY DEF EventsAgree
<1>2. q2[e] = ptask_queue_pop(q[e], p) /\ \A f \in EventIds : f # e => q2[f] = q[f]
  OBVIOUS
<1>3. /\ u \in Tid /\ InSeq(q[e][p], u)
      /\ \A o \in Prio, t \in Tid : InSeq(q2[e][o], t) <=> InSeq(q[e][o], t) /\ ~(o = p /\ t = u)
      /\ \A o \in Prio : NoRepeats(q2[e][o])
  BY <1>1, <1>2, PopQueue
<1>4. s2[u] = "READY" /\ \A t \in Tid : t # u => s2[t] = st[t]
  BY <1>3
<1> HIDE DEF q2, s2, u
<1>5. st[u] = "AWATIEVENT" /\ pr[u] = p
  BY <1>3 DEF EventsAgree
<1>6. \A f \in EventIds, o \in Prio : InSeq(q[f][o], u) => f = e /\ o = p
  BY <1>3, <1>5 DEF EventsAgree
<1>7. /\ \A f \in EventIds, o \in Prio : NoRepeats(q2[f][o])
      /\ \A t \in Tid, f \in EventIds, o \in Prio :
           InSeq(q2[f][o], t) <=> InSeq(q[f][o], t) /\ t # u
  <2>1. \A f \in EventIds, o \in Prio : NoRepeats(q2[f][o])
    BY <1>2, <1>3 DEF EventsAgree
  <2>2. ASSUME NEW t \in Tid, NEW f \in EventIds, NEW o \in Prio
        PROVE  InSeq(q2[f][o], t) <=> InSeq(q[f][o], t) /\ t # u
    <3>1. CASE f = e
      BY <1>3, <1>6, <3>1
    <3>2. CASE f # e
      BY <1>2, <1>6, <3>2
    <3>3. QED
      BY <3>1, <3>2
  <2>3. QED
    BY <2>1, <2>2
<1>8. /\ \A t \in Tid, f \in EventIds, o \in Prio : InSeq(q2[f][o], t) =>
           s2[t] = "AWATIEVENT" /\ pr[t] = o
      /\ \A t \in Tid, f, g \in EventIds, o \in Prio :
           InSeq(q2[f][o], t) /\ InSeq(q2[g][o], t) => f = g
  BY <1>4, <1>7 DEF EventsAgree
<1>9. ASSUME NEW t \in Tid, s2[t] = "AWATIEVENT"
      PROVE  \E f \in EventIds : InSeq(q2[f][pr[t]], t)
  <2>1. t # u /\ st[t] = "AWATIEVENT"
    BY <1>4, <1>9
  <2>2. pr[t] \in Prio /\ \E f \in EventIds : InSeq(q[f][pr[t]], t)
    BY <2>1 DEF EventsAgree
  <2>3. QED
    BY <1>7, <2>1, <2>2
<1>10. EventsAgree(q2, s2, pr)
  BY <1>7, <1>8, <1>9 DEF EventsAgree
<1>11. QED
  BY <1>3, <1>5, <1>10 DEF q2, s2, u

LEMMA AwaitKeeps ==
  ASSUME KernelInvariant, TypeOK', WellBehaved, NEW t \in Tid, sys_await_event(t)
  PROVE  KernelInvariant'
<1>1. mode = "user" /\ current_task = t /\ t # IdleTid
  BY DEF sys_await_event, Trap
<1>2. state[t] = "RUNNING" /\ t \in jobq
  BY <1>1, Running
<1>3. irqq_pool > 0
  BY <1>2, EventNodeFree
<1>4. PICK e \in EventIds :
        /\ state' = [state EXCEPT ![t] = "AWATIEVENT"]
        /\ irqq' = [irqq EXCEPT ![e] = ptask_queue_push(@, priority[t], t)]
        /\ irqq_pool' = irqq_pool - 1
        /\ SvcUser(t, NoArgs)
        /\ mode' = "kernel"
        /\ UNCHANGED <<jobq, priority, senders, readyq, readyq_pool, current_task>>
  BY <1>3 DEF sys_await_event, WellBehaved, EventIds, readyVars
<1>5. /\ state \in [Tid -> TaskState] /\ priority \in [Tid -> Prio] /\ args \in [Tid -> Args]
      /\ irqq \in [EventIds -> [Prio -> Seq(Tid)]]
      /\ "AWATIEVENT" \in TaskState /\ "AWATIEVENT" # "READY"
      /\ state[t] # "READY" /\ state[t] # "AWATIEVENT"
  BY <1>2 DEF KernelInvariant, TypeOK, TaskState
<1>6. QueueAgrees(readyq', state', priority')
  <2>1. QueueAgrees(readyq, [state EXCEPT ![t] = "AWATIEVENT"], priority)
    BY <1>5, OtherAgrees, Parts
  <2>2. QED
    BY <1>4, <2>1
<1>7. EventsAgree(irqq', state', priority')
  <2>1. EventsAgree([irqq EXCEPT ![e] = ptask_queue_push(@, priority[t], t)],
                    [state EXCEPT ![t] = "AWATIEVENT"], priority)
    BY <1>5, PushEvents, Parts
  <2>2. QED
    BY <1>4, <2>1
<1>8. /\ \A u \in Tid : u # t => state'[u] = state[u] /\ args'[u] = args[u]
      /\ state'[t] = "AWATIEVENT"
  BY <1>4, <1>5 DEF SvcUser
<1>9. SendersAgree(senders', state', args')
  <2>1. SendersAgree(senders, state, args) /\ state[t] # "WATISEND"
    BY <1>2, Parts
  <2>2. \A u \in Tid :
           \/ state'[u] = state[u] /\ args'[u] = args[u]
           \/ /\ state[u] # "WATISEND"
              /\ \/ state'[u] = "WATIREPLY" /\ args'[u].call = "send"
                 \/ state'[u] \notin {"WATISEND", "WATIREPLY", "WAITRECEIVE"}
    BY <1>8, <2>1
  <2>3. SendersAgree(senders, state', args')
    BY <2>1, <2>2, SendersMove
  <2>4. QED
    BY <1>4, <2>3
<1>10. /\ readyq_pool' = TASK_POOL_SIZE - CountIn(state', "READY")
       /\ irqq_pool' = TASK_POOL_SIZE - CountIn(state', "AWATIEVENT")
  <2>1. CountIn([state EXCEPT ![t] = "AWATIEVENT"], "READY") = CountIn(state, "READY")
    BY <1>5, SameCount
  <2>2. /\ CountIn(state, "AWATIEVENT") \in Nat
        /\ CountIn([state EXCEPT ![t] = "AWATIEVENT"], "AWATIEVENT")
             = CountIn(state, "AWATIEVENT") + 1
    BY <1>5, MovedCount
  <2>3. QED
    BY <1>4, <2>1, <2>2, Parts, PoolAssumption
<1>11. LiveTasksExact'
  BY <1>1, <1>2, <1>4, <1>8, TidFacts DEF KernelInvariant, LiveTasksExact
<1>12. NeverExits' /\ NoAssertionFailure'
  BY <1>1, <1>4, <1>8, TidFacts DEF KernelInvariant, NeverExits, NoAssertionFailure
<1>13. QED
  BY <1>6, <1>7, <1>9, <1>10, <1>11, <1>12, NextParts

LEMMA IrqKeeps ==
  ASSUME KernelInvariant, TypeOK', handle_irq
  PROVE  KernelInvariant'
<1> DEFINE q == irqq[WAIT_TIMER_1]
<1>1. /\ mode = "user" /\ current_task \in Tid /\ state[current_task] = "RUNNING"
      /\ current_task \in jobq
  BY Running DEF handle_irq
<1>2. WAIT_TIMER_1 \in EventIds /\ irqq \in [EventIds -> [Prio -> Seq(Tid)]]
      /\ state \in [Tid -> TaskState] /\ priority \in [Tid -> Prio] /\ args \in [Tid -> Args]
  BY DEF EventIds, KernelInvariant, TypeOK
<1>3. CASE ptask_queue_empty(q)
  <2>1. /\ Interrupted(current_task) /\ mode' = "kernel"
        /\ UNCHANGED <<jobq, state, priority, senders, readyq, readyq_pool, irqq,
                       irqq_pool, current_task>>
    BY <1>3 DEF handle_irq, taskVars, readyVars, irqVars
  <2>2. \A u \in Tid : u # current_task => args'[u] = args[u]
    BY <1>2, <2>1 DEF Interrupted
  <2>3. QED
    BY <1>1, <2>1, <2>2, QuietHandler
<1>4. CASE ~ptask_queue_empty(q)
  <2>1. PICK p \in Prio :
          /\ ptask_queue_first(q, p)
          /\ IF state[Head(q[p])] = "AWATIEVENT" /\ readyq_pool > 0
             THEN /\ Interrupted(current_task)
                  /\ irqq' = [irqq EXCEPT ![WAIT_TIMER_1] = ptask_queue_pop(q, p)]
                  /\ irqq_pool' = irqq_pool + 1
                  /\ PushReady(Head(q[p]))
                  /\ state' = [state EXCEPT ![Head(q[p])] = "READY"]
                  /\ mode' = "kernel"
                  /\ UNCHANGED <<priority, parent_tid, result, should_pass_result, senders>>
                  /\ UNCHANGED <<task_id_cnt, jobq, memVars, current_task>>
             ELSE Halt
    BY <1>4 DEF handle_irq
  <2> DEFINE u == Head(q[p])
  <2>2. q[p] # <<>>
    BY <2>1 DEF ptask_queue_first
  <2>3. /\ u \in Tid /\ state[u] = "AWATIEVENT"
        /\ EventsAgree([irqq EXCEPT ![WAIT_TIMER_1] = ptask_queue_pop(q, p)],
                       [state EXCEPT ![u] = "READY"], priority)
    BY <1>2, <2>2, PopEvents, Parts
  <2>4. readyq_pool > 0 /\ state[u] # "READY"
    BY <2>3, ReadyNodeFree
  <2>5. /\ Interrupted(current_task)
        /\ irqq' = [irqq EXCEPT ![WAIT_TIMER_1] = ptask_queue_pop(q, p)]
        /\ irqq_pool' = irqq_pool + 1
        /\ PushReady(u) /\ state' = [state EXCEPT ![u] = "READY"] /\ mode' = "kernel"
        /\ UNCHANGED <<priority, senders, jobq, current_task>>
    BY <2>1, <2>3, <2>4
  <2> HIDE DEF u, q
  <2>6. /\ QueueAgrees(readyq', state', priority')
        /\ readyq_pool' = TASK_POOL_SIZE - CountIn(state', "READY")
    BY <2>3, <2>4, <2>5, ReadyAfterPush
  <2>7. EventsAgree(irqq', state', priority')
    BY <2>3, <2>5
  <2>8. irqq_pool' = TASK_POOL_SIZE - CountIn(state', "AWATIEVENT")
    <3>1. "READY" \in TaskState /\ "READY" # "AWATIEVENT"
      BY DEF TaskState
    <3>2. /\ CountIn(state, "AWATIEVENT") \in Nat
          /\ CountIn([state EXCEPT ![u] = "READY"], "AWATIEVENT")
               = CountIn(state, "AWATIEVENT") - 1
      BY <1>2, <2>3, <3>1, MovedCount
    <3>3. QED
      BY <2>5, <3>2, Parts, PoolAssumption
  <2>9. /\ \A t \in Tid : t # u => state'[t] = state[t]
        /\ state'[u] = "READY" /\ u # current_task /\ state'[current_task] = "RUNNING"
        /\ \A t \in Tid : t # current_task => args'[t] = args[t]
    BY <1>1, <1>2, <2>3, <2>5 DEF Interrupted
  <2>10. SendersAgree(senders', state', args')
    <3>1. /\ SendersAgree(senders, state, args)
          /\ state[u] # "WATISEND" /\ state[current_task] # "WATISEND"
      BY <1>1, <2>3, Parts
    <3>2. \A t \in Tid :
             \/ state'[t] = state[t] /\ args'[t] = args[t]
             \/ /\ state[t] # "WATISEND"
                /\ \/ state'[t] = "WATIREPLY" /\ args'[t].call = "send"
                   \/ state'[t] \notin {"WATISEND", "WATIREPLY", "WAITRECEIVE"}
      BY <2>9, <3>1
    <3>3. SendersAgree(senders, state', args')
      BY <3>1, <3>2, SendersMove
    <3>4. QED
      BY <2>5, <3>3
  <2>11. LiveTasksExact'
    BY <1>1, <2>3, <2>5, <2>9, TidFacts DEF KernelInvariant, LiveTasksExact
  <2>12. NeverExits' /\ NoAssertionFailure'
    BY <2>3, <2>5, <2>9, TidFacts DEF KernelInvariant, NeverExits, NoAssertionFailure
  <2>13. QED
    BY <2>6, <2>7, <2>8, <2>10, <2>11, <2>12, NextParts
<1>5. QED
  BY <1>3, <1>4

\* The ready queue and states in the middle of schedule(): the task that trapped
\* has been put back if it was still RUNNING.
ScheduledState == IF StillRuns THEN [state EXCEPT ![current_task] = "READY"] ELSE state
ScheduledPool == IF StillRuns THEN readyq_pool - 1 ELSE readyq_pool

LEMMA PutBack ==
  ASSUME KernelInvariant, mode = "kernel"
  PROVE  /\ ScheduleAssertion /\ (StillRuns => readyq_pool > 0)
         /\ ScheduledReadyq \in [Prio -> Seq(Tid)] /\ ScheduledState \in [Tid -> TaskState]
         /\ QueueAgrees(ScheduledReadyq, ScheduledState, priority)
         /\ EventsAgree(irqq, ScheduledState, priority)
         /\ ScheduledPool = TASK_POOL_SIZE - CountIn(ScheduledState, "READY")
         /\ irqq_pool = TASK_POOL_SIZE - CountIn(ScheduledState, "AWATIEVENT")
         /\ \A t \in Tid : \/ ScheduledState[t] = state[t] /\ state[t] # "RUNNING"
                           \/ ScheduledState[t] = "READY" /\ state[t] = "RUNNING"
         /\ ~ptask_queue_empty(ScheduledReadyq)
<1>1. /\ state \in [Tid -> TaskState] /\ priority \in [Tid -> Prio]
      /\ readyq \in [Prio -> Seq(Tid)] /\ current_task \in Tid \cup {NoTask}
      /\ QueueAgrees(readyq, state, priority) /\ EventsAgree(irqq, state, priority)
      /\ readyq_pool = TASK_POOL_SIZE - CountIn(state, "READY")
      /\ irqq_pool = TASK_POOL_SIZE - CountIn(state, "AWATIEVENT")
      /\ \A t \in Tid : state[t] = "RUNNING" => current_task = t
      /\ current_task # NoTask => state[current_task] \notin {"READY", "INITIALIZED"}
  BY Parts DEF KernelInvariant, TypeOK, LiveTasksExact
<1>2. ScheduleAssertion
  BY <1>1, TidFacts DEF ScheduleAssertion
<1>3. CASE StillRuns
  <2>1. current_task \in Tid /\ state[current_task] = "RUNNING" /\ state[current_task] # "READY"
        /\ state[current_task] # "AWATIEVENT" /\ "READY" \in TaskState /\ "READY" # "AWATIEVENT"
    BY <1>1, <1>3 DEF StillRuns, TaskState
  <2>2. /\ ScheduledState = [state EXCEPT ![current_task] = "READY"]
        /\ ScheduledReadyq = ptask_queue_push(readyq, priority[current_task], current_task)
        /\ ScheduledPool = readyq_pool - 1
    BY <1>3 DEF ScheduledState, ScheduledReadyq, ScheduledPool
  <2>3. readyq_pool > 0
    BY <2>1, ReadyNodeFree
  <2>4. /\ QueueAgrees(ScheduledReadyq, ScheduledState, priority)
        /\ ScheduledReadyq \in [Prio -> Seq(Tid)]
    <3>1. priority[current_task] \in Prio
      BY <1>1, <2>1
    <3>2. QED
      BY <1>1, <2>1, <2>2, <3>1, PushAgrees, QueueTypes
  <2>5. EventsAgree(irqq, ScheduledState, priority)
    <3>1. EventsAgree(irqq, [state EXCEPT ![current_task] = "READY"], priority)
      BY <1>1, <2>1, OtherEventsAgree
    <3>2. QED
      BY <2>2, <3>1
  <2>6. /\ ScheduledPool = TASK_POOL_SIZE - CountIn(ScheduledState, "READY")
        /\ irqq_pool = TASK_POOL_SIZE - CountIn(ScheduledState, "AWATIEVENT")
    <3>1. /\ CountIn(state, "READY") \in Nat
          /\ CountIn([state EXCEPT ![current_task] = "READY"], "READY")
               = CountIn(state, "READY") + 1
      BY <1>1, <2>1, MovedCount
    <3>2. CountIn([state EXCEPT ![current_task] = "READY"], "AWATIEVENT")
            = CountIn(state, "AWATIEVENT")
      BY <1>1, <2>1, SameCount
    <3>3. QED
      BY <1>1, <2>2, <3>1, <3>2, PoolAssumption
  <2>7. /\ ScheduledState \in [Tid -> TaskState]
        /\ \A t \in Tid : \/ ScheduledState[t] = state[t] /\ state[t] # "RUNNING"
                          \/ ScheduledState[t] = "READY" /\ state[t] = "RUNNING"
    BY <1>1, <2>1, <2>2
  <2>8. ~ptask_queue_empty(ScheduledReadyq)
    <3>1. priority[current_task] \in Prio /\ ScheduledState[current_task] = "READY"
      BY <1>1, <2>1, <2>2
    <3>2. InSeq(ScheduledReadyq[priority[current_task]], current_task)
      BY <2>1, <2>4, <3>1 DEF QueueAgrees
    <3>3. ScheduledReadyq[priority[current_task]] # <<>>
      BY <2>1, <3>2 DEF InSeq
    <3>4. QED
      BY <3>1, <3>3 DEF ptask_queue_empty
  <2>9. QED
    BY <1>2, <2>3, <2>4, <2>5, <2>6, <2>7, <2>8
<1>4. CASE ~StillRuns
  <2>1. ScheduledState = state /\ ScheduledReadyq = readyq /\ ScheduledPool = readyq_pool
    BY <1>4 DEF ScheduledState, ScheduledReadyq, ScheduledPool
  <2>2. \A t \in Tid : state[t] # "RUNNING"
    BY <1>1, <1>4, TidFacts DEF StillRuns
  <2>3. ~ptask_queue_empty(readyq)
    <3>1. state[IdleTid] = "READY" /\ priority[IdleTid] \in Prio
      BY <1>1, <2>2, TidFacts DEF KernelInvariant, NeverExits
    <3>2. InSeq(readyq[priority[IdleTid]], IdleTid)
      BY <1>1, <3>1, TidFacts DEF QueueAgrees
    <3>3. readyq[priority[IdleTid]] # <<>>
      BY <3>2 DEF InSeq
    <3>4. QED
      BY <3>1, <3>3 DEF ptask_queue_empty
  <2>4. QED
    BY <1>1, <1>2, <1>4, <2>1, <2>2, <2>3
<1>5. QED
  BY <1>3, <1>4

LEMMA ScheduleKeeps ==
  ASSUME KernelInvariant, TypeOK', schedule
  PROVE  KernelInvariant' /\ PriorityRespected'
<1>1. mode = "kernel"
  BY DEF schedule
<1>2. /\ ScheduleAssertion /\ (StillRuns => readyq_pool > 0)
      /\ ScheduledReadyq \in [Prio -> Seq(Tid)] /\ ScheduledState \in [Tid -> TaskState]
      /\ QueueAgrees(ScheduledReadyq, ScheduledState, priority)
      /\ EventsAgree(irqq, ScheduledState, priority)
      /\ ScheduledPool = TASK_POOL_SIZE - CountIn(ScheduledState, "READY")
      /\ irqq_pool = TASK_POOL_SIZE - CountIn(ScheduledState, "AWATIEVENT")
      /\ \A t \in Tid : \/ ScheduledState[t] = state[t] /\ state[t] # "RUNNING"
                        \/ ScheduledState[t] = "READY" /\ state[t] = "RUNNING"
      /\ ~ptask_queue_empty(ScheduledReadyq)
  BY <1>1, PutBack
<1>3. readyq_pool \in Int /\ ~(StillRuns /\ readyq_pool = 0)
  BY <1>2 DEF KernelInvariant, TypeOK
<1>4. PICK p \in Prio :
        LET t == Head(ScheduledReadyq[p]) IN
        /\ ptask_queue_first(ScheduledReadyq, p)
        /\ readyq' = ptask_queue_pop(ScheduledReadyq, p)
        /\ readyq_pool' = ScheduledPool + 1
        /\ state' = [ScheduledState EXCEPT ![t] = "RUNNING"]
        /\ current_task' = t
        /\ args' = [args EXCEPT ![t] = NoArgs]
        /\ mode' = IF t \in jobq THEN "user" ELSE "wild"
        /\ UNCHANGED <<task_id_cnt, jobq, priority, parent_tid, result,
                       should_pass_result, senders, memVars, buffer, irqVars>>
  BY <1>2, <1>3 DEF schedule, ScheduledPool, ScheduledState
<1> DEFINE t == Head(ScheduledReadyq[p])
<1>5. ScheduledReadyq[p] # <<>> /\ \A o \in Prio : o > p => ScheduledReadyq[o] = <<>>
  BY <1>4 DEF ptask_queue_first
<1>6. /\ readyq' = ptask_queue_pop(ScheduledReadyq, p) /\ readyq_pool' = ScheduledPool + 1
      /\ state' = [ScheduledState EXCEPT ![t] = "RUNNING"] /\ current_task' = t
      /\ args' = [args EXCEPT ![t] = NoArgs]
      /\ mode' = IF t \in jobq THEN "user" ELSE "wild"
      /\ UNCHANGED <<jobq, priority, senders, irqq, irqq_pool>>
  BY <1>4 DEF irqVars
<1>7. /\ priority \in [Tid -> Prio] /\ args \in [Tid -> Args] /\ state \in [Tid -> TaskState]
      /\ "RUNNING" \in TaskState /\ "RUNNING" # "READY" /\ "RUNNING" # "AWATIEVENT"
  BY DEF KernelInvariant, TypeOK, TaskState
<1>8. /\ t \in Tid /\ ScheduledState[t] = "READY" /\ priority[t] = p
      /\ QueueAgrees(ptask_queue_pop(ScheduledReadyq, p),
                     [ScheduledState EXCEPT ![t] = "RUNNING"], priority)
  BY <1>2, <1>5, <1>7, PopAgrees
<1> HIDE DEF t
<1>9. QueueAgrees(readyq', state', priority')
  BY <1>6, <1>8
<1>10. ScheduledState[t] # "AWATIEVENT"
  BY <1>8
<1>11. EventsAgree(irqq', state', priority')
  <2>1. EventsAgree(irqq, [ScheduledState EXCEPT ![t] = "RUNNING"], priority)
    BY <1>2, <1>7, <1>8, <1>10, OtherEventsAgree
  <2>2. QED
    BY <1>6, <2>1
<1>12. /\ readyq_pool' = TASK_POOL_SIZE - CountIn(state', "READY")
       /\ irqq_pool' = TASK_POOL_SIZE - CountIn(state', "AWATIEVENT")
  <2>1. /\ CountIn(ScheduledState, "READY") \in Nat
        /\ CountIn([ScheduledState EXCEPT ![t] = "RUNNING"], "READY")
             = CountIn(ScheduledState, "READY") - 1
    BY <1>2, <1>7, <1>8, MovedCount
  <2>2. CountIn([ScheduledState EXCEPT ![t] = "RUNNING"], "AWATIEVENT")
          = CountIn(ScheduledState, "AWATIEVENT")
    BY <1>2, <1>7, <1>8, <1>10, SameCount
  <2>3. QED
    BY <1>2, <1>6, <2>1, <2>2, PoolAssumption
<1>13. /\ state'[t] = "RUNNING"
       /\ \A u \in Tid : u # t =>
            /\ state'[u] # "RUNNING" /\ args'[u] = args[u]
            /\ \/ state'[u] = state[u]
               \/ state'[u] = "READY" /\ state[u] = "RUNNING"
       /\ state[t] \in {"READY", "RUNNING"}
  <2>1. state'[t] = "RUNNING" /\ \A u \in Tid : u # t => state'[u] = ScheduledState[u]
    BY <1>2, <1>6, <1>8
  <2>2. \A u \in Tid : u # t => args'[u] = args[u]
    BY <1>6, <1>7
  <2>3. state[t] \in {"READY", "RUNNING"}
    BY <1>2, <1>8
  <2>4. QED
    BY <1>2, <2>1, <2>2, <2>3
<1>14. SendersAgree(senders', state', args')
  <2>1. SendersAgree(senders, state, args)
    BY Parts
  <2>2. \A u \in Tid :
           \/ state'[u] = state[u] /\ args'[u] = args[u]
           \/ /\ state[u] # "WATISEND"
              /\ \/ state'[u] = "WATIREPLY" /\ args'[u].call = "send"
                 \/ state'[u] \notin {"WATISEND", "WATIREPLY", "WAITRECEIVE"}
    BY <1>13
  <2>3. SendersAgree(senders, state', args')
    BY <2>1, <2>2, SendersMove
  <2>4. QED
    BY <1>6, <2>3
<1>15. t \in jobq /\ mode' = "user"
  BY <1>6, <1>8, <1>13 DEF KernelInvariant, LiveTasksExact
<1>16. LiveTasksExact'
  BY <1>6, <1>8, <1>13, <1>15, TidFacts DEF KernelInvariant, LiveTasksExact
<1>17. NeverExits' /\ NoAssertionFailure'
  BY <1>8, <1>13, <1>15, TidFacts DEF KernelInvariant, NeverExits, NoAssertionFailure
<1>18. KernelInvariant'
  BY <1>9, <1>11, <1>12, <1>14, <1>16, <1>17, NextParts
<1>19. PriorityRespected'
  <2>1. SUFFICES ASSUME NEW u \in jobq, state'[u] = "READY"
                 PROVE  priority[u] <= priority[t]
    BY <1>6 DEF PriorityRespected
  <2>2. u \in Tid /\ ScheduledState[u] = "READY" /\ priority[u] \in Prio
    BY <1>2, <1>6, <1>7, <1>8, <2>1 DEF KernelInvariant, LiveTasksExact
  <2>3. InSeq(ScheduledReadyq[priority[u]], u)
    BY <1>2, <2>2 DEF QueueAgrees
  <2>4. ScheduledReadyq[priority[u]] # <<>>
    BY <2>3 DEF InSeq
  <2>5. ~(priority[u] > p)
    BY <1>5, <2>2, <2>4
  <2>6. QED
    BY <1>8, <2>2, <2>5 DEF Prio, TASK_PRIORITY_MIN
<1>20. QED
  BY <1>18, <1>19

-----------------------------------------------------------------------------
(* The theorems.                                                           *)

LEMMA NextInvariant ==
  ASSUME WellBehaved, KernelInvariant, [Next]_vars
  PROVE  KernelInvariant'
<1>1. TypeOK'
  BY NextType DEF KernelInvariant
<1>2. CASE UNCHANGED vars
  <2>1. UNCHANGED <<task_id_cnt, jobq, state, priority, parent_tid, result,
                    should_pass_result, senders, args, readyq, readyq_pool, irqq, irqq_pool,
                    current_task, mode>>
    BY <1>2 DEF vars, taskVars, userVars, readyVars, irqVars
  <2>2. ReadyQueueExact' /\ EventQueuesExact' /\ SenderQueuesExact'
    BY <2>1 DEF KernelInvariant, ReadyQueueExact, EventQueuesExact, SenderQueuesExact
  <2>3. LiveTasksExact' /\ NodePoolsBalanced' /\ NeverExits' /\ NoAssertionFailure'
    BY <2>1 DEF KernelInvariant, LiveTasksExact, NodePoolsBalanced, NeverExits,
                NoAssertionFailure
  <2>4. QED
    BY <1>1, <2>2, <2>3 DEF KernelInvariant
<1>3. CASE schedule
  BY <1>1, <1>3, ScheduleKeeps
<1>4. CASE handle_irq
  BY <1>1, <1>4, IrqKeeps
<1>5. ASSUME NEW t \in Tid, TaskStep(t) PROVE KernelInvariant'
  BY <1>1, <1>5, CreateKeeps, QuietKeeps, FaultKeeps, ExitKeeps, SendDeliverKeeps,
     SendQueueKeeps, ReceiveBlockKeeps, ReceiveUnknownKeeps, ReceiveDeliverKeeps,
     ReplyKeeps, AwaitKeeps DEF TaskStep, WellBehaved
<1>6. QED
  BY <1>2, <1>3, <1>4, <1>5 DEF Next

\* Queues, task states, node pools and the task list agree in every reachable
\* state, for any number of tasks and priorities, while programs use the kernel
\* as intended.
THEOREM KernelInvariantHolds == WellBehaved => (Spec => []KernelInvariant)
<1> SUFFICES ASSUME WellBehaved PROVE Spec => []KernelInvariant
  OBVIOUS
<1>1. KernelInvariant /\ [Next]_vars => KernelInvariant'
  BY NextInvariant
<1>2. QED
  BY <1>1, InitInvariant, PTL DEF Spec

\* No assertion of the kernel fails, nothing undefined happens, and the kernel
\* never runs out of tasks to run.
THEOREM KernelSafe ==
  WellBehaved => (Spec => [](NoAssertionFailure /\ NeverExits))
<1> SUFFICES ASSUME WellBehaved PROVE Spec => [](NoAssertionFailure /\ NeverExits)
  OBVIOUS
<1>1. KernelInvariant => NoAssertionFailure /\ NeverExits
  BY DEF KernelInvariant
<1>2. Spec => []KernelInvariant
  BY KernelInvariantHolds
<1>3. QED
  BY <1>1, <1>2, PTL

\* Every trap ends in the kernel: only schedule() lets a task run.
LEMMA TrapsLeaveUser ==
  ASSUME \/ handle_irq
         \/ \E t \in Tid : TaskStep(t)
  PROVE  mode' # "user"
<1>h. Halt \/ Wild => mode' # "user"
  BY DEF Halt, Wild
<1>1. ASSUME NEW t \in Tid,
             \/ sys_tid(t) \/ sys_parent_tid(t) \/ sys_yield(t) \/ sys_exit(t)
             \/ sys_send_unknown(t) \/ sys_send_queue(t) \/ sys_receive_block(t)
             \/ sys_receive_unknown(t) \/ sys_reply_unknown(t) \/ unsupported_exception(t)
      PROVE  mode' = "kernel"
  BY <1>1 DEF sys_tid, sys_parent_tid, Query, sys_yield, sys_exit, sys_send_unknown,
     sys_send_queue, sys_receive_block, sys_receive_unknown, sys_reply_unknown,
     unsupported_exception
<1>2. ASSUME NEW t \in Tid, sys_create(t) PROVE mode' = "kernel" \/ Halt
  BY <1>2 DEF sys_create
<1>3. ASSUME NEW t \in Tid, sys_send_deliver(t) PROVE mode' = "kernel" \/ Halt
  BY <1>3 DEF sys_send_deliver
<1>4. ASSUME NEW t \in Tid, sys_receive_deliver(t) PROVE mode' = "kernel" \/ Halt \/ Wild
  BY <1>4 DEF sys_receive_deliver
<1>5. ASSUME NEW t \in Tid, sys_reply(t) PROVE mode' = "kernel" \/ Halt \/ Wild
  BY <1>5 DEF sys_reply, reply_to
<1>6. ASSUME NEW t \in Tid, sys_await_event(t) PROVE mode' = "kernel" \/ Halt
  BY <1>6 DEF sys_await_event
<1>7. ASSUME handle_irq PROVE mode' = "kernel" \/ Halt
  BY <1>7 DEF handle_irq
<1>8. QED
  BY <1>h, <1>1, <1>2, <1>3, <1>4, <1>5, <1>6, <1>7 DEF TaskStep

\* The task that runs always has the highest priority of the tasks that could:
\* no handler makes a task READY that should already be running.
THEOREM HighestPriorityRuns == WellBehaved => (Spec => []PriorityRespected)
<1> SUFFICES ASSUME WellBehaved PROVE Spec => []PriorityRespected
  OBVIOUS
<1>1. Init => PriorityRespected
  BY DEF Init, PriorityRespected
<1>2. KernelInvariant /\ KernelInvariant' /\ PriorityRespected /\ [Next]_vars => PriorityRespected'
  <2> SUFFICES ASSUME KernelInvariant, KernelInvariant', PriorityRespected, [Next]_vars
               PROVE  PriorityRespected'
    OBVIOUS
  <2>1. CASE schedule
    BY <2>1, ScheduleKeeps DEF KernelInvariant
  <2>2. CASE handle_irq \/ \E t \in Tid : TaskStep(t)
    BY <2>2, TrapsLeaveUser DEF PriorityRespected
  <2>3. CASE UNCHANGED vars
    BY <2>3 DEF vars, taskVars, PriorityRespected
  <2>4. QED
    BY <2>1, <2>2, <2>3 DEF Next
<1>3. Spec => []KernelInvariant
  BY KernelInvariantHolds
<1>4. QED
  BY <1>1, <1>2, <1>3, PTL DEF Spec

\* A ring with a slot per task never fills up: the caller and the idle task are
\* in no sender queue.
LEMMA RoomInSenders == KernelInvariant => SenderQueueHasRoom
<1>1. SUFFICES ASSUME KernelInvariant, mode = "user", current_task # IdleTid, NEW r \in jobq
               PROVE  Len(senders[r]) < MAX_SENDER_CAPACITY - 1
  <2>1. \A r \in jobq : Len(senders[r]) < MAX_SENDER_CAPACITY - 1
                          => ~queue_is_full(senders[r])
    BY CapacityAssumption, PoolAssumption DEF queue_is_full
  <2>2. QED
    BY <2>1 DEF SenderQueueHasRoom
<1> DEFINE q == senders[r]
           W == (Tid \ {current_task}) \ {IdleTid}
<1>2. r \in Tid /\ q \in Seq(Tid) /\ NoRepeats(q)
  BY <1>1 DEF KernelInvariant, TypeOK, LiveTasksExact, SenderQueuesExact
<1>3. current_task \in Tid /\ IdleTid \in Tid /\ current_task # IdleTid
  BY <1>1, Running, TidFacts
<1>4. \A u \in Tid : InSeq(q, u) => u # current_task /\ u # IdleTid
  BY <1>1, <1>2, Running DEF KernelInvariant, SenderQueuesExact, NeverExits
<1>5. IsFiniteSet(W) /\ Cardinality(W) = TASK_POOL_SIZE - 2
  <2>1. IsFiniteSet(Tid) /\ Cardinality(Tid) = TASK_POOL_SIZE
    BY TidFinite
  <2>2. /\ IsFiniteSet(Tid \ {current_task})
        /\ Cardinality(Tid \ {current_task}) = TASK_POOL_SIZE - 1
    BY <1>3, <2>1, FS_RemoveElement
  <2>3. IdleTid \in Tid \ {current_task}
    BY <1>3
  <2>4. /\ IsFiniteSet((Tid \ {current_task}) \ {IdleTid})
        /\ Cardinality((Tid \ {current_task}) \ {IdleTid})
             = Cardinality(Tid \ {current_task}) - 1
    BY <2>2, <2>3, FS_RemoveElement
  <2>5. QED
    BY <2>2, <2>4, PoolAssumption
<1> HIDE DEF q
<1>6. Len(q) \in Nat /\ q \in [1 .. Len(q) -> Tid]
  BY <1>2
<1>7. \A i \in 1 .. Len(q) : q[i] \in W
  BY <1>4, <1>6 DEF InSeq
<1>8. q \in Injection(1 .. Len(q), W)
  BY <1>2, <1>6, <1>7 DEF Injection, IsInjective, NoRepeats
<1> HIDE DEF W
<1>9. Cardinality(1 .. Len(q)) <= Cardinality(W)
  BY <1>5, <1>8, FS_Injection
<1>10. Cardinality(1 .. Len(q)) = Len(q)
  BY <1>6, FS_Interval
<1>11. QED
  BY <1>5, <1>6, <1>9, <1>10, CapacityAssumption, PoolAssumption DEF q

\* A program can always send: no sender queue is full.
THEOREM SendersHaveRoom == WellBehaved => (Spec => []SenderQueueHasRoom)
<1> SUFFICES ASSUME WellBehaved PROVE Spec => []SenderQueueHasRoom
  OBVIOUS
<1>1. Spec => []KernelInvariant
  BY KernelInvariantHolds
<1>2. QED
  BY <1>1, RoomInSenders, PTL

-----------------------------------------------------------------------------
(* Stacks, whatever programs do.                                           *)

StackInvariant == TypeOK /\ StackOwnership /\ (mode = "user" => current_task \in jobq)

\* Only Create and Exit touch the task list and the stack blocks.
LEMMA StacksUntouched ==
  ASSUME \/ handle_irq \/ schedule
         \/ \E t \in Tid : TaskStep(t) /\ ~sys_create(t) /\ ~sys_exit(t)
  PROVE  UNCHANGED <<jobq, memory_block, memory_blocks_used>>
<1>h. Halt \/ Wild => UNCHANGED <<jobq, memory_block, memory_blocks_used>>
  BY DEF Halt, Wild, memVars
<1>1. ASSUME NEW t \in Tid,
             \/ sys_tid(t) \/ sys_parent_tid(t) \/ sys_yield(t)
             \/ sys_send_unknown(t) \/ sys_send_queue(t) \/ sys_receive_block(t)
             \/ sys_receive_unknown(t) \/ sys_reply_unknown(t) \/ unsupported_exception(t)
      PROVE  UNCHANGED <<jobq, memory_block, memory_blocks_used>>
  BY <1>1 DEF sys_tid, sys_parent_tid, Query, sys_yield, sys_send_unknown, sys_send_queue,
     sys_receive_block, sys_receive_unknown, sys_reply_unknown, unsupported_exception, memVars
<1>2. ASSUME NEW t \in Tid, sys_send_deliver(t)
      PROVE  Halt \/ UNCHANGED <<jobq, memory_block, memory_blocks_used>>
  BY <1>2 DEF sys_send_deliver, memVars
<1>3. ASSUME NEW t \in Tid, sys_receive_deliver(t)
      PROVE  Halt \/ Wild \/ UNCHANGED <<jobq, memory_block, memory_blocks_used>>
  BY <1>3 DEF sys_receive_deliver, memVars
<1>4. ASSUME NEW t \in Tid, sys_reply(t)
      PROVE  Halt \/ Wild \/ UNCHANGED <<jobq, memory_block, memory_blocks_used>>
  BY <1>4 DEF sys_reply, reply_to, memVars
<1>5. ASSUME NEW t \in Tid, sys_await_event(t)
      PROVE  Halt \/ UNCHANGED <<jobq, memory_block, memory_blocks_used>>
  BY <1>5 DEF sys_await_event, memVars
<1>6. ASSUME handle_irq
      PROVE  Halt \/ UNCHANGED <<jobq, memory_block, memory_blocks_used>>
  BY <1>6 DEF handle_irq, memVars
<1>7. ASSUME schedule
      PROVE  Halt \/ UNCHANGED <<jobq, memory_block, memory_blocks_used>>
  BY <1>7 DEF schedule, memVars
<1>8. QED
  BY <1>h, <1>1, <1>2, <1>3, <1>4, <1>5, <1>6, <1>7 DEF TaskStep

\* A block is free while a task slot is: the live tasks use fewer than there are.
LEMMA BlockFree ==
  ASSUME TypeOK, StackOwnership, Cardinality(jobq) < TASK_POOL_SIZE
  PROVE  memory_blocks_used # Blocks
<1>1. jobq \subseteq Tid
  BY PoolAssumption DEF TypeOK, Tid
<1>2. IsFiniteSet(jobq) /\ Cardinality(jobq) \in Nat
  BY <1>1, TidFinite
<1>3. IsFiniteSet(Blocks) /\ Cardinality(Blocks) = MEMORY_BLOCK_MAX_NUM
  <2>1. 0 \in Int /\ MEMORY_BLOCK_MAX_NUM - 1 \in Int
    BY CapacityAssumption
  <2>2. /\ IsFiniteSet(0 .. MEMORY_BLOCK_MAX_NUM - 1)
        /\ Cardinality(0 .. MEMORY_BLOCK_MAX_NUM - 1)
             = IF 0 > MEMORY_BLOCK_MAX_NUM - 1 THEN 0 ELSE MEMORY_BLOCK_MAX_NUM - 1 - 0 + 1
    BY <2>1, FS_Interval
  <2>3. QED
    BY <2>2, CapacityAssumption, PoolAssumption DEF Blocks
<1>4. SUFFICES ASSUME memory_blocks_used = Blocks PROVE FALSE
  OBVIOUS
<1> DEFINE f == [t \in jobq |-> memory_block[t]]
<1>5. f \in Surjection(jobq, Blocks)
  BY <1>4 DEF StackOwnership, Surjection
<1>6. Cardinality(Blocks) <= Cardinality(jobq)
  BY <1>2, <1>5, FS_Surjection
<1>7. QED
  BY <1>2, <1>3, <1>6, CapacityAssumption, PoolAssumption

LEMMA CreateStacks ==
  ASSUME StackInvariant, NEW t \in Tid, sys_create(t)
  PROVE  StackOwnership'
<1>1. CASE UNCHANGED <<jobq, memory_block, memory_blocks_used>>
  BY <1>1 DEF StackOwnership, StackInvariant
<1>2. CASE ~UNCHANGED <<jobq, memory_block, memory_blocks_used>>
  <2>1. /\ task_id_cnt # TASK_POOL_SIZE /\ Cardinality(jobq) < TASK_POOL_SIZE
        /\ \E v \in CreatePriorities, b \in Blocks \cup {NoBlock} :
             /\ memory_allocate_block(b)
             /\ create_task(i32_clamp(v, TASK_PRIORITY_MIN, TASK_PRIORITY_MAX - 1), t, b)
    BY <1>2 DEF sys_create, Halt, memVars
  <2>2. PICK b \in Blocks \cup {NoBlock} :
          /\ memory_allocate_block(b)
          /\ jobq' = jobq \cup {task_id_cnt}
          /\ memory_block' = [memory_block EXCEPT ![task_id_cnt] = b]
          /\ memory_blocks_used' = memory_blocks_used \cup ({b} \ {NoBlock})
    BY <2>1 DEF create_task
  <2>3. memory_blocks_used # Blocks
    BY <2>1, BlockFree DEF StackInvariant
  <2>4. b # NoBlock /\ b \notin memory_blocks_used
    BY <2>2, <2>3 DEF memory_allocate_block
  <2>5. task_id_cnt \in Tid /\ task_id_cnt \notin jobq /\ jobq \subseteq Tid
    <3>1. task_id_cnt \in 2 .. TASK_POOL_SIZE /\ jobq \subseteq 0 .. task_id_cnt - 1
      BY DEF StackInvariant, TypeOK
    <3>2. task_id_cnt \in Tid /\ task_id_cnt \notin 0 .. task_id_cnt - 1
      BY <2>1, <3>1, PoolAssumption DEF Tid
    <3>3. 0 .. task_id_cnt - 1 \subseteq Tid
      BY <3>1, PoolAssumption DEF Tid
    <3>4. QED
      BY <3>1, <3>2, <3>3
  <2>6. /\ memory_block'[task_id_cnt] = b
        /\ \A u \in jobq : memory_block'[u] = memory_block[u]
    BY <2>2, <2>5 DEF StackInvariant, TypeOK
  <2>7. \A u \in jobq : memory_block[u] \in memory_blocks_used
    BY DEF StackInvariant, StackOwnership
  <2>8. memory_blocks_used' = {memory_block'[u] : u \in jobq'}
    <3>1. memory_blocks_used = {memory_block[u] : u \in jobq}
      BY DEF StackInvariant, StackOwnership
    <3>2. memory_blocks_used' = memory_blocks_used \cup {b}
      BY <2>2, <2>4
    <3>3. QED
      BY <2>2, <2>6, <3>1, <3>2
  <2>9. /\ \A u \in jobq' : memory_block'[u] # NoBlock
        /\ \A u, w \in jobq' : memory_block'[u] = memory_block'[w] => u = w
    BY <2>2, <2>4, <2>6, <2>7 DEF StackInvariant, StackOwnership
  <2>10. QED
    BY <2>8, <2>9 DEF StackOwnership
<1>3. QED
  BY <1>1, <1>2

LEMMA ExitStacks ==
  ASSUME StackInvariant, NEW t \in Tid, sys_exit(t)
  PROVE  StackOwnership'
<1>1. /\ mode = "user" /\ current_task = t /\ jobq' = jobq \ {t}
      /\ memory_blocks_used' = memory_blocks_used \ {memory_block[t]}
      /\ memory_block' = [memory_block EXCEPT ![t] = NoBlock]
  BY DEF sys_exit, Trap, task_init, memory_free_block
<1>2. t \in jobq /\ jobq \subseteq Tid
  BY <1>1, PoolAssumption DEF StackInvariant, TypeOK, Tid
<1>3. \A u \in jobq' : memory_block'[u] = memory_block[u]
  BY <1>1, <1>2 DEF StackInvariant, TypeOK
<1>4. QED
  BY <1>1, <1>2, <1>3 DEF StackInvariant, StackOwnership

\* Every live task owns a stack block of its own and no block leaks, for any
\* programs, also ones that misuse Reply or await events that do not exist.
THEOREM StacksOwned == Spec => []StackOwnership
<1>1. Init => StackInvariant
  <2>1. FirstTid # IdleTid /\ FirstTid # NoBlock /\ IdleTid # NoBlock
    BY DEF FirstTid, IdleTid, NoBlock
  <2>2. Init => StackOwnership
    BY <2>1, TidFacts DEF Init, StackOwnership
  <2>3. QED
    BY <2>2, InitType DEF StackInvariant, Init
<1>2. StackInvariant /\ [Next]_vars => StackInvariant'
  <2> SUFFICES ASSUME StackInvariant, [Next]_vars PROVE StackInvariant'
    OBVIOUS
  <2>1. TypeOK'
    BY NextType DEF StackInvariant
  <2>2. CASE UNCHANGED vars
    BY <2>1, <2>2 DEF vars, memVars, StackInvariant, StackOwnership
  <2>3. CASE schedule
    <3>1. StackOwnership'
      BY <2>3, StacksUntouched DEF StackInvariant, StackOwnership
    <3>2. mode' = "user" => current_task' \in jobq'
      BY <2>3 DEF schedule, Halt
    <3>3. QED
      BY <2>1, <3>1, <3>2 DEF StackInvariant
  <2>4. CASE handle_irq
    BY <2>1, <2>4, StacksUntouched, TrapsLeaveUser DEF StackInvariant, StackOwnership
  <2>5. ASSUME NEW t \in Tid, TaskStep(t) PROVE StackInvariant'
    <3>1. StackOwnership'
      <4>1. CASE ~sys_create(t) /\ ~sys_exit(t)
        BY <2>5, <4>1, StacksUntouched DEF StackInvariant, StackOwnership
      <4>2. QED
        BY <4>1, CreateStacks, ExitStacks
    <3>2. QED
      BY <2>1, <2>5, <3>1, TrapsLeaveUser DEF StackInvariant
  <2>6. QED
    BY <2>2, <2>3, <2>4, <2>5 DEF Next
<1>3. StackInvariant => StackOwnership
  BY DEF StackInvariant
<1>4. QED
  BY <1>1, <1>2, <1>3, PTL DEF Spec

-----------------------------------------------------------------------------
(* The kernel implements MessagePassing.                                   *)

\* What each task state is to programs.
StatesMapped ==
  \A t \in Tid :
    /\ state[t] = "INITIALIZED" => Phase[t] = "none" /\ Room[t] = 0
    /\ state[t] = "WATISEND" => Phase[t] = "sending" /\ Room[t] = args[t].reply_len
    /\ state[t] = "WAITRECEIVE" => Phase[t] = "receiving" /\ Room[t] = args[t].msg_len
    /\ state[t] = "WATIREPLY" => Phase[t] = "awaiting" /\ Room[t] = args[t].reply_len
    /\ state[t] \in {"READY", "RUNNING", "AWATIEVENT"} => Phase[t] = "free" /\ Room[t] = 0

\* The message a task in a sender queue stands for.
MessageOf(s) == [from |-> s, msg |-> args[s].msg, len |-> args[s].msg_len]

\* A mailbox is as long as the sender queue and holds the message of each sender.
MailboxesMapped ==
  \A r \in Tid :
    /\ Mailbox[r] \in Seq(Message) /\ Len(Mailbox[r]) = Len(senders[r])
    /\ \A i \in 1 .. Len(senders[r]) : Mailbox[r][i] = MessageOf(senders[r][i])
    /\ Mailbox[r] = <<>> <=> senders[r] = <<>>
    /\ senders[r] # <<>> => Head(Mailbox[r]) = MessageOf(Head(senders[r]))

\* Phase, Room and Mailbox are functions on Tid.
FunctionsMapped ==
  /\ Phase = [t \in Tid |-> Phase[t]] /\ Room = [t \in Tid |-> Room[t]]
  /\ Mailbox = [t \in Tid |-> Mailbox[t]]

LEMMA Mapped == TypeOK => StatesMapped /\ MailboxesMapped /\ FunctionsMapped
<1> SUFFICES ASSUME TypeOK PROVE StatesMapped /\ MailboxesMapped /\ FunctionsMapped
  OBVIOUS
<1>1. StatesMapped
  <2> SUFFICES ASSUME NEW t \in Tid
               PROVE  /\ state[t] = "INITIALIZED" => Phase[t] = "none" /\ Room[t] = 0
                      /\ state[t] = "WATISEND" =>
                           Phase[t] = "sending" /\ Room[t] = args[t].reply_len
                      /\ state[t] = "WAITRECEIVE" =>
                           Phase[t] = "receiving" /\ Room[t] = args[t].msg_len
                      /\ state[t] = "WATIREPLY" =>
                           Phase[t] = "awaiting" /\ Room[t] = args[t].reply_len
                      /\ state[t] \in {"READY", "RUNNING", "AWATIEVENT"} =>
                           Phase[t] = "free" /\ Room[t] = 0
    BY DEF StatesMapped
  <2>1. Phase[t] = CASE state[t] = "INITIALIZED" -> "none"
                     [] state[t] = "WATISEND" -> "sending"
                     [] state[t] = "WAITRECEIVE" -> "receiving"
                     [] state[t] = "WATIREPLY" -> "awaiting"
                     [] OTHER -> "free"
    BY DEF Phase
  <2>2. Room[t] = CASE state[t] \in {"WATISEND", "WATIREPLY"} -> args[t].reply_len
                    [] state[t] = "WAITRECEIVE" -> args[t].msg_len
                    [] OTHER -> 0
    BY DEF Room
  <2>3. QED
    BY <2>1, <2>2
<1>2. ASSUME NEW r \in Tid
      PROVE  /\ Mailbox[r] \in Seq(Message) /\ Len(Mailbox[r]) = Len(senders[r])
             /\ \A i \in 1 .. Len(senders[r]) : Mailbox[r][i] = MessageOf(senders[r][i])
             /\ Mailbox[r] = <<>> <=> senders[r] = <<>>
             /\ senders[r] # <<>> => Head(Mailbox[r]) = MessageOf(Head(senders[r]))
  <2>1. Mailbox[r] = [i \in 1 .. Len(senders[r]) |-> MessageOf(senders[r][i])]
    BY DEF Mailbox, MessageOf
  <2>2. /\ senders[r] \in Seq(Tid) /\ Len(senders[r]) \in Nat
        /\ \A i \in 1 .. Len(senders[r]) : senders[r][i] \in Tid
    BY DEF TypeOK
  <2>3. \A s \in Tid : MessageOf(s) \in Message
    BY ArgTypes DEF TypeOK, MessageOf
  <2>4. Mailbox[r] \in Seq(Message) /\ Len(Mailbox[r]) = Len(senders[r])
    <3>1. \A i \in 1 .. Len(senders[r]) : MessageOf(senders[r][i]) \in Message
      BY <2>2, <2>3
    <3>2. Mailbox[r] \in [1 .. Len(senders[r]) -> Message]
      BY <2>1, <3>1
    <3>3. QED
      BY <2>2, <3>2, LenProperties
  <2>5. Mailbox[r] = <<>> <=> senders[r] = <<>>
    BY <2>2, <2>4, EmptySeq
  <2>6. senders[r] # <<>> => Head(Mailbox[r]) = MessageOf(Head(senders[r]))
    BY <2>1, <2>2, <2>4, <2>5
  <2>7. QED
    BY <2>1, <2>4, <2>5, <2>6
<1>3. FunctionsMapped
  <2>1. Phase = [t \in Tid |-> Phase[t]]
    BY DEF Phase
  <2>2. Room = [t \in Tid |-> Room[t]]
    BY DEF Room
  <2>3. Mailbox = [t \in Tid |-> Mailbox[t]]
    BY DEF Mailbox
  <2>4. QED
    BY <2>1, <2>2, <2>3 DEF FunctionsMapped
<1>4. QED
  BY <1>1, <1>2, <1>3 DEF MailboxesMapped

LEMMA MappedNext == TypeOK' => StatesMapped' /\ MailboxesMapped' /\ FunctionsMapped'
BY Mapped, PTL

\* A step that keeps the sender queue of r, and the arguments of every task in
\* WATISEND, keeps the mailbox of r.
LEMMA SameMailbox ==
  ASSUME KernelInvariant, TypeOK', NEW r \in Tid, senders'[r] = senders[r],
         \A u \in Tid : state[u] = "WATISEND" => args'[u] = args[u]
  PROVE  Mailbox'[r] = Mailbox[r]
<1>1. /\ Mailbox[r] \in Seq(Message) /\ Len(Mailbox[r]) = Len(senders[r])
      /\ \A i \in 1 .. Len(senders[r]) : Mailbox[r][i] = MessageOf(senders[r][i])
  BY Mapped DEF MailboxesMapped, KernelInvariant
<1>2. /\ Mailbox'[r] \in Seq(Message) /\ Len(Mailbox'[r]) = Len(senders'[r])
      /\ \A i \in 1 .. Len(senders'[r]) :
           Mailbox'[r][i] = [from |-> senders'[r][i], msg |-> args'[senders'[r][i]].msg,
                             len |-> args'[senders'[r][i]].msg_len]
  BY MappedNext DEF MailboxesMapped, MessageOf
<1>3. \A i \in 1 .. Len(senders[r]) : Mailbox'[r][i] = Mailbox[r][i]
  <2>1. ASSUME NEW i \in 1 .. Len(senders[r]) PROVE Mailbox'[r][i] = Mailbox[r][i]
    <3>0. senders[r] \in Seq(Tid)
      BY DEF KernelInvariant, TypeOK
    <3>1. senders[r][i] \in Tid /\ InSeq(senders[r], senders[r][i])
      BY <3>0, ElementOfSeq DEF InSeq
    <3>2. state[senders[r][i]] = "WATISEND"
      BY <3>1 DEF KernelInvariant, SenderQueuesExact
    <3>3. QED
      BY <1>1, <1>2, <3>1, <3>2, ZenonT(30) DEF MessageOf
  <2>2. QED
    BY <2>1
<1>4. QED
  BY <1>1, <1>2, <1>3, SeqEqual

\* A step that only moves tasks among the states programs cannot tell apart,
\* and spares the arguments of the blocked ones, is a stutter of MessagePassing.
LEMMA Invisible ==
  ASSUME KernelInvariant, TypeOK', UNCHANGED <<senders, buffer>>,
         \A u \in Tid : \/ state'[u] = state[u] /\ args'[u] = args[u]
                        \/ /\ state[u] \in {"READY", "RUNNING", "AWATIEVENT"}
                           /\ state'[u] \in {"READY", "RUNNING", "AWATIEVENT"}
  PROVE  UNCHANGED Promise!mvars
<1>1. /\ StatesMapped /\ StatesMapped' /\ FunctionsMapped /\ FunctionsMapped'
      /\ state \in [Tid -> TaskState]
  BY Mapped, MappedNext DEF KernelInvariant, TypeOK
<1>2. ASSUME NEW u \in Tid PROVE Phase'[u] = Phase[u] /\ Room'[u] = Room[u]
  BY <1>1 DEF StatesMapped, TaskState
<1>3. ASSUME NEW u \in Tid PROVE Mailbox'[u] = Mailbox[u]
  BY SameMailbox
<1>4. Phase' = Phase /\ Room' = Room /\ Mailbox' = Mailbox
  BY <1>1, <1>2, <1>3 DEF FunctionsMapped
<1>5. QED
  BY <1>4 DEF Promise!mvars

LEMMA LiveAreTids == KernelInvariant => jobq \subseteq Tid
BY DEF KernelInvariant, LiveTasksExact

\* A task that traps is free, and so is not blocked in a queue.
LEMMA CallerIsFree ==
  ASSUME KernelInvariant, NEW t \in Tid, mode = "user", current_task = t
  PROVE  /\ state[t] = "RUNNING" /\ t \in jobq /\ Phase[t] = "free" /\ Room[t] = 0
         /\ \A r \in Tid : ~InSeq(senders[r], t)
BY Running, Mapped DEF StatesMapped, KernelInvariant

\* Calls that pass no message, the creation of a task included.
LEMMA OtherCallMaps ==
  ASSUME KernelInvariant, TypeOK', NEW t \in Tid, mode = "user", current_task = t,
         senders' = senders, buffer' = [buffer EXCEPT ![t] = NoMessage],
         \A u \in Tid : u # t => args'[u] = args[u],
         \/ /\ state'[t] \in {"RUNNING", "AWATIEVENT"}
            /\ \A u \in Tid : u # t => state'[u] = state[u]
         \/ \E n \in Tid : state[n] = "INITIALIZED" /\ state' = [state EXCEPT ![n] = "READY"]
  PROVE  Promise!MNext
<1>1. /\ StatesMapped /\ StatesMapped' /\ FunctionsMapped /\ FunctionsMapped'
      /\ state \in [Tid -> TaskState] /\ state' \in [Tid -> TaskState]
      /\ state[t] = "RUNNING" /\ Phase[t] = "free"
  BY Mapped, MappedNext, CallerIsFree DEF KernelInvariant, TypeOK
<1>2. Mailbox' = Mailbox
  <2>1. ASSUME NEW r \in Tid PROVE Mailbox'[r] = Mailbox[r]
    BY <1>1, SameMailbox
  <2>2. QED
    BY <1>1, <2>1 DEF FunctionsMapped
<1>3. Promise!Nothing = NoMessage
  BY DEF Promise!Nothing, NoMessage
<1>4. CASE /\ state'[t] \in {"RUNNING", "AWATIEVENT"}
           /\ \A u \in Tid : u # t => state'[u] = state[u]
  <2>1. ASSUME NEW u \in Tid PROVE Phase'[u] = Phase[u] /\ Room'[u] = Room[u]
    BY <1>1, <1>4 DEF StatesMapped, TaskState
  <2>2. Phase' = Phase /\ Room' = Room
    BY <1>1, <2>1 DEF FunctionsMapped
  <2>3. Promise!OtherCall(t)
    BY <1>1, <1>2, <1>3, <2>2 DEF Promise!OtherCall
  <2>4. QED
    BY <2>3 DEF Promise!MNext
<1>5. ASSUME NEW n \in Tid, state[n] = "INITIALIZED", state' = [state EXCEPT ![n] = "READY"]
      PROVE  Promise!MNext
  <2>1. /\ Phase[n] = "none" /\ Phase'[n] = "free" /\ Room'[n] = Room[n] /\ n # t
        /\ \A u \in Tid : u # n => Phase'[u] = Phase[u] /\ Room'[u] = Room[u]
    BY <1>1, <1>5 DEF StatesMapped, TaskState
  <2>2. Phase' = [Phase EXCEPT ![n] = "free"] /\ Room' = Room
    BY <1>1, <2>1 DEF FunctionsMapped
  <2>3. Promise!OtherCall(t)
    BY <1>1, <1>2, <1>3, <2>1, <2>2 DEF Promise!OtherCall
  <2>4. QED
    BY <2>3 DEF Promise!MNext
<1>6. QED
  BY <1>4, <1>5

LEMMA CreateMaps ==
  ASSUME KernelInvariant, TypeOK', NEW t \in Tid, sys_create(t)
  PROVE  Promise!MNext \/ UNCHANGED Promise!mvars
<1>1. mode = "user" /\ current_task = t
  BY DEF sys_create, Trap
<1>2. state \in [Tid -> TaskState] /\ args \in [Tid -> Args] /\ state[t] = "RUNNING"
  BY <1>1, CallerIsFree DEF KernelInvariant, TypeOK
<1>3. CASE Halt
  BY <1>3, Invisible DEF Halt, taskVars, userVars
<1>4. CASE ~Halt
  <2>1. SvcUser(t, NoArgs) /\ senders' = senders
    BY <1>4 DEF sys_create
  <2>2. CASE task_id_cnt = TASK_POOL_SIZE
    <3>1. state' = state
      BY <1>4, <2>2 DEF sys_create
    <3>2. QED
      BY <1>1, <1>2, <2>1, <3>1, OtherCallMaps DEF SvcUser
  <2>3. CASE task_id_cnt # TASK_POOL_SIZE
    <3>1. state' = [state EXCEPT ![task_id_cnt] = "READY"]
      BY <1>4, <2>3 DEF sys_create, create_task
    <3>2. task_id_cnt \in Tid /\ task_id_cnt \notin jobq
      BY <2>3, PoolAssumption DEF KernelInvariant, TypeOK, Tid
    <3>3. state[task_id_cnt] = "INITIALIZED"
      BY <3>2 DEF KernelInvariant, LiveTasksExact
    <3>4. QED
      BY <1>1, <1>2, <2>1, <3>1, <3>2, <3>3, OtherCallMaps DEF SvcUser
  <2>4. QED
    BY <2>2, <2>3
<1>5. QED
  BY <1>3, <1>4

LEMMA QuietMaps ==
  ASSUME KernelInvariant, TypeOK', NEW t \in Tid,
         \/ sys_tid(t) \/ sys_parent_tid(t) \/ sys_yield(t) \/ sys_send_unknown(t)
         \/ sys_reply_unknown(t)
  PROVE  Promise!MNext
<1>1. mode = "user" /\ current_task = t /\ SvcUser(t, NoArgs) /\ UNCHANGED <<state, senders>>
  BY DEF sys_tid, sys_parent_tid, Query, sys_yield, sys_send_unknown, sys_reply_unknown,
     Trap, taskVars
<1>2. args \in [Tid -> Args] /\ state[t] = "RUNNING"
  BY <1>1, CallerIsFree DEF KernelInvariant, TypeOK
<1>3. QED
  BY <1>1, <1>2, OtherCallMaps DEF SvcUser

LEMMA AwaitMaps ==
  ASSUME KernelInvariant, TypeOK', NEW t \in Tid, sys_await_event(t)
  PROVE  Promise!MNext \/ UNCHANGED Promise!mvars
<1>1. mode = "user" /\ current_task = t
  BY DEF sys_await_event, Trap
<1>2. CASE Halt
  BY <1>2, Invisible DEF Halt, taskVars, userVars
<1>3. CASE ~Halt
  <2>1. /\ state' = [state EXCEPT ![t] = "AWATIEVENT"] /\ SvcUser(t, NoArgs)
        /\ senders' = senders
    BY <1>3 DEF sys_await_event
  <2>2. args \in [Tid -> Args] /\ state \in [Tid -> TaskState]
    BY DEF KernelInvariant, TypeOK
  <2>3. QED
    BY <1>1, <2>1, <2>2, OtherCallMaps DEF SvcUser
<1>4. QED
  BY <1>2, <1>3

LEMMA ExitMaps ==
  ASSUME KernelInvariant, TypeOK', NEW t \in Tid, sys_exit(t)
  PROVE  Promise!MNext
<1>1. /\ mode = "user" /\ current_task = t /\ state' = [state EXCEPT ![t] = "INITIALIZED"]
      /\ senders' = [senders EXCEPT ![t] = <<>>] /\ args' = [args EXCEPT ![t] = NoArgs]
      /\ buffer' = [buffer EXCEPT ![t] = NoMessage]
  BY DEF sys_exit, Trap, task_init
<1>2. /\ StatesMapped /\ StatesMapped' /\ FunctionsMapped /\ FunctionsMapped'
      /\ MailboxesMapped'
      /\ state \in [Tid -> TaskState] /\ args \in [Tid -> Args] /\ senders \in [Tid -> Seq(Tid)]
      /\ state[t] = "RUNNING" /\ Phase[t] = "free" /\ Room[t] = 0
  BY <1>1, Mapped, MappedNext, CallerIsFree DEF KernelInvariant, TypeOK
<1>3. Phase'[t] = "none" /\ Room'[t] = 0 /\ Mailbox'[t] = <<>>
  BY <1>1, <1>2 DEF StatesMapped, MailboxesMapped
<1>4. ASSUME NEW u \in Tid, u # t
      PROVE  Phase'[u] = Phase[u] /\ Room'[u] = Room[u] /\ Mailbox'[u] = Mailbox[u]
  <2>1. Mailbox'[u] = Mailbox[u]
    BY <1>1, <1>2, <1>4, SameMailbox
  <2>2. QED
    BY <1>1, <1>2, <1>4, <2>1 DEF StatesMapped, TaskState
<1>5. /\ Phase' = [Phase EXCEPT ![t] = "none"] /\ Room' = Room
      /\ Mailbox' = [Mailbox EXCEPT ![t] = <<>>]
  BY <1>2, <1>3, <1>4 DEF FunctionsMapped
<1>6. Promise!Stop(t)
  BY <1>1, <1>2, <1>5 DEF Promise!Stop, Promise!Nothing, NoMessage
<1>7. QED
  BY <1>6 DEF Promise!MNext

LEMMA SendDeliverMaps ==
  ASSUME KernelInvariant, TypeOK', NEW t \in Tid, sys_send_deliver(t)
  PROVE  Promise!MNext \/ UNCHANGED Promise!mvars
<1>1. mode = "user" /\ current_task = t
  BY DEF sys_send_deliver, Trap
<1>2. CASE Halt
  BY <1>2, Invisible DEF Halt, taskVars, userVars
<1>3. CASE ~Halt
  <2>1. PICK r \in jobq, m \in Payload, ln \in SendLens :
          /\ state[r] = "WAITRECEIVE"
          /\ args' = [args EXCEPT ![t] = SendArgs(m, ln)]
          /\ buffer' = [buffer EXCEPT ![t] = NoMessage,
                          ![r] = [from |-> t, msg |-> m,
                                  len |-> copy_message(ln.msg, args[r].msg_len)]]
          /\ state' = [state EXCEPT ![r] = "READY", ![t] = "WATIREPLY"]
          /\ senders' = senders
    BY <1>3 DEF sys_send_deliver
  <2>2. /\ StatesMapped /\ StatesMapped' /\ FunctionsMapped /\ FunctionsMapped'
        /\ state \in [Tid -> TaskState] /\ args \in [Tid -> Args]
        /\ state[t] = "RUNNING" /\ Phase[t] = "free" /\ Room[t] = 0
    BY <1>1, Mapped, MappedNext, CallerIsFree DEF KernelInvariant, TypeOK
  <2>3. r \in Tid /\ r # t /\ ln.msg \in Nat /\ ln.reply \in Nat
    BY <2>1, <2>2, LiveAreTids, InputAssumption
  <2>4. /\ Phase[r] = "receiving" /\ Room[r] = args[r].msg_len
        /\ Phase'[t] = "awaiting" /\ Room'[t] = ln.reply
        /\ Phase'[r] = "free" /\ Room'[r] = 0
    BY <2>1, <2>2, <2>3 DEF StatesMapped, SendArgs
  <2>5. ASSUME NEW u \in Tid, u # t, u # r PROVE Phase'[u] = Phase[u] /\ Room'[u] = Room[u]
    BY <2>1, <2>2, <2>3, <2>5 DEF StatesMapped, TaskState
  <2>6. ASSUME NEW u \in Tid PROVE Mailbox'[u] = Mailbox[u]
    BY <2>1, <2>2, SameMailbox
  <2>7. /\ Phase' = [Phase EXCEPT ![t] = "awaiting", ![r] = "free"]
        /\ Room' = [Room EXCEPT ![t] = ln.reply, ![r] = 0] /\ Mailbox' = Mailbox
    BY <2>2, <2>3, <2>4, <2>5, <2>6 DEF FunctionsMapped
  <2>8. Promise!Fitted([from |-> t, msg |-> m, len |-> ln.msg], Room[r])
          = [from |-> t, msg |-> m, len |-> copy_message(ln.msg, args[r].msg_len)]
    BY <2>4 DEF Promise!Fitted, Promise!Shorter, copy_message
  <2>9. Promise!Send(t, r)
    BY <2>1, <2>2, <2>4, <2>7, <2>8 DEF Promise!Send, Promise!Nothing, NoMessage
  <2>10. QED
    BY <2>3, <2>9 DEF Promise!MNext
<1>4. QED
  BY <1>2, <1>3

LEMMA SendQueueMaps ==
  ASSUME KernelInvariant, TypeOK', NEW t \in Tid, sys_send_queue(t)
  PROVE  Promise!MNext
<1>1. mode = "user" /\ current_task = t
  BY DEF sys_send_queue, Trap
<1>2. /\ StatesMapped /\ StatesMapped' /\ FunctionsMapped /\ FunctionsMapped'
      /\ MailboxesMapped /\ MailboxesMapped'
      /\ state \in [Tid -> TaskState] /\ args \in [Tid -> Args] /\ senders \in [Tid -> Seq(Tid)]
      /\ state[t] = "RUNNING" /\ Phase[t] = "free" /\ Room[t] = 0
  BY <1>1, Mapped, MappedNext, CallerIsFree DEF KernelInvariant, TypeOK
<1>3. PICK r \in jobq, m \in Payload, ln \in SendLens :
        /\ state[r] # "WAITRECEIVE"
        /\ \/ SvcUser(t, NoArgs) /\ UNCHANGED <<senders, state>>
           \/ /\ SvcUser(t, SendArgs(m, ln))
              /\ senders' = [senders EXCEPT ![r] = Append(@, t)]
              /\ state' = [state EXCEPT ![t] = "WATISEND"]
  BY DEF sys_send_queue
<1>4. CASE SvcUser(t, NoArgs) /\ UNCHANGED <<senders, state>>
  BY <1>1, <1>2, <1>4, OtherCallMaps DEF SvcUser
<1>5. CASE /\ SvcUser(t, SendArgs(m, ln)) /\ senders' = [senders EXCEPT ![r] = Append(@, t)]
           /\ state' = [state EXCEPT ![t] = "WATISEND"]
  <2> DEFINE message == [from |-> t, msg |-> m, len |-> ln.msg]
  <2>1. /\ args' = [args EXCEPT ![t] = SendArgs(m, ln)]
        /\ buffer' = [buffer EXCEPT ![t] = NoMessage]
    BY <1>5 DEF SvcUser
  <2>2. /\ r \in Tid /\ state[r] # "INITIALIZED" /\ ln.msg \in Nat /\ ln.reply \in Nat
        /\ message \in Message
    <3>1. r \in Tid /\ state[r] # "INITIALIZED"
      BY <1>3, LiveAreTids DEF KernelInvariant, LiveTasksExact
    <3>2. ln.msg \in Nat /\ ln.reply \in Nat
      BY InputAssumption
    <3>3. QED
      BY <3>1, <3>2, ArgTypes
  <2>3. Phase[r] # "none" /\ Phase[r] # "receiving"
    BY <1>2, <1>3, <2>2 DEF StatesMapped, TaskState
  <2>4. Phase'[t] = "sending" /\ Room'[t] = ln.reply
    BY <1>2, <1>5, <2>1 DEF StatesMapped, SendArgs
  <2>5. ASSUME NEW u \in Tid, u # t PROVE Phase'[u] = Phase[u] /\ Room'[u] = Room[u]
    BY <1>2, <1>5, <2>1, <2>5, SMTT(20) DEF StatesMapped, TaskState
  <2>6. ASSUME NEW u \in Tid, u # r PROVE Mailbox'[u] = Mailbox[u]
    BY <1>2, <1>5, <2>1, <2>6, SameMailbox
  <2>7. Mailbox'[r] = Append(Mailbox[r], message)
    <3>1. /\ Mailbox[r] \in Seq(Message) /\ Len(Mailbox[r]) = Len(senders[r])
          /\ \A i \in 1 .. Len(senders[r]) : Mailbox[r][i] = MessageOf(senders[r][i])
      BY <1>2, <2>2 DEF MailboxesMapped
    <3>2. /\ Mailbox'[r] \in Seq(Message) /\ Len(Mailbox'[r]) = Len(senders'[r])
          /\ \A i \in 1 .. Len(senders'[r]) :
               Mailbox'[r][i] = [from |-> senders'[r][i], msg |-> args'[senders'[r][i]].msg,
                                 len |-> args'[senders'[r][i]].msg_len]
      BY <1>2, <2>2 DEF MailboxesMapped, MessageOf
    <3>3. /\ senders[r] \in Seq(Tid) /\ Len(senders[r]) \in Nat
          /\ senders'[r] = Append(senders[r], t) /\ Len(senders'[r]) = Len(senders[r]) + 1
          /\ senders'[r][Len(senders[r]) + 1] = t
          /\ \A i \in 1 .. Len(senders[r]) : senders'[r][i] = senders[r][i]
      BY <1>2, <1>5, <2>2
    <3>4. /\ Append(Mailbox[r], message) \in Seq(Message)
          /\ Len(Append(Mailbox[r], message)) = Len(senders[r]) + 1
          /\ Append(Mailbox[r], message)[Len(senders[r]) + 1] = message
          /\ \A i \in 1 .. Len(senders[r]) : Append(Mailbox[r], message)[i] = Mailbox[r][i]
      BY <2>2, <3>1, <3>3, AppendProperties
    <3>5. ASSUME NEW i \in 1 .. Len(senders[r]) PROVE Mailbox'[r][i] = Mailbox[r][i]
      <4>1. senders[r][i] \in Tid /\ InSeq(senders[r], senders[r][i])
        BY <3>3, ElementOfSeq DEF InSeq
      <4>2. senders[r][i] # t
        BY <1>1, <2>2, <4>1, CallerIsFree
      <4>3. args'[senders[r][i]] = args[senders[r][i]] /\ i \in 1 .. Len(senders'[r])
        BY <1>2, <2>1, <3>3, <4>1, <4>2
      <4>4. /\ senders'[r][i] = senders[r][i]
            /\ Mailbox'[r][i] = [from |-> senders'[r][i], msg |-> args'[senders'[r][i]].msg,
                                 len |-> args'[senders'[r][i]].msg_len]
        BY <3>2, <3>3, <4>3
      <4>5. Mailbox[r][i] = MessageOf(senders[r][i])
        BY <3>1
      <4>6. QED
        BY <4>3, <4>4, <4>5 DEF MessageOf
    <3>6. Mailbox'[r][Len(senders[r]) + 1] = message
      <4>1. Len(senders[r]) + 1 \in 1 .. Len(senders'[r])
        BY <3>3
      <4>2. Mailbox'[r][Len(senders[r]) + 1]
              = [from |-> t, msg |-> args'[t].msg, len |-> args'[t].msg_len]
        BY <3>2, <3>3, <4>1
      <4>3. args'[t] = SendArgs(m, ln)
        BY <1>2, <2>1
      <4>4. QED
        BY <4>2, <4>3 DEF SendArgs
    <3>7. \A i \in 1 .. Len(senders[r]) + 1 : Mailbox'[r][i] = Append(Mailbox[r], message)[i]
      BY <3>3, <3>4, <3>5, <3>6
    <3>8. Len(Mailbox'[r]) = Len(senders[r]) + 1
      BY <3>2, <3>3
    <3>9. QED
      BY <3>2, <3>4, <3>7, <3>8, SeqEqual
  <2>8. /\ Phase' = [Phase EXCEPT ![t] = "sending"] /\ Room' = [Room EXCEPT ![t] = ln.reply]
        /\ Mailbox' = [Mailbox EXCEPT ![r] = Append(@, message)]
    BY <1>2, <2>2, <2>4, <2>5, <2>6, <2>7 DEF FunctionsMapped
  <2>9. Promise!Send(t, r)
    BY <1>2, <2>1, <2>3, <2>8 DEF Promise!Send, Promise!Nothing, NoMessage
  <2>10. QED
    BY <2>2, <2>9 DEF Promise!MNext
<1>6. QED
  BY <1>3, <1>4, <1>5

LEMMA ReceiveBlockMaps ==
  ASSUME KernelInvariant, TypeOK', NEW t \in Tid, sys_receive_block(t)
  PROVE  Promise!MNext
<1>1. PICK l \in Lens :
        /\ mode = "user" /\ current_task = t /\ senders[t] = <<>> /\ senders' = senders
        /\ args' = [args EXCEPT ![t] = ReceiveArgs(l)]
        /\ buffer' = [buffer EXCEPT ![t] = NoMessage]
        /\ state' = [state EXCEPT ![t] = "WAITRECEIVE"]
  BY DEF sys_receive_block, Trap, SvcUser
<1>2. /\ StatesMapped /\ StatesMapped' /\ FunctionsMapped /\ FunctionsMapped' /\ MailboxesMapped
      /\ state \in [Tid -> TaskState] /\ args \in [Tid -> Args]
      /\ state[t] = "RUNNING" /\ Phase[t] = "free" /\ Room[t] = 0
  BY <1>1, Mapped, MappedNext, CallerIsFree DEF KernelInvariant, TypeOK
<1>3. Mailbox[t] = <<>>
  BY <1>1, <1>2 DEF MailboxesMapped
<1>4. Phase'[t] = "receiving" /\ Room'[t] = l
  BY <1>1, <1>2 DEF StatesMapped, ReceiveArgs
<1>5. ASSUME NEW u \in Tid, u # t PROVE Phase'[u] = Phase[u] /\ Room'[u] = Room[u]
  BY <1>1, <1>2, <1>5 DEF StatesMapped, TaskState
<1>6. ASSUME NEW u \in Tid PROVE Mailbox'[u] = Mailbox[u]
  BY <1>1, <1>2, SameMailbox
<1>7. /\ Phase' = [Phase EXCEPT ![t] = "receiving"] /\ Room' = [Room EXCEPT ![t] = l]
      /\ Mailbox' = Mailbox
  BY <1>2, <1>4, <1>5, <1>6 DEF FunctionsMapped
<1>8. Promise!Receive(t)
  BY <1>1, <1>2, <1>3, <1>7 DEF Promise!Receive, Promise!Nothing, NoMessage
<1>9. QED
  BY <1>8 DEF Promise!MNext

LEMMA ReceiveDeliverMaps ==
  ASSUME KernelInvariant, TypeOK', NEW t \in Tid, sys_receive_deliver(t)
  PROVE  Promise!MNext \/ UNCHANGED Promise!mvars
<1>1. mode = "user" /\ current_task = t /\ senders[t] # <<>>
  BY DEF sys_receive_deliver, Trap
<1>2. CASE Halt \/ Wild
  BY <1>2, Invisible DEF Halt, Wild, taskVars, userVars
<1>3. CASE ~Halt /\ ~Wild
  <2> DEFINE s == Head(senders[t])
  <2>1. /\ StatesMapped /\ StatesMapped' /\ FunctionsMapped /\ FunctionsMapped'
        /\ MailboxesMapped /\ MailboxesMapped'
        /\ state \in [Tid -> TaskState] /\ args \in [Tid -> Args] /\ senders \in [Tid -> Seq(Tid)]
        /\ state[t] = "RUNNING" /\ Phase[t] = "free" /\ Room[t] = 0
    BY <1>1, Mapped, MappedNext, CallerIsFree DEF KernelInvariant, TypeOK
  <2>2. s \in Tid /\ state[s] = "WATISEND" /\ s # t
    BY <1>1, <2>1, HeadOfSenders
  <2>3. PICK l \in Lens :
          /\ senders' = [senders EXCEPT ![t] = Tail(@)]
          /\ args' = [args EXCEPT ![t] = NoArgs]
          /\ buffer' = [buffer EXCEPT ![t] = [from |-> s, msg |-> args[s].msg,
                                              len |-> copy_message(args[s].msg_len, l)]]
          /\ state' = [state EXCEPT ![s] = "WATIREPLY"]
    BY <1>3, <2>2 DEF sys_receive_deliver, next_sender
  <2>4. /\ Mailbox[t] # <<>> /\ Head(Mailbox[t]) = MessageOf(s)
        /\ Head(Mailbox[t]).from = s
    BY <1>1, <2>1 DEF MailboxesMapped, MessageOf
  <2>5. /\ Phase'[s] = "awaiting" /\ Room'[s] = Room[s]
        /\ \A u \in Tid : u # s => Phase'[u] = Phase[u] /\ Room'[u] = Room[u]
    <3>1. state'[s] = "WATIREPLY" /\ args'[s] = args[s]
      BY <2>1, <2>2, <2>3
    <3>2. Phase'[s] = "awaiting" /\ Room'[s] = Room[s]
      BY <2>1, <2>2, <3>1 DEF StatesMapped
    <3>3. ASSUME NEW u \in Tid, u # s PROVE Phase'[u] = Phase[u] /\ Room'[u] = Room[u]
      <4>1. state'[u] = state[u] /\ state[u] \in TaskState /\ (u # t => args'[u] = args[u])
        BY <2>1, <2>2, <2>3, <3>3
      <4>2. QED
        BY <2>1, <4>1, ZenonT(30) DEF StatesMapped, TaskState
    <3>4. QED
      BY <3>2, <3>3
  <2>6. ASSUME NEW u \in Tid, u # t PROVE Mailbox'[u] = Mailbox[u]
    BY <2>1, <2>3, <2>6, SameMailbox
  <2>7. Mailbox'[t] = Tail(Mailbox[t])
    <3>1. /\ Mailbox[t] \in Seq(Message) /\ Len(Mailbox[t]) = Len(senders[t])
          /\ \A i \in 1 .. Len(senders[t]) : Mailbox[t][i] = MessageOf(senders[t][i])
      BY <2>1 DEF MailboxesMapped
    <3>2. /\ Mailbox'[t] \in Seq(Message) /\ Len(Mailbox'[t]) = Len(senders'[t])
          /\ \A i \in 1 .. Len(senders'[t]) :
               Mailbox'[t][i] = [from |-> senders'[t][i], msg |-> args'[senders'[t][i]].msg,
                                 len |-> args'[senders'[t][i]].msg_len]
      BY <2>1 DEF MailboxesMapped, MessageOf
    <3>3. senders[t] \in Seq(Tid) /\ Len(senders[t]) \in Nat /\ senders'[t] = Tail(senders[t])
      BY <2>1, <2>3
    <3>4. /\ Len(senders'[t]) = Len(senders[t]) - 1
          /\ \A i \in 1 .. Len(senders[t]) - 1 : senders'[t][i] = senders[t][i + 1]
      BY <1>1, <3>3, HeadTailProperties
    <3>5. /\ Tail(Mailbox[t]) \in Seq(Message) /\ Len(Tail(Mailbox[t])) = Len(senders[t]) - 1
          /\ \A i \in 1 .. Len(senders[t]) - 1 : Tail(Mailbox[t])[i] = Mailbox[t][i + 1]
      BY <2>4, <3>1, HeadTailProperties
    <3>6. ASSUME NEW i \in 1 .. Len(senders[t]) - 1
          PROVE  Mailbox'[t][i] = Tail(Mailbox[t])[i]
      <4>1. i + 1 \in 1 .. Len(senders[t])
        BY <3>3
      <4>2. senders[t][i + 1] \in Tid /\ InSeq(senders[t], senders[t][i + 1])
        BY <3>3, <4>1, ElementOfSeq DEF InSeq
      <4>3. senders[t][i + 1] # t
        BY <1>1, <4>2, CallerIsFree
      <4>4. args'[senders[t][i + 1]] = args[senders[t][i + 1]]
        BY <2>1, <2>3, <4>2, <4>3
      <4>5. /\ senders'[t][i] = senders[t][i + 1]
            /\ Mailbox'[t][i] = [from |-> senders'[t][i], msg |-> args'[senders'[t][i]].msg,
                                 len |-> args'[senders'[t][i]].msg_len]
        BY <3>2, <3>4
      <4>6. Tail(Mailbox[t])[i] = MessageOf(senders[t][i + 1])
        BY <3>1, <3>5, <4>1
      <4>7. QED
        BY <4>4, <4>5, <4>6 DEF MessageOf
    <3>7. QED
      BY <3>2, <3>4, <3>5, <3>6, SeqEqual, ZenonT(30)
  <2>8. /\ Phase' = [Phase EXCEPT ![s] = "awaiting"] /\ Room' = Room
        /\ Mailbox' = [Mailbox EXCEPT ![t] = Tail(@)]
    BY <2>1, <2>2, <2>5, <2>6, <2>7 DEF FunctionsMapped
  <2>9. Promise!Fitted(Head(Mailbox[t]), l)
          = [from |-> s, msg |-> args[s].msg, len |-> copy_message(args[s].msg_len, l)]
    BY <2>4 DEF Promise!Fitted, Promise!Shorter, copy_message, MessageOf
  <2>10. Promise!Receive(t)
    BY <2>1, <2>3, <2>4, <2>8, <2>9 DEF Promise!Receive
  <2>11. QED
    BY <2>10 DEF Promise!MNext
<1>4. QED
  BY <1>2, <1>3

LEMMA ReplyMaps ==
  ASSUME WellBehaved, KernelInvariant, TypeOK', NEW t \in Tid, sys_reply(t)
  PROVE  Promise!MNext \/ UNCHANGED Promise!mvars
<1>1. mode = "user" /\ current_task = t
  BY DEF sys_reply, Trap
<1>2. CASE Halt \/ Wild
  BY <1>2, Invisible DEF Halt, Wild, taskVars, userVars
<1>3. CASE ~Halt /\ ~Wild
  <2>1. PICK s \in jobq, m \in Payload, l \in Lens :
          /\ state[s] = "WATIREPLY" /\ s # t
          /\ args' = [args EXCEPT ![t] = NoArgs]
          /\ buffer' = [buffer EXCEPT ![t] = NoMessage,
                          ![s] = [from |-> NoTask, msg |-> m,
                                  len |-> copy_message(l, args[s].reply_len)]]
          /\ state' = [state EXCEPT ![s] = "READY"]
          /\ senders' = senders
    BY <1>3 DEF sys_reply, reply_to, WellBehaved
  <2>2. /\ StatesMapped /\ StatesMapped' /\ FunctionsMapped /\ FunctionsMapped'
        /\ state \in [Tid -> TaskState] /\ args \in [Tid -> Args]
        /\ state[t] = "RUNNING" /\ Phase[t] = "free" /\ s \in Tid
    BY <1>1, Mapped, MappedNext, CallerIsFree, LiveAreTids DEF KernelInvariant, TypeOK
  <2>3. /\ Phase[s] = "awaiting" /\ Room[s] = args[s].reply_len
        /\ Phase'[s] = "free" /\ Room'[s] = 0
    BY <2>1, <2>2 DEF StatesMapped
  <2>4. ASSUME NEW u \in Tid, u # s PROVE Phase'[u] = Phase[u] /\ Room'[u] = Room[u]
    BY <2>1, <2>2, <2>4 DEF StatesMapped, TaskState
  <2>5. ASSUME NEW u \in Tid PROVE Mailbox'[u] = Mailbox[u]
    BY <2>1, <2>2, SameMailbox
  <2>6. /\ Phase' = [Phase EXCEPT ![s] = "free"] /\ Room' = [Room EXCEPT ![s] = 0]
        /\ Mailbox' = Mailbox
    BY <2>2, <2>3, <2>4, <2>5 DEF FunctionsMapped
  <2>7. Promise!Shorter(l, Room[s]) = copy_message(l, args[s].reply_len)
    BY <2>3 DEF Promise!Shorter, copy_message
  <2>8. Promise!Reply(t, s)
    BY <2>1, <2>2, <2>3, <2>6, <2>7 DEF Promise!Reply, Promise!Nothing, NoMessage
  <2>9. QED
    BY <2>2, <2>8 DEF Promise!MNext
<1>4. QED
  BY <1>2, <1>3

\* Interrupts, faults and context switches are invisible to programs.
LEMMA SwitchesMap ==
  ASSUME KernelInvariant, TypeOK',
         schedule \/ handle_irq \/ \E t \in Tid : unsupported_exception(t)
  PROVE  UNCHANGED Promise!mvars
<1>1. CASE Halt
  BY <1>1, Invisible DEF Halt, taskVars, userVars
<1>2. state \in [Tid -> TaskState] /\ args \in [Tid -> Args] /\ irqq[WAIT_TIMER_1] \in [Prio -> Seq(Tid)]
  BY DEF KernelInvariant, TypeOK, EventIds
<1>3. CASE schedule /\ ~Halt
  <2>1. mode = "kernel" /\ ScheduleAssertion /\ ~ptask_queue_empty(ScheduledReadyq)
        /\ (StillRuns => readyq_pool > 0)
        /\ ScheduledReadyq \in [Prio -> Seq(Tid)]
        /\ QueueAgrees(ScheduledReadyq, ScheduledState, priority)
        /\ \A t \in Tid : \/ ScheduledState[t] = state[t] /\ state[t] # "RUNNING"
                          \/ ScheduledState[t] = "READY" /\ state[t] = "RUNNING"
        /\ ScheduledState \in [Tid -> TaskState]
    BY <1>3, PutBack DEF schedule
  <2>2. PICK p \in Prio :
          /\ ScheduledReadyq[p] # <<>>
          /\ state' = [ScheduledState EXCEPT ![Head(ScheduledReadyq[p])] = "RUNNING"]
          /\ args' = [args EXCEPT ![Head(ScheduledReadyq[p])] = NoArgs]
          /\ UNCHANGED <<senders, buffer>>
    BY <1>3, <2>1 DEF schedule, ScheduledState, ptask_queue_first
  <2> DEFINE t == Head(ScheduledReadyq[p])
  <2>3. t \in Tid /\ ScheduledState[t] = "READY"
    <3>1. t \in Tid /\ InSeq(ScheduledReadyq[p], t)
      BY <2>1, <2>2 DEF InSeq
    <3>2. QED
      BY <2>1, <3>1 DEF QueueAgrees
  <2>4. ASSUME NEW u \in Tid
        PROVE  \/ state'[u] = state[u] /\ args'[u] = args[u]
               \/ /\ state[u] \in {"READY", "RUNNING", "AWATIEVENT"}
                  /\ state'[u] \in {"READY", "RUNNING", "AWATIEVENT"}
    BY <1>2, <2>1, <2>2, <2>3
  <2>5. QED
    BY <2>2, <2>4, Invisible
<1>4. CASE handle_irq /\ ~Halt
  <2>1. mode = "user"
    BY <1>4 DEF handle_irq
  <2>2. current_task \in Tid /\ state[current_task] = "RUNNING"
    BY <2>1, Running
  <2>3. CASE ptask_queue_empty(irqq[WAIT_TIMER_1])
    <3>1. /\ args' = [args EXCEPT ![current_task] = NoArgs]
          /\ UNCHANGED <<state, senders, buffer>>
      BY <1>4, <2>3 DEF handle_irq, Interrupted, taskVars
    <3>2. QED
      BY <1>2, <2>2, <3>1, Invisible
  <2>4. CASE ~ptask_queue_empty(irqq[WAIT_TIMER_1])
    <3>1. PICK p \in Prio :
            /\ ptask_queue_first(irqq[WAIT_TIMER_1], p)
            /\ state[Head(irqq[WAIT_TIMER_1][p])] = "AWATIEVENT"
            /\ state' = [state EXCEPT ![Head(irqq[WAIT_TIMER_1][p])] = "READY"]
            /\ args' = [args EXCEPT ![current_task] = NoArgs]
            /\ UNCHANGED <<senders, buffer>>
      BY <1>4, <2>4 DEF handle_irq, Interrupted
    <3>2. Head(irqq[WAIT_TIMER_1][p]) \in Tid
      BY <1>2, <3>1 DEF ptask_queue_first
    <3>3. QED
      BY <1>2, <2>2, <3>1, <3>2, Invisible
  <2>5. QED
    BY <2>3, <2>4
<1>5. ASSUME NEW t \in Tid, unsupported_exception(t) PROVE UNCHANGED Promise!mvars
  <2>1. /\ mode = "user" /\ current_task = t /\ args' = [args EXCEPT ![t] = NoArgs]
        /\ UNCHANGED <<state, senders, buffer>>
    BY <1>5 DEF unsupported_exception, Interrupted, taskVars
  <2>2. QED
    BY <1>2, <2>1, CallerIsFree, Invisible
<1>6. QED
  BY <1>1, <1>3, <1>4, <1>5

\* The kernel's handlers, interrupts and context switches implement the message
\* passing promised to programs: every step of the kernel is a step of
\* MessagePassing or changes nothing programs can see.
THEOREM MessagesImplemented == WellBehaved => (Spec => ImplementsMessagePassing)
<1> SUFFICES ASSUME WellBehaved PROVE Spec => ImplementsMessagePassing
  OBVIOUS
<1>1. Init => Promise!MInit
  <2> SUFFICES ASSUME Init PROVE Promise!MInit
    OBVIOUS
  <2>1. StatesMapped /\ FunctionsMapped /\ MailboxesMapped
    BY InitType, Mapped
  <2>2. ASSUME NEW u \in Tid
        PROVE  /\ state[u] \in {"READY", "INITIALIZED"}
               /\ Phase[u] \in {"none", "free"} /\ Room[u] = 0 /\ Mailbox[u] = <<>>
    BY <2>1 DEF Init, StatesMapped, MailboxesMapped
  <2>3. /\ Phase \in [Tid -> {"none", "free"}] /\ Room = [u \in Tid |-> 0]
        /\ Mailbox = [u \in Tid |-> <<>>]
    BY <2>1, <2>2 DEF FunctionsMapped
  <2>4. buffer = [u \in Tid |-> Promise!Nothing]
    BY DEF Init, Promise!Nothing, NoMessage
  <2>5. QED
    BY <2>3, <2>4 DEF Promise!MInit
<1>2. KernelInvariant /\ KernelInvariant' /\ [Next]_vars => [Promise!MNext]_(Promise!mvars)
  <2> SUFFICES ASSUME KernelInvariant, KernelInvariant', [Next]_vars
               PROVE  Promise!MNext \/ UNCHANGED Promise!mvars
    OBVIOUS
  <2>1. TypeOK'
    BY DEF KernelInvariant
  <2>2. CASE UNCHANGED vars
    BY <2>1, <2>2, Invisible DEF vars, taskVars, userVars
  <2>3. CASE schedule \/ handle_irq
    BY <2>1, <2>3, SwitchesMap
  <2>4. ASSUME NEW t \in Tid, TaskStep(t) PROVE Promise!MNext \/ UNCHANGED Promise!mvars
    <3>1. ~sys_receive_unknown(t)
      BY HeadOfSenders DEF sys_receive_unknown
    <3>2. QED
      BY <2>1, <2>4, <3>1, CreateMaps, QuietMaps, ExitMaps, SendDeliverMaps, SendQueueMaps,
         ReceiveBlockMaps, ReceiveDeliverMaps, ReplyMaps, AwaitMaps, SwitchesMap DEF TaskStep
  <2>5. QED
    BY <2>2, <2>3, <2>4 DEF Next
<1>3. Spec => []KernelInvariant
  BY KernelInvariantHolds
<1>4. QED
  BY <1>1, <1>2, <1>3, PTL DEF Spec, ImplementsMessagePassing, Promise!MSpec
=============================================================================
