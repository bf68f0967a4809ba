----------------------------- MODULE TaskQueue -----------------------------
(***************************************************************************)
(* task_queue.c: a pool of list nodes, doubly linked task lists built from *)
(* it, and priority queues made of one list per priority.  The kernel has  *)
(* three pools: one for the plain list jobq, one for the ready queue, and  *)
(* one shared by the 1022 event queues.  Queues are the priority queues of *)
(* one pool, Plain its plain lists.                                        *)
(*                                                                         *)
(* A node that has been freed keeps its old links; only task_node_init     *)
(* clears them, when it is handed out again.                               *)
(***************************************************************************)
EXTENDS Integers, Sequences, FiniteSets, SequencesExt

CONSTANTS
  MAX_TASK_NUM,        \* nodes of the pool
  TASK_PRIORITY_MAX,
  Queues, Plain,
  Tasks, Priority      \* Priority[t] is the task's priority field

ASSUME NodeAssumption == MAX_TASK_NUM \in Nat \ {0}
ASSUME TaskAssumption == Priority \in [Tasks -> 0 .. TASK_PRIORITY_MAX - 1]
\* A task has one job_node, and jobq is the only plain list.
ASSUME ListAssumption == Queues \cap Plain = {} /\ \A i, j \in Plain : i = j

NULL == -1
NodeIds == 0 .. MAX_TASK_NUM - 1
Prio == 0 .. TASK_PRIORITY_MAX - 1
Lists == (Queues \X Prio) \cup (Plain \X {0})

VARIABLES
  task, prev, next,    \* the fields of the pool's nodes; a task is a singleton
                       \* set, the NULL task the empty set
  available_indices,   \* the free nodes, a stack (its last element is the top)
  head, tail, size,    \* of each list
  pq_size,             \* of each priority queue
  job_node,            \* of each task: its node in a plain list, or NULL
  returned,            \* the task the last removal returned
  running              \* FALSE: assert() has stopped the kernel

nodeVars == <<task, prev, next, available_indices>>
listVars == <<head, tail, size>>
vars == <<nodeVars, listVars, pq_size, job_node, returned, running>>

TaskPtr == {{}} \cup {{t} : t \in Tasks}
NodePtr == NodeIds \cup {NULL}

TypeOK ==
  /\ task \in [NodeIds -> TaskPtr]
  /\ prev \in [NodeIds -> NodePtr] /\ next \in [NodeIds -> NodePtr]
  /\ available_indices \in Seq(NodeIds) /\ Len(available_indices) <= MAX_TASK_NUM
  /\ head \in [Lists -> NodePtr] /\ tail \in [Lists -> NodePtr]
  /\ size \in [Lists -> 0 .. MAX_TASK_NUM]
  /\ pq_size \in [Queues -> 0 .. MAX_TASK_NUM]
  /\ job_node \in [Tasks -> NodePtr]
  /\ returned \in TaskPtr /\ running \in BOOLEAN

-----------------------------------------------------------------------------
Init ==
  /\ task = [n \in NodeIds |-> {}]
  /\ prev = [n \in NodeIds |-> NULL] /\ next = [n \in NodeIds |-> NULL]
  /\ available_indices = [i \in 1 .. MAX_TASK_NUM |-> i - 1]
  /\ head = [l \in Lists |-> NULL] /\ tail = [l \in Lists |-> NULL]
  /\ size = [l \in Lists |-> 0]
  /\ pq_size = [q \in Queues |-> 0]
  /\ job_node = [t \in Tasks |-> NULL]
  /\ returned = {} /\ running = TRUE

\* assert(): nothing happens any more.
Halt == /\ running' = FALSE
        /\ UNCHANGED <<nodeVars, listVars, pq_size, job_node, returned>>

task_list_empty(l) == size[l] = 0

\* The assertions of task_node_alloc and task_list_push_back.
MayPush(l) ==
  /\ available_indices # <<>>
  /\ task_list_empty(l) => tail[l] = NULL /\ head[l] = NULL

\* Faulty variant: the old last node is not linked to the new one.
task_list_push_unlinked(l, t) ==
  LET n == Last(available_indices) IN
  /\ available_indices' = Front(available_indices)
  /\ task' = [task EXCEPT ![n] = {t}]
  /\ prev' = [prev EXCEPT ![n] = tail[l]]
  /\ next' = [next EXCEPT ![n] = NULL]
  /\ head' = IF task_list_empty(l) THEN [head EXCEPT ![l] = n] ELSE head
  /\ tail' = [tail EXCEPT ![l] = n]
  /\ size' = [size EXCEPT ![l] = @ + 1]

task_list_push_back(l, t) ==
  LET n == Last(available_indices)    \* task_node_alloc
  IN
  /\ available_indices' = Front(available_indices)
  /\ task' = [task EXCEPT ![n] = {t}]
  /\ prev' = [prev EXCEPT ![n] = tail[l]]
  /\ next' = [m \in NodeIds |-> IF m = n THEN NULL
                                ELSE IF m = tail[l] /\ ~task_list_empty(l) THEN n
                                ELSE next[m]]
  /\ head' = IF task_list_empty(l) THEN [head EXCEPT ![l] = n] ELSE head
  /\ tail' = [tail EXCEPT ![l] = n]
  /\ size' = [size EXCEPT ![l] = @ + 1]

task_node_free(n) == Append(available_indices, n)

\* The assertions of task_list_remove_node and task_node_free.
MayRemove(n) == n # NULL /\ Len(available_indices) < MAX_TASK_NUM

\* Faulty variant: the back link of the next node is left alone.
task_list_remove_halfway(l, n) ==
  /\ tail' = IF next[n] = NULL THEN [tail EXCEPT ![l] = prev[n]] ELSE tail
  /\ next' = IF prev[n] # NULL THEN [next EXCEPT ![prev[n]] = next[n]] ELSE next
  /\ head' = IF prev[n] = NULL THEN [head EXCEPT ![l] = next[n]] ELSE head
  /\ size' = [size EXCEPT ![l] = @ - 1]
  /\ returned' = task[n]
  /\ available_indices' = task_node_free(n)
  /\ UNCHANGED <<prev, task>>

task_list_remove_node(l, n) ==
  /\ prev' = IF next[n] # NULL THEN [prev EXCEPT ![next[n]] = prev[n]] ELSE prev
  /\ tail' = IF next[n] = NULL THEN [tail EXCEPT ![l] = prev[n]] ELSE tail
  /\ next' = IF prev[n] # NULL THEN [next EXCEPT ![prev[n]] = next[n]] ELSE next
  /\ head' = IF prev[n] = NULL THEN [head EXCEPT ![l] = next[n]] ELSE head
  /\ size' = [size EXCEPT ![l] = @ - 1]
  /\ returned' = task[n]
  /\ available_indices' = task_node_free(n)
  /\ UNCHANGED task

-----------------------------------------------------------------------------
(* The operations the kernel calls.                                        *)

ptask_queue_empty(q) == pq_size[q] = 0

ptask_queue_push(q, t) ==
  IF MayPush(<<q, Priority[t]>>)
  THEN /\ task_list_push_back(<<q, Priority[t]>>, t)
       /\ pq_size' = [pq_size EXCEPT ![q] = @ + 1]
       /\ UNCHANGED <<job_node, returned, running>>
  ELSE Halt

\* Faulty variant: the scan stops one priority short of the top.
HighestList_short(q, p) ==
  /\ ~task_list_empty(<<q, p>>)
  /\ \A o \in Prio : o > p /\ o < TASK_PRIORITY_MAX - 1 => task_list_empty(<<q, o>>)

\* The list ptask_queue_pop takes its task from.
HighestList(q, p) ==
  /\ ~task_list_empty(<<q, p>>)
  /\ \A o \in Prio : o > p => task_list_empty(<<q, o>>)

\* schedule and wake_up_irq_blocked_tasks pop only when the queue is not empty.
ptask_queue_pop(q) ==
  /\ ~ptask_queue_empty(q)
  /\ \E p \in Prio :
       /\ HighestList(q, p)
       /\ IF MayRemove(head[<<q, p>>])
          THEN /\ task_list_remove_node(<<q, p>>, head[<<q, p>>])
               /\ pq_size' = [pq_size EXCEPT ![q] = @ - 1]
               /\ UNCHANGED <<job_node, running>>
          ELSE Halt

\* create_task: the task goes to the end of jobq and remembers its node.
add_job(j, t) ==
  /\ job_node[t] = NULL
  /\ IF MayPush(<<j, 0>>)
     THEN /\ task_list_push_back(<<j, 0>>, t)
          /\ job_node' = [job_node EXCEPT ![t] = tail'[<<j, 0>>]]
          /\ UNCHANGED <<pq_size, returned, running>>
     ELSE Halt

\* remove_current_task: the node leaves jobq wherever it is, and task_init
\* clears the task.
remove_job(j, t) ==
  /\ job_node[t] # NULL
  /\ IF MayRemove(job_node[t])
     THEN /\ task_list_remove_node(<<j, 0>>, job_node[t])
          /\ job_node' = [job_node EXCEPT ![t] = NULL]
          /\ UNCHANGED <<pq_size, running>>
     ELSE Halt

Next ==
  /\ running
  /\ \/ \E q \in Queues, t \in Tasks : ptask_queue_push(q, t)
     \/ \E q \in Queues : ptask_queue_pop(q)
     \/ \E j \in Plain, t \in Tasks : add_job(j, t)
     \/ \E j \in Plain, t \in Tasks : remove_job(j, t)

Spec == Init /\ [][Next]_vars

-----------------------------------------------------------------------------
\* The nodes of list l, following next from head; a broken chain repeats NULL.
Chain(l) ==
  LET node[i \in 1 .. size[l]] ==
        IF i = 1 THEN head[l]
        ELSE IF node[i - 1] = NULL THEN NULL ELSE next[node[i - 1]]
  IN  [i \in 1 .. size[l] |-> node[i]]

\* The tasks of list l.
TaskOf(n) == IF n # NULL /\ task[n] # {} THEN CHOOSE t \in Tasks : task[n] = {t}
             ELSE CHOOSE t \in Tasks : TRUE
Walk(l) == LET chain == Chain(l) IN [i \in DOMAIN chain |-> TaskOf(chain[i])]

Abstract == INSTANCE TaskLists WITH
  Capacity <- MAX_TASK_NUM,
  lists <- [l \in Lists |-> Walk(l)],
  unused <- Len(available_indices),
  popped <- returned

\* Pushes, pops and removals from the middle, in any order and over lists that
\* share a pool, behave as on plain sequences: every list keeps its tasks in
\* order, a pop takes the oldest task of the highest priority, and the kernel
\* is stopped exactly when a push finds the pool empty.
ImplementsTaskLists == Abstract!ListsSpec

\* Every node is either free, once, or in exactly one list, once: no operation
\* leaks a node, frees it twice or leaves it in two lists.
NodesAccounted ==
  \A n \in NodeIds :
    Cardinality({i \in DOMAIN available_indices : available_indices[i] = n})
    + Cardinality({li \in Lists \X (1 .. MAX_TASK_NUM) :
                     li[2] <= size[li[1]] /\ Chain(li[1])[li[2]] = n}) = 1

\* Reading a list backwards from tail gives its nodes in reverse: the links
\* task_list_remove_node follows when a job leaves the middle of jobq.
BackwardsConsistent ==
  \A l \in Lists :
    LET chain == Chain(l) IN
    IF chain = <<>> THEN head[l] = NULL /\ tail[l] = NULL
    ELSE /\ tail[l] = chain[size[l]] /\ prev[head[l]] = NULL
         /\ next[tail[l]] = NULL
         /\ \A i \in 2 .. size[l] : prev[chain[i]] = chain[i - 1]

\* A priority queue counts its tasks by itself, next to its lists: the count is
\* zero exactly when they are all empty, so no task is forgotten in a queue that
\* seems empty, and ptask_queue_pop never reaches its last line, "should never
\* reach this line".
QueueSizesExact ==
  \A q \in Queues : ptask_queue_empty(q) <=> \A p \in Prio : task_list_empty(<<q, p>>)

\* Nodes, links and sizes agree after every operation (task_queue.c): what the
\* next removal from the middle follows is right, the pool never shrinks, and a
\* pop finds a task.
ListsConsistent == NodesAccounted /\ BackwardsConsistent /\ QueueSizesExact
=============================================================================
