----------------------------- MODULE TaskLists -----------------------------
(***************************************************************************)
(* What the task queues promise the scheduler: each list is a sequence of  *)
(* tasks, all lists of a pool together hold at most Capacity of them, and  *)
(* a priority queue gives out the oldest task of its highest non-empty     *)
(* priority.  This is how the Kernel module uses them.                     *)
(***************************************************************************)
EXTENDS Integers, Sequences, FiniteSets, SequencesExt

CONSTANTS Queues, Plain, Prio, Tasks, Priority, Capacity

Lists == (Queues \X Prio) \cup (Plain \X {0})

VARIABLES
  lists,     \* the tasks of each list, oldest first
  unused,    \* how many more tasks fit
  popped,    \* the task taken out last
  running    \* FALSE: an assertion has stopped the kernel

listsVars == <<lists, unused, popped, running>>

ListsInit ==
  /\ lists = [l \in Lists |-> <<>>]
  /\ unused = Capacity
  /\ popped = {}
  /\ running = TRUE

\* A push asserts that the pool has a node left.
PushBack(l, t) ==
  /\ running
  /\ IF unused > 0
     THEN /\ lists' = [lists EXCEPT ![l] = Append(@, t)]
          /\ unused' = unused - 1
          /\ UNCHANGED <<popped, running>>
     ELSE running' = FALSE /\ UNCHANGED <<lists, unused, popped>>

\* Take out the i-th task of list l.
TakeOut(l, i) ==
  /\ running
  /\ i \in DOMAIN lists[l]
  /\ popped' = {lists[l][i]}
  /\ lists' = [lists EXCEPT ![l] = RemoveAt(@, i)]
  /\ unused' = unused + 1
  /\ UNCHANGED running

Push(q, t) == PushBack(<<q, Priority[t]>>, t)

Pop(q) ==
  \E p \in Prio : /\ \A o \in Prio : o > p => lists[<<q, o>>] = <<>>
                  /\ TakeOut(<<q, p>>, 1)

ListsNext ==
  \/ \E q \in Queues, t \in Tasks : Push(q, t)
  \/ \E q \in Queues : Pop(q)
  \/ \E j \in Plain, t \in Tasks : PushBack(<<j, 0>>, t)
  \/ \E j \in Plain : \E i \in DOMAIN lists[<<j, 0>>] : TakeOut(<<j, 0>>, i)

ListsSpec == ListsInit /\ [][ListsNext]_listsVars
=============================================================================
