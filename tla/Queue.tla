------------------------------- MODULE Queue -------------------------------
(***************************************************************************)
(* The ring of queue.c: capacity cells, of which one always stays empty so *)
(* that head = tail means empty.  queue_init does not touch the cells:     *)
(* they hold whatever the memory held.  Senders of a task wait in one of   *)
(* these (message_passing.c); its elements are task ids.                   *)
(***************************************************************************)
EXTENDS Integers, Sequences

CONSTANTS capacity, Elem

ASSUME RingAssumption == capacity \in Nat \ {0} /\ 0 \in Elem

VARIABLES
  container, head, tail,
  pushed, popped          \* what the last push and the last pop returned

vars == <<container, head, tail, pushed, popped>>

Cells == 0 .. capacity - 1

TypeOK == /\ container \in [Cells -> Elem]
          /\ head \in Cells /\ tail \in Cells
          /\ pushed \in BOOLEAN /\ popped \in Elem

modular_inc(x, mod) == (x + 1) % mod

queue_init == /\ container \in [Cells -> Elem]
              /\ head = 0 /\ tail = 0
              /\ pushed = FALSE /\ popped = 0

queue_is_empty == head = tail

\* Faulty variant: no cell is kept empty.
queue_never_full == FALSE

queue_is_full == head = modular_inc(tail, capacity)

\* Faulty variant: the element goes to the cell after tail.
queue_push_after(e) ==
  IF queue_is_full
  THEN pushed' = FALSE /\ UNCHANGED <<container, head, tail, popped>>
  ELSE /\ tail' = modular_inc(tail, capacity)
       /\ container' = [container EXCEPT ![tail'] = e]
       /\ pushed' = TRUE
       /\ UNCHANGED <<head, popped>>

queue_push(e) ==
  IF queue_is_full
  THEN pushed' = FALSE /\ UNCHANGED <<container, head, tail, popped>>
  ELSE /\ container' = [container EXCEPT ![tail] = e]
       /\ tail' = modular_inc(tail, capacity)
       /\ pushed' = TRUE
       /\ UNCHANGED <<head, popped>>

queue_pop ==
  /\ IF queue_is_empty
     THEN popped' = 0 /\ UNCHANGED head
     ELSE /\ popped' = container[head]
          /\ head' = modular_inc(head, capacity)
  /\ UNCHANGED <<container, tail, pushed>>

Next == queue_pop \/ \E e \in Elem : queue_push(e)

Spec == queue_init /\ [][Next]_vars

-----------------------------------------------------------------------------
\* The cells from head up to tail, read around the ring.
Size == (tail - head) % capacity
Contents == [i \in 1 .. Size |-> container[(head + i - 1) % capacity]]

Fifo == INSTANCE BoundedFifo WITH Bound <- capacity - 1, contents <- Contents

\* The ring implements a bounded FIFO of capacity - 1 elements: head and tail
\* wrap around any number of times without losing, repeating or reordering an
\* element, and queue_push refuses exactly when capacity - 1 elements wait.
ImplementsBoundedFifo == Fifo!FifoSpec
=============================================================================
