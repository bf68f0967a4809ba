---------------------------- MODULE BoundedFifo ----------------------------
(***************************************************************************)
(* What a bounded first-in first-out queue promises its caller: at most    *)
(* Bound elements, in order; a push that does not fit is refused, and a    *)
(* pop of an empty queue returns 0.  The Kernel module uses a sender queue *)
(* as this sequence; Queue shows that the ring of queue.c implements it.   *)
(***************************************************************************)
EXTENDS Integers, Sequences

CONSTANTS Bound, Elem

VARIABLES
  contents,  \* the elements, oldest first
  pushed,    \* what the last push returned
  popped     \* what the last pop returned

fifoVars == <<contents, pushed, popped>>

FifoInit == contents = <<>> /\ pushed = FALSE /\ popped = 0

Push(e) ==
  /\ IF Len(contents) < Bound
     THEN contents' = Append(contents, e) /\ pushed' = TRUE
     ELSE contents' = contents /\ pushed' = FALSE
  /\ UNCHANGED popped

Pop ==
  /\ IF contents = <<>>
     THEN contents' = contents /\ popped' = 0
     ELSE contents' = Tail(contents) /\ popped' = Head(contents)
  /\ UNCHANGED pushed

FifoNext == Pop \/ \E e \in Elem : Push(e)

FifoSpec == FifoInit /\ [][FifoNext]_fifoVars
=============================================================================
