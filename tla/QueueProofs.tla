---------------------------- MODULE QueueProofs ----------------------------
(***************************************************************************)
(* The ring of queue.c implements a bounded FIFO for every capacity and    *)
(* every set of elements.  The argument: modular_inc stays inside the      *)
(* ring, and the cells from head to tail, read around the ring, are the    *)
(* abstract sequence; a push extends that reading by the cell at tail, a   *)
(* pop shortens it by the cell at head.                                    *)
(***************************************************************************)
EXTENDS Queue, SequenceTheorems, TLAPS

\* What the remainder is at most one turn away from the ring's indices.
LEMMA Remainder ==
  ASSUME NEW c \in Nat \ {0}, NEW x \in (-c) .. (2 * c - 1)
  PROVE  x % c = IF x < 0 THEN x + c ELSE IF x < c THEN x ELSE x - c
<1>1. CASE x < 0
  BY <1>1, SMT
<1>2. CASE 0 <= x /\ x < c
  BY <1>2, SMT
<1>3. CASE c <= x
  BY <1>3, SMT
<1> QED
  BY <1>1, <1>2, <1>3

\* The number of elements between two positions of the ring.
LEMMA Distance ==
  ASSUME NEW h \in Cells, NEW t \in Cells
  PROVE  (t - h) % capacity = IF t >= h THEN t - h ELSE t - h + capacity
<1>1. PICK x \in Int : x = t - h
  BY RingAssumption DEF Cells
<1>2. capacity \in Nat \ {0} /\ x \in (-capacity) .. (2 * capacity - 1) /\ x < capacity
  BY <1>1, RingAssumption DEF Cells
<1>3. x % capacity = IF x < 0 THEN x + capacity ELSE IF x < capacity THEN x ELSE x - capacity
  BY <1>2, Remainder
<1> QED
  BY <1>1, <1>2, <1>3 DEF Cells

\* The number of waiting elements, as TypeOK's head and tail determine it.
LEMMA SizeIs ==
  ASSUME TypeOK
  PROVE  Size = IF tail >= head THEN tail - head ELSE tail - head + capacity
BY Distance DEF Size, TypeOK

\* The i-th element from a position of the ring is in a cell of the ring.
LEMMA CellFrom ==
  ASSUME NEW h \in Cells, NEW i \in 1 .. capacity
  PROVE  (h + i - 1) % capacity =
           IF h + i - 1 < capacity THEN h + i - 1 ELSE h + i - 1 - capacity
<1>1. PICK x \in Int : x = h + i - 1
  BY RingAssumption DEF Cells
<1>2. capacity \in Nat \ {0} /\ x \in (-capacity) .. (2 * capacity - 1) /\ x >= 0
  BY <1>1, RingAssumption DEF Cells
<1>3. x % capacity = IF x < 0 THEN x + capacity ELSE IF x < capacity THEN x ELSE x - capacity
  BY <1>2, Remainder
<1> QED
  BY <1>1, <1>2, <1>3, RingAssumption DEF Cells

\* The i-th waiting element is in a cell of the ring.
LEMMA CellIs ==
  ASSUME TypeOK, NEW i \in 1 .. capacity
  PROVE  (head + i - 1) % capacity =
           IF head + i - 1 < capacity THEN head + i - 1 ELSE head + i - 1 - capacity
BY CellFrom DEF TypeOK

\* modular_inc of a ring index.
LEMMA IncIs ==
  ASSUME NEW x \in Cells
  PROVE  /\ modular_inc(x, capacity) = IF x + 1 = capacity THEN 0 ELSE x + 1
         /\ modular_inc(x, capacity) \in Cells
<1>1. PICK y \in Int : y = x + 1
  BY RingAssumption DEF Cells
<1>2. capacity \in Nat \ {0} /\ y \in (-capacity) .. (2 * capacity - 1) /\ y >= 1
      /\ y <= capacity
  BY <1>1, RingAssumption DEF Cells
<1>3. y % capacity = IF y < 0 THEN y + capacity ELSE IF y < capacity THEN y ELSE y - capacity
  BY <1>2, Remainder
<1> QED
  BY <1>1, <1>2, <1>3 DEF modular_inc, Cells

LEMMA QueueTyped == TypeOK /\ [Next]_vars => TypeOK'
<1> SUFFICES ASSUME TypeOK, [Next]_vars PROVE TypeOK'
  OBVIOUS
<1>0. 0 \in Elem /\ modular_inc(tail, capacity) \in Cells /\ modular_inc(head, capacity) \in Cells
  BY RingAssumption, IncIs DEF TypeOK
<1>1. CASE queue_pop
  BY <1>0, <1>1 DEF queue_pop, TypeOK, Cells
<1>2. ASSUME NEW e \in Elem, queue_push(e) PROVE TypeOK'
  BY <1>0, <1>2 DEF queue_push, TypeOK
<1>3. CASE UNCHANGED vars
  BY <1>3 DEF vars, TypeOK
<1> QED
  BY <1>1, <1>2, <1>3 DEF Next

\* The waiting elements form a sequence shorter than the ring.
LEMMA ContentsTyped ==
  ASSUME TypeOK
  PROVE  Contents \in Seq(Elem) /\ Len(Contents) = Size /\ Size \in 0 .. capacity - 1
<1>1. Size \in 0 .. capacity - 1
  BY SizeIs, RingAssumption DEF TypeOK, Cells
<1>2. ASSUME NEW i \in 1 .. Size PROVE container[(head + i - 1) % capacity] \in Elem
  <2>1. i \in 1 .. capacity
    BY <1>1, RingAssumption
  <2>2. (head + i - 1) % capacity \in Cells
    BY <2>1, CellIs, RingAssumption DEF TypeOK, Cells
  <2> QED
    BY <2>2 DEF TypeOK
<1> QED
  BY <1>1, <1>2 DEF Contents

\* A push that fits appends to the abstract sequence.
LEMMA PushAppends ==
  ASSUME TypeOK, NEW e \in Elem, ~queue_is_full, queue_push(e)
  PROVE  Len(Contents) < capacity - 1 /\ Contents' = Append(Contents, e)
<1>1. TypeOK'
  BY QueueTyped DEF Next
<1>2. /\ container' = [container EXCEPT ![tail] = e] /\ head' = head
      /\ tail' = IF tail + 1 = capacity THEN 0 ELSE tail + 1
      /\ head # tail' /\ head \in Cells /\ tail \in Cells /\ capacity \in Nat \ {0}
  BY IncIs, RingAssumption DEF queue_push, queue_is_full, TypeOK
<1>3. Size' = IF tail' >= head' THEN tail' - head' ELSE tail' - head' + capacity
  BY <1>1, Distance DEF Size, TypeOK
<1>4. Size' = Size + 1 /\ Size < capacity - 1
  BY <1>2, <1>3, SizeIs DEF Cells
<1>5. Size \in Nat /\ Len(Contents) = Size /\ Contents \in Seq(Elem)
  BY ContentsTyped
<1>6. ASSUME NEW i \in 1 .. Size + 1
      PROVE  container'[(head' + i - 1) % capacity] = Append(Contents, e)[i]
  <2>1. i \in 1 .. capacity /\ i \in Nat
    BY <1>2, <1>4, <1>5
  <2>2. (head + i - 1) % capacity =
          IF head + i - 1 < capacity THEN head + i - 1 ELSE head + i - 1 - capacity
    BY <2>1, CellIs
  <2>3. CASE i = Size + 1
    <3>1. (head + i - 1) % capacity = tail
      BY <1>2, <2>2, <2>3, SizeIs DEF Cells
    <3> QED
      BY <3>1, <2>3, <1>2, <1>5 DEF TypeOK
  <2>4. CASE i \in 1 .. Size
    <3>1. (head + i - 1) % capacity # tail /\ (head + i - 1) % capacity \in Cells
      BY <1>2, <1>4, <2>2, <2>4, SizeIs DEF Cells
    <3>2. Append(Contents, e)[i] = Contents[i]
      BY <1>5, <2>4
    <3> QED
      BY <3>1, <3>2, <2>4, <1>2 DEF Contents, TypeOK
  <2> QED
    BY <2>3, <2>4, <1>5
<1>7. Contents' = [i \in 1 .. Size + 1 |-> container'[(head' + i - 1) % capacity]]
  BY <1>4 DEF Contents
<1>8. Append(Contents, e) = [i \in 1 .. Size + 1 |-> Append(Contents, e)[i]]
  <2>1. Append(Contents, e) \in Seq(Elem) /\ Len(Append(Contents, e)) = Size + 1
    BY <1>5, AppendProperties
  <2>2. Append(Contents, e) \in [1 .. Size + 1 -> Elem]
    BY <2>1, LenProperties
  <2> QED
    BY <2>2
<1> QED
  BY <1>4, <1>5, <1>6, <1>7, <1>8

\* A pop of a non-empty ring takes the head of the abstract sequence.
LEMMA PopTakesHead ==
  ASSUME TypeOK, ~queue_is_empty, queue_pop
  PROVE  /\ Contents # <<>> /\ Contents' = Tail(Contents)
         /\ popped' = Head(Contents)
<1>1. TypeOK'
  BY QueueTyped DEF Next
<1>2. /\ container' = container /\ tail' = tail /\ popped' = container[head]
      /\ head' = IF head + 1 = capacity THEN 0 ELSE head + 1
      /\ head # tail /\ head \in Cells /\ tail \in Cells /\ capacity \in Nat \ {0}
  BY IncIs, RingAssumption DEF queue_pop, queue_is_empty, TypeOK
<1>3. Size' = IF tail' >= head' THEN tail' - head' ELSE tail' - head' + capacity
  BY <1>1, Distance DEF Size, TypeOK
<1>4. Size' = Size - 1 /\ Size >= 1
  BY <1>2, <1>3, SizeIs DEF Cells
<1>5. Size \in 0 .. capacity - 1 /\ Len(Contents) = Size /\ Contents \in Seq(Elem)
  BY ContentsTyped
<1>6. ASSUME NEW i \in 1 .. Size - 1
      PROVE  container'[(head' + i - 1) % capacity] = Tail(Contents)[i]
  <2>1. i \in 1 .. capacity /\ i + 1 \in 1 .. capacity /\ i + 1 \in 1 .. Size
    BY <1>2, <1>4, <1>5
  <2>2. (head' + i - 1) % capacity =
          IF head' + i - 1 < capacity THEN head' + i - 1 ELSE head' + i - 1 - capacity
    BY <1>1, <2>1, CellFrom DEF TypeOK
  <2>3. (head + (i + 1) - 1) % capacity =
          IF head + (i + 1) - 1 < capacity THEN head + (i + 1) - 1
          ELSE head + (i + 1) - 1 - capacity
    BY <2>1, CellIs
  <2>4. (head' + i - 1) % capacity = (head + (i + 1) - 1) % capacity
    BY <1>2, <2>1, <2>2, <2>3 DEF Cells
  <2>5. Tail(Contents)[i] = Contents[i + 1]
    BY <1>5, <1>4, <2>1
  <2> QED
    BY <2>1, <2>4, <2>5, <1>2 DEF Contents
<1>7. Contents' = [i \in 1 .. Size - 1 |-> container'[(head' + i - 1) % capacity]]
  BY <1>4 DEF Contents
<1>8. Tail(Contents) = [i \in 1 .. Size - 1 |-> Tail(Contents)[i]]
  <2>1. Tail(Contents) \in Seq(Elem) /\ Len(Tail(Contents)) = Size - 1
    BY <1>4, <1>5, HeadTailProperties
  <2>2. Tail(Contents) \in [1 .. Size - 1 -> Elem]
    BY <2>1, LenProperties
  <2> QED
    BY <2>2
<1>9. Head(Contents) = container[head]
  <2>1. (head + 1 - 1) % capacity = head
    BY <1>2, CellIs DEF Cells
  <2> QED
    BY <2>1, <1>4, <1>5 DEF Contents
<1> QED
  BY <1>2, <1>4, <1>5, <1>6, <1>7, <1>8, <1>9

\* A full ring holds capacity - 1 elements; an empty one none.
LEMMA FullAndEmpty ==
  ASSUME TypeOK
  PROVE  /\ queue_is_full => Len(Contents) = capacity - 1
         /\ queue_is_empty => Contents = <<>>
<1>1. Contents \in Seq(Elem) /\ Len(Contents) = Size
  BY ContentsTyped
<1>2. queue_is_full => Size = capacity - 1
  <2>1. tail \in Cells /\ head \in Cells /\ capacity \in Nat \ {0}
    BY RingAssumption DEF TypeOK
  <2>2. modular_inc(tail, capacity) = IF tail + 1 = capacity THEN 0 ELSE tail + 1
    BY <2>1, IncIs
  <2>3. Size = IF tail >= head THEN tail - head ELSE tail - head + capacity
    BY SizeIs
  <2> QED
    BY <2>1, <2>2, <2>3 DEF Cells, queue_is_full
<1>3. queue_is_empty => Size = 0
  <2>1. Size = IF tail >= head THEN tail - head ELSE tail - head + capacity
    BY SizeIs
  <2> QED
    BY <2>1, RingAssumption DEF TypeOK, Cells, queue_is_empty
<1> QED
  BY <1>1, <1>2, <1>3

\* queue.c implements BoundedFifo for every capacity.
THEOREM RingImplementsFifo == Spec => ImplementsBoundedFifo
<1>1. queue_init => TypeOK
  <2>1. 0 \in Cells /\ 0 \in Elem
    BY RingAssumption DEF Cells
  <2> QED
    BY <2>1 DEF queue_init, TypeOK
<1>2. queue_init => Fifo!FifoInit
  <2> SUFFICES ASSUME queue_init PROVE Fifo!FifoInit
    OBVIOUS
  <2>1. Contents = <<>>
    BY <1>1, FullAndEmpty DEF queue_init, queue_is_empty
  <2> QED
    BY <2>1 DEF queue_init, Fifo!FifoInit
<1>3. TypeOK /\ [Next]_vars => [Fifo!FifoNext]_(Fifo!fifoVars)
  <2> SUFFICES ASSUME TypeOK, [Next]_vars PROVE [Fifo!FifoNext]_(Fifo!fifoVars)
    OBVIOUS
  <2>1. CASE queue_pop
    <3>1. Fifo!Pop
      <4>1. CASE queue_is_empty
        <5>1. Contents = <<>>
          BY <4>1, FullAndEmpty
        <5>2. Contents' = Contents
          BY <2>1, <4>1 DEF queue_pop, Contents, Size
        <5> QED
          BY <5>1, <5>2, <4>1, <2>1 DEF queue_pop, Fifo!Pop
      <4>2. CASE ~queue_is_empty
        BY <4>2, <2>1, PopTakesHead DEF queue_pop, Fifo!Pop
      <4> QED
        BY <4>1, <4>2
    <3> QED
      BY <3>1 DEF Fifo!FifoNext
  <2>2. ASSUME NEW e \in Elem, queue_push(e) PROVE [Fifo!FifoNext]_(Fifo!fifoVars)
    <3>1. Fifo!Push(e)
      <4>1. CASE queue_is_full
        <5>1. ~(Len(Contents) < capacity - 1)
          BY <4>1, FullAndEmpty, RingAssumption
        <5>2. Contents' = Contents
          BY <2>2, <4>1 DEF queue_push, Contents, Size
        <5> QED
          BY <5>1, <5>2, <4>1, <2>2 DEF queue_push, Fifo!Push
      <4>2. CASE ~queue_is_full
        BY <4>2, <2>2, PushAppends DEF queue_push, Fifo!Push
      <4> QED
        BY <4>1, <4>2
    <3> QED
      BY <3>1 DEF Fifo!FifoNext
  <2>3. CASE UNCHANGED vars
    BY <2>3 DEF vars, Fifo!fifoVars, Contents, Size
  <2> QED
    BY <2>1, <2>2, <2>3 DEF Next
<1>4. Spec => []TypeOK
  BY <1>1, QueueTyped, PTL DEF Spec
<1> QED
  BY <1>2, <1>3, <1>4, PTL DEF Spec, ImplementsBoundedFifo, Fifo!FifoSpec
=============================================================================
