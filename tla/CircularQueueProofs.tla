------------------------- MODULE CircularQueueProofs -------------------------
(***************************************************************************)
(* For every capacity, byte alphabet and block size: the ring of           *)
(* CircularQueue keeps its fields consistent and implements the FIFO store *)
(* of BoundedFifo.                                                         *)
(***************************************************************************)
EXTENDS CircularQueue, TLAPS

USE SizeAssumption, ByteAssumption, MaxBatchAssumption

-----------------------------------------------------------------------------
(* Going round a ring of Size places at most once: the remainder is the    *)
(* number itself or the number less Size.                                  *)
LEMMA ModOnce ==
  ASSUME NEW a \in Nat, a < 2 * Size
  PROVE  a % Size = IF a < Size THEN a ELSE a - Size
BY SMT

(* enqueue and dequeue advance an index inside the array.                  *)
LEMMA AdvanceInIndex ==
  ASSUME NEW i \in Index, NEW n \in 0..Size
  PROVE  /\ Advance(i, n) \in Index
         /\ Advance(i, n) = IF i + n < Size THEN i + n ELSE i + n - Size
BY ModOnce DEF Advance, Index

(* Offset is the distance from one place of the ring forward to another.   *)
LEMMA OffsetInIndex ==
  ASSUME NEW i \in Index, NEW j \in Index
  PROVE  /\ Offset(i, j) \in Index
         /\ Offset(i, j) = IF i <= j THEN j - i ELSE j + Size - i
<1>1. j + Size - i \in Nat /\ j + Size - i < 2 * Size
  BY DEF Index
<1>2. QED
  BY <1>1, ModOnce DEF Offset, Index

(* A block is a sequence of bytes no longer than MaxBatch.                 *)
LEMMA BlockIsSeq ==
  ASSUME NEW buf \in Block
  PROVE  /\ buf \in Seq(Byte)
         /\ Len(buf) \in 0..MaxBatch
         /\ \A k \in 1..Len(buf) : buf[k] \in Byte
<1>1. PICK n \in 0..MaxBatch : buf \in [1..n -> Byte]
  BY DEF Block
<1>2. buf \in Seq(Byte) /\ Len(buf) = n
  BY <1>1
<1>3. QED
  BY <1>1, <1>2

(* A call that moves nothing reports the empty block.                      *)
LEMMA EmptyIsBlock == <<>> \in Block
<1>1. <<>> \in [1..0 -> Byte]
  OBVIOUS
<1>2. QED
  BY <1>1 DEF Block

-----------------------------------------------------------------------------
(* The inductive invariant: the types, and that two of the fields          *)
(* determine the third.                                                    *)
IInv == TypeOK /\ RingConsistent

(* The constructor leaves an empty ring that satisfies the invariant.       *)
LEMMA InitIInv == Init => IInv
<1> SUFFICES ASSUME Init PROVE IInv
  OBVIOUS
<1>2. TypeOK
  BY EmptyIsBlock DEF Init, TypeOK, Index, Reply
<1>3. RingConsistent
  BY ModOnce DEF Init, RingConsistent, size
<1>4. QED
  BY <1>2, <1>3 DEF IInv

(* A rejected call changes none of the three fields.                       *)
LEMMA RejectIInv == ASSUME IInv, Reject PROVE IInv'
BY EmptyIsBlock DEF IInv, TypeOK, RingConsistent, Reject, Reply, size

(* What the invariant says of the three fields, as arithmetic.             *)
LEMMA Fields ==
  ASSUME IInv
  PROVE  /\ front \in 0..(Size - 1)
         /\ rear \in 0..(Size - 1)
         /\ num_free_bytes \in 0..Size
         /\ size \in 0..Size
         /\ size = Size - num_free_bytes
         /\ rear = IF front + size < Size THEN front + size ELSE front + size - Size
<1>1. /\ front \in 0..(Size - 1)
      /\ rear \in 0..(Size - 1)
      /\ num_free_bytes \in 0..Size
  BY DEF IInv, TypeOK, Index
<1>2. size \in 0..Size /\ size = Size - num_free_bytes
  BY <1>1 DEF size
<1>3. Advance(front, size) = IF front + size < Size THEN front + size
                                                    ELSE front + size - Size
  BY <1>1, <1>2, AdvanceInIndex DEF Index
<1>4. rear = Advance(front, size)
  BY DEF IInv, RingConsistent, Advance
<1>5. QED
  BY <1>1, <1>2, <1>3, <1>4

(* enqueue keeps the invariant: the byte-by-byte advance of rear and the    *)
(* count of free bytes stay in step, also around the end of the array.      *)
LEMMA EnqueueIInv == ASSUME IInv, NEW buf \in Block, Enqueue(buf) PROVE IInv'
<1>1. CASE Overflows(Len(buf))
  <2>1. Reject
    BY <1>1 DEF Enqueue
  <2>2. QED
    BY <2>1, RejectIInv
<1>2. CASE ~Overflows(Len(buf))
  <2> DEFINE len == Len(buf)
  <2>1. /\ data' = [i \in Index |-> IF Offset(rear, i) < len
                                      THEN buf[Offset(rear, i) + 1]
                                      ELSE data[i]]
        /\ rear' = Advance(rear, len)
        /\ num_free_bytes' = num_free_bytes - len
        /\ outcome' = Reply(TRUE, <<>>)
        /\ front' = front
    BY <1>2 DEF Enqueue
  <2>2. len \in Nat /\ (\A k \in 1..len : buf[k] \in Byte)
    BY BlockIsSeq
  <2> HIDE DEF len
  <2>3. len \in 0..Size /\ len <= num_free_bytes
    BY <1>2, <2>2, Fields DEF Overflows, len
  <2>4. data' \in [Index -> Byte]
    <3>1. ASSUME NEW i \in Index, Offset(rear, i) < len
          PROVE  buf[Offset(rear, i) + 1] \in Byte
      <4>1. Offset(rear, i) \in 0..(Size - 1)
        BY Fields, OffsetInIndex DEF Index
      <4>2. Offset(rear, i) + 1 \in 1..len
        BY <2>3, <3>1, <4>1
      <4>3. QED
        BY <2>2, <4>2
    <3>2. data \in [Index -> Byte]
      BY DEF IInv, TypeOK
    <3>3. QED
      BY <2>1, <3>1, <3>2
  <2>5. /\ rear' \in 0..(Size - 1)
        /\ rear' = IF rear + len < Size THEN rear + len ELSE rear + len - Size
    BY <2>1, <2>3, Fields, AdvanceInIndex DEF Index
  <2>6. num_free_bytes' \in 0..Size /\ size' = size + len
    BY <2>1, <2>3, Fields DEF size
  <2>7. outcome' \in [ok : BOOLEAN, buf : Block]
    BY <2>1, EmptyIsBlock DEF Reply
  <2>8. RingConsistent'
    <3>1. size' \in 0..Size
      BY <2>3, <2>6, Fields
    <3>2. Advance(front, size') = IF front + size' < Size THEN front + size'
                                                     ELSE front + size' - Size
      BY <3>1, Fields, AdvanceInIndex DEF Index
    <3>3. rear' = Advance(front, size')
      <4>1. CASE front + size < Size
        <5>1. rear = front + size
          BY <4>1, Fields
        <5>2. QED
          BY <2>3, <2>5, <2>6, <3>1, <3>2, <5>1, Fields
      <4>2. CASE ~(front + size < Size)
        <5>1. rear = front + size - Size
          BY <4>2, Fields
        <5>2. QED
          BY <2>3, <2>5, <2>6, <3>1, <3>2, <4>2, <5>1, Fields
      <4>3. QED
        BY <4>1, <4>2
    <3>4. QED
      BY <2>1, <3>3 DEF RingConsistent, Advance
  <2>9. QED
    BY <2>1, <2>4, <2>5, <2>6, <2>7, <2>8, Fields DEF IInv, TypeOK, Index
<1>3. QED
  BY <1>1, <1>2

(* dequeue keeps the invariant: front advances by as much as is freed.      *)
LEMMA DequeueIInv == ASSUME IInv, NEW n \in 0..MaxBatch, Dequeue(n) PROVE IInv'
<1>1. CASE Underflows(n)
  <2>1. Reject
    BY <1>1 DEF Dequeue
  <2>2. QED
    BY <2>1, RejectIInv
<1>2. CASE ~Underflows(n)
  <2>1. /\ outcome' = Reply(TRUE, [i \in 1..n |-> data[(front + i - 1) % Size]])
        /\ front' = Advance(front, n)
        /\ num_free_bytes' = num_free_bytes + n
        /\ data' = data /\ rear' = rear
    BY <1>2 DEF Dequeue
  <2>2. n \in 0..Size /\ n <= size /\ num_free_bytes + n \in 0..Size
    BY <1>2, Fields DEF Underflows
  <2>3. /\ front' \in 0..(Size - 1)
        /\ front' = IF front + n < Size THEN front + n ELSE front + n - Size
    BY <2>1, <2>2, Fields, AdvanceInIndex DEF Index
  <2>4. size' = size - n
    BY <2>1, <2>2, Fields DEF size
  <2>5. outcome' \in [ok : BOOLEAN, buf : Block]
    <3>1. ASSUME NEW i \in 1..n PROVE (front + i - 1) % Size \in Index
      <4>1. i - 1 \in 0..Size /\ front + (i - 1) = front + i - 1
        BY <2>2, Fields
      <4>2. Advance(front, i - 1) \in Index
        BY <4>1, Fields, AdvanceInIndex DEF Index
      <4>3. QED
        BY <4>1, <4>2 DEF Advance
    <3>2. data \in [Index -> Byte]
      BY DEF IInv, TypeOK
    <3>3. [i \in 1..n |-> data[(front + i - 1) % Size]] \in [1..n -> Byte]
      BY <3>1, <3>2
    <3>4. [i \in 1..n |-> data[(front + i - 1) % Size]] \in Block
      BY <3>3 DEF Block
    <3>5. QED
      BY <2>1, <3>4 DEF Reply
  <2>6. RingConsistent'
    <3>1. size' \in 0..Size
      BY <2>2, <2>3, <2>4, Fields
    <3>2. Advance(front', size') = IF front' + size' < Size THEN front' + size'
                                                       ELSE front' + size' - Size
      BY <2>3, <3>1, Fields, AdvanceInIndex DEF Index
    <3>3. rear' = Advance(front', size')
      <4>1. CASE front + size < Size
        <5>1. rear' = front + size
          BY <2>1, <4>1, Fields
        <5>2. QED
          BY <2>2, <2>3, <2>4, <3>1, <3>2, <4>1, <5>1, Fields
      <4>2. CASE ~(front + size < Size)
        <5>1. rear' = front + size - Size
          BY <2>1, <4>2, Fields
        <5>2. QED
          BY <2>2, <2>3, <2>4, <3>1, <3>2, <4>2, <5>1, Fields
      <4>3. QED
        BY <4>1, <4>2
    <3>4. QED
      BY <2>1, <3>3 DEF RingConsistent, Advance
  <2>7. QED
    BY <2>1, <2>2, <2>3, <2>5, <2>6, Fields DEF IInv, TypeOK, Index
<1>3. QED
  BY <1>1, <1>2

(* Every call, and a stuttering step, keeps the invariant.                  *)
LEMMA NextIInv == IInv /\ [Next]_vars => IInv'
<1> SUFFICES ASSUME IInv, [Next]_vars PROVE IInv'
  OBVIOUS
<1>1. CASE \E buf \in Block : Enqueue(buf)
  BY <1>1, EnqueueIInv
<1>2. CASE \E n \in 0..MaxBatch : Dequeue(n)
  BY <1>2, DequeueIInv
<1>3. CASE UNCHANGED vars
  BY <1>3 DEF vars, IInv, TypeOK, RingConsistent, size
<1>4. QED
  BY <1>1, <1>2, <1>3 DEF Next

-----------------------------------------------------------------------------
(* Every field of the ring keeps its type: no call moves an index out of   *)
(* the array or the count of free bytes past the capacity.                 *)
THEOREM TypeCorrect == Spec => []TypeOK
<1>1. IInv => TypeOK
  BY DEF IInv
<1>2. QED
  BY InitIInv, NextIInv, <1>1, PTL DEF Spec

(* front, rear and _num_free_bytes never disagree about what is held.      *)
THEOREM Consistent == Spec => []RingConsistent
<1>1. IInv => RingConsistent
  BY DEF IInv
<1>2. QED
  BY InitIInv, NextIInv, <1>1, PTL DEF Spec

-----------------------------------------------------------------------------
(* How far from rear the k-th place from front is: a place in use is at    *)
(* least the free bytes away, a free place is counted from rear.           *)
LEMMA PlaceOffset ==
  ASSUME IInv, NEW k \in 1..Size
  PROVE  /\ Advance(front, k - 1) \in Index
         /\ Offset(rear, Advance(front, k - 1)) =
              IF k <= size THEN num_free_bytes + k - 1 ELSE k - 1 - size
<1> DEFINE p == Advance(front, k - 1)
<1>1. k - 1 \in 0..Size
  OBVIOUS
<1>2. /\ p \in 0..(Size - 1)
      /\ p = IF front + (k - 1) < Size THEN front + (k - 1)
                                       ELSE front + (k - 1) - Size
  BY <1>1, Fields, AdvanceInIndex DEF Index
<1> HIDE DEF p
<1>3. Offset(rear, p) = IF rear <= p THEN p - rear ELSE p + Size - rear
  BY <1>2, Fields, OffsetInIndex DEF Index
<1>4. CASE front + size < Size
  <2>1. rear = front + size
    BY <1>4, Fields
  <2>2. QED
    BY <1>2, <1>3, <1>4, <2>1, Fields DEF p, Index
<1>5. CASE ~(front + size < Size)
  <2>1. rear = front + size - Size
    BY <1>5, Fields
  <2>2. QED
    BY <1>2, <1>3, <1>5, <2>1, Fields DEF p, Index
<1>6. QED
  BY <1>4, <1>5

(* The mapped contents: one byte for each byte in use.                     *)
LEMMA ContentsIsSeq ==
  ASSUME IInv
  PROVE  /\ contents \in Seq(Byte)
         /\ Len(contents) = size
         /\ contents = [i \in 1..size |-> data[Advance(front, i - 1)]]
<1>1. ASSUME NEW i \in 1..size
      PROVE  /\ (front + i - 1) % Size = Advance(front, i - 1)
             /\ data[Advance(front, i - 1)] \in Byte
  <2>1. i \in 1..Size /\ front + (i - 1) = front + i - 1
    BY Fields
  <2>2. Advance(front, i - 1) \in Index
    BY <2>1, PlaceOffset
  <2>3. data \in [Index -> Byte]
    BY DEF IInv, TypeOK
  <2>4. QED
    BY <2>1, <2>2, <2>3 DEF Advance
<1>2. contents = [i \in 1..size |-> data[Advance(front, i - 1)]]
  BY <1>1 DEF contents
<1>3. size \in Nat
  BY Fields
<1>4. QED
  BY <1>1, <1>2, <1>3

(* The same of the next state.                                             *)
LEMMA ContentsNext ==
  ASSUME front' \in 0..(Size - 1), size' \in 0..Size
  PROVE  contents' = [i \in 1..size' |-> data'[Advance(front', i - 1)]]
<1>1. \A i \in 1..size' : (front' + i - 1) % Size = Advance(front', i - 1)
  <2> SUFFICES ASSUME NEW i \in 1..size'
               PROVE  (front' + i - 1) % Size = Advance(front', i - 1)
    OBVIOUS
  <2>1. front' + (i - 1) = front' + i - 1
    OBVIOUS
  <2>2. QED
    BY <2>1 DEF Advance
<1>2. QED
  BY <1>1 DEF contents

(* enqueue appends to the contents, or leaves them alone and says so.      *)
LEMMA EnqueueIsPut ==
  ASSUME IInv, NEW buf \in Block, Enqueue(buf)
  PROVE  Fifo!Put(buf)
<1>1. Len(contents) = size /\ contents \in Seq(Byte) /\ size = Size - num_free_bytes
  BY ContentsIsSeq, Fields
<1>2. CASE Overflows(Len(buf))
  <2>1. Reject
    BY <1>2 DEF Enqueue
  <2>2. contents' = contents /\ outcome' = Fifo!Reply(FALSE, <<>>)
    BY <2>1 DEF Reject, contents, size, Reply, Fifo!Reply
  <2>3. Len(contents) + Len(buf) > Size
    BY <1>1, <1>2, Fields, BlockIsSeq DEF Overflows
  <2>4. QED
    BY <2>2, <2>3 DEF Fifo!Put
<1>3. CASE ~Overflows(Len(buf))
  <2> DEFINE len == Len(buf)
  <2>1. /\ data' = [i \in Index |-> IF Offset(rear, i) < len
                                      THEN buf[Offset(rear, i) + 1]
                                      ELSE data[i]]
        /\ num_free_bytes' = num_free_bytes - len
        /\ outcome' = Reply(TRUE, <<>>)
        /\ front' = front
    BY <1>3 DEF Enqueue
  <2>2. len \in Nat /\ buf \in Seq(Byte)
    BY BlockIsSeq
  <2> HIDE DEF len
  <2>3. len <= num_free_bytes /\ size' = size + len /\ size + len <= Size
    BY <1>3, <2>1, <2>2, Fields DEF Overflows, len, size
  <2>4. contents' = [i \in 1..(size + len) |-> data'[Advance(front, i - 1)]]
    <3>1. contents' = [i \in 1..size' |-> data'[Advance(front', i - 1)]]
      BY <2>1, <2>2, <2>3, Fields, ContentsNext
    <3>2. QED
      BY <2>1, <2>3, <3>1
  <2>5. ASSUME NEW k \in 1..(size + len)
        PROVE  data'[Advance(front, k - 1)] =
                 IF k <= size THEN contents[k] ELSE buf[k - size]
    <3>1. k \in 1..Size /\ Advance(front, k - 1) \in Index
      BY <2>2, <2>3, Fields, PlaceOffset
    <3>2. CASE k <= size
      <4>1. Offset(rear, Advance(front, k - 1)) = num_free_bytes + k - 1
        BY <3>1, <3>2, PlaceOffset
      <4>2. ~(Offset(rear, Advance(front, k - 1)) < len)
        BY <2>2, <2>3, <3>1, <4>1, Fields
      <4>3. contents[k] = data[Advance(front, k - 1)]
        BY <3>1, <3>2, ContentsIsSeq, Fields
      <4>4. QED
        BY <2>1, <3>1, <3>2, <4>2, <4>3
    <3>3. CASE ~(k <= size)
      <4>1. Offset(rear, Advance(front, k - 1)) = k - 1 - size
        BY <3>1, <3>3, PlaceOffset
      <4>2. k - 1 - size < len /\ (k - 1 - size) + 1 = k - size
        BY <2>2, <3>1, Fields
      <4>3. QED
        BY <2>1, <3>1, <3>3, <4>1, <4>2
    <3>4. QED
      BY <3>2, <3>3
  <2>6. contents' = contents \o buf
    <3>1. contents \o buf = [k \in 1..(size + len) |->
                               IF k <= size THEN contents[k] ELSE buf[k - size]]
      <4> DEFINE both == contents \o buf
      <4>1. /\ both \in Seq(Byte) /\ Len(both) = size + len
            /\ \A k \in 1..(size + len) :
                 both[k] = IF k <= size THEN contents[k] ELSE buf[k - size]
        BY <1>1, <2>2, Fields DEF len
      <4> HIDE DEF both
      <4>2. both = [k \in 1..Len(both) |-> both[k]]
        BY <4>1, SMT
      <4>3. both = [k \in 1..(size + len) |->
                      IF k <= size THEN contents[k] ELSE buf[k - size]]
        BY <4>1, <4>2
      <4>4. QED
        BY <4>3 DEF both
    <3>2. QED
      BY <2>4, <2>5, <3>1
  <2>7. Len(contents) + Len(buf) <= Size
    BY <1>1, <2>3 DEF len
  <2>8. outcome' = Fifo!Reply(TRUE, <<>>)
    BY <2>1 DEF Reply, Fifo!Reply
  <2>9. QED
    BY <2>6, <2>7, <2>8 DEF Fifo!Put
<1>4. QED
  BY <1>2, <1>3

(* dequeue hands out the oldest bytes and keeps the others.                *)
LEMMA DequeueIsGet ==
  ASSUME IInv, NEW n \in 0..MaxBatch, Dequeue(n)
  PROVE  Fifo!Get(n)
<1>1. Len(contents) = size /\ contents \in Seq(Byte) /\ size = Size - num_free_bytes
  BY ContentsIsSeq, Fields
<1>2. CASE Underflows(n)
  <2>1. Reject
    BY <1>2 DEF Dequeue
  <2>2. contents' = contents /\ outcome' = Fifo!Reply(FALSE, <<>>)
    BY <2>1 DEF Reject, contents, size, Reply, Fifo!Reply
  <2>3. n > Len(contents)
    BY <1>1, <1>2, Fields DEF Underflows
  <2>4. QED
    BY <2>2, <2>3 DEF Fifo!Get
<1>3. CASE ~Underflows(n)
  <2>1. /\ outcome' = Reply(TRUE, [i \in 1..n |-> data[(front + i - 1) % Size]])
        /\ front' = Advance(front, n)
        /\ num_free_bytes' = num_free_bytes + n
        /\ data' = data
    BY <1>3 DEF Dequeue
  <2>2. n <= size /\ size' = size - n /\ n \in 0..Size /\ size \in 0..Size
    BY <1>3, <2>1, Fields DEF Underflows, size
  <2>3. [i \in 1..n |-> data[(front + i - 1) % Size]] = SubSeq(contents, 1, n)
    <3>1. SubSeq(contents, 1, n) = [i \in 1..n |-> contents[i]]
      BY <1>1, <2>2
    <3>2. \A i \in 1..n : contents[i] = data[(front + i - 1) % Size]
      BY <2>2 DEF contents
    <3>3. QED
      BY <3>1, <3>2
  <2>4. contents' = SubSeq(contents, n + 1, Len(contents))
    <3>1. SubSeq(contents, n + 1, size) = [i \in 1..(size - n) |-> contents[i + n]]
      BY <1>1, <2>2
    <3>2. contents' = [i \in 1..(size - n) |-> data[Advance(front', i - 1)]]
      <4>1. contents' = [i \in 1..size' |-> data'[Advance(front', i - 1)]]
        <5>1. front' \in 0..(Size - 1)
          BY <2>1, <2>2, Fields, AdvanceInIndex DEF Index
        <5>2. QED
          BY <2>2, <5>1, ContentsNext
      <4>2. QED
        BY <2>1, <2>2, <4>1
    <3>3. ASSUME NEW i \in 1..(size - n)
          PROVE  contents[i + n] = data[Advance(front', i - 1)]
      <4>1. contents[i + n] = data[Advance(front, (i + n) - 1)]
        BY <2>2, ContentsIsSeq
      <4>2. i - 1 \in 0..Size /\ (i + n) - 1 \in 0..Size
        BY <2>2
      <4>3. Advance(front', i - 1) = Advance(front, (i + n) - 1)
        <5>1. /\ front' \in 0..(Size - 1)
              /\ front' = IF front + n < Size THEN front + n ELSE front + n - Size
          BY <2>1, <2>2, Fields, AdvanceInIndex DEF Index
        <5>2. Advance(front', i - 1) =
                IF front' + (i - 1) < Size THEN front' + (i - 1)
                                           ELSE front' + (i - 1) - Size
          BY <4>2, <5>1, AdvanceInIndex DEF Index
        <5>3. Advance(front, (i + n) - 1) =
                IF front + ((i + n) - 1) < Size THEN front + ((i + n) - 1)
                                                ELSE front + ((i + n) - 1) - Size
          BY <4>2, Fields, AdvanceInIndex DEF Index
        <5>4. CASE front + n < Size
          <6>1. front' = front + n
            BY <5>1, <5>4
          <6>2. QED
            BY <2>2, <5>2, <5>3, <6>1, Fields
        <5>5. CASE ~(front + n < Size)
          <6>1. front' = front + n - Size
            BY <5>1, <5>5
          <6>2. QED
            BY <2>2, <5>2, <5>3, <5>5, <6>1, Fields
        <5>6. QED
          BY <5>4, <5>5
      <4>4. QED
        BY <4>1, <4>3
    <3>4. QED
      BY <1>1, <3>1, <3>2, <3>3
  <2>5. outcome' = Fifo!Reply(TRUE, SubSeq(contents, 1, n))
    BY <2>1, <2>3 DEF Reply, Fifo!Reply
  <2>6. QED
    BY <1>1, <2>2, <2>4, <2>5 DEF Fifo!Get
<1>4. QED
  BY <1>2, <1>3

(* The ring implements the FIFO store for every capacity and block size:   *)
(* it starts empty, enqueue is Put and dequeue is Get.                     *)
THEOREM Implements == Spec => ImplementsFifo
<1>1. Init => Fifo!Init
  BY DEF Init, Fifo!Init, contents, size, Reply, Fifo!Reply
<1>2. IInv /\ [Next]_vars => [Fifo!Next]_(Fifo!vars)
  <2> SUFFICES ASSUME IInv, [Next]_vars PROVE [Fifo!Next]_(Fifo!vars)
    OBVIOUS
  <2>1. CASE \E buf \in Block : Enqueue(buf)
    <3>1. PICK buf \in Block : Enqueue(buf)
      BY <2>1
    <3>2. buf \in Fifo!Block
      BY DEF Block, Fifo!Block
    <3>3. QED
      BY <3>1, <3>2, EnqueueIsPut DEF Fifo!Next
  <2>2. CASE \E n \in 0..MaxBatch : Dequeue(n)
    <3>1. PICK n \in 0..MaxBatch : Dequeue(n)
      BY <2>2
    <3>2. QED
      BY <3>1, DequeueIsGet DEF Fifo!Next
  <2>3. CASE UNCHANGED vars
    BY <2>3 DEF vars, Fifo!vars, contents, size
  <2>4. QED
    BY <2>1, <2>2, <2>3 DEF Next
<1>3. QED
  BY InitIInv, NextIInv, <1>1, <1>2, PTL DEF Spec, Fifo!Spec, ImplementsFifo

(* enqueue writes into no place in use, also when it goes round the end of *)
(* the array.                                                              *)
LEMMA EnqueueKeepsHeld ==
  ASSUME IInv, NEW buf \in Block, Enqueue(buf), NEW k \in 1..size
  PROVE  data'[Advance(front, k - 1)] = data[Advance(front, k - 1)]
<1>1. CASE Overflows(Len(buf))
  BY <1>1 DEF Enqueue, Reject
<1>2. CASE ~Overflows(Len(buf))
  <2>1. data' = [i \in Index |-> IF Offset(rear, i) < Len(buf)
                                   THEN buf[Offset(rear, i) + 1]
                                   ELSE data[i]]
    BY <1>2 DEF Enqueue
  <2>2. k \in 1..Size
    BY Fields
  <2>3. /\ Advance(front, k - 1) \in Index
        /\ Offset(rear, Advance(front, k - 1)) = num_free_bytes + k - 1
    BY <2>2, PlaceOffset
  <2>4. Len(buf) \in Nat /\ Len(buf) <= num_free_bytes
    BY <1>2, Fields, BlockIsSeq DEF Overflows
  <2>5. ~(num_free_bytes + k - 1 < Len(buf))
    BY <2>4, Fields
  <2>6. QED
    BY <2>1, <2>3, <2>5
<1>3. QED
  BY <1>1, <1>2

(* The size of the packet at the front, which is read twice before the     *)
(* packet is taken, stands as long as nothing is taken: no enqueue changes *)
(* it, whatever the capacity and wherever the header lies in the array.    *)
THEOREM SizeFieldKept ==
  Spec => [][size >= 4 /\ size' >= size => current_packet_size' = current_packet_size]_vars
<1>1. IInv /\ [Next]_vars =>
        (size >= 4 /\ size' >= size => current_packet_size' = current_packet_size)
  <2> SUFFICES ASSUME IInv, [Next]_vars, size >= 4, size' >= size
               PROVE  current_packet_size' = current_packet_size
    OBVIOUS
  <2>1. CASE \E buf \in Block : Enqueue(buf)
    <3>1. PICK buf \in Block : Enqueue(buf)
      BY <2>1
    <3>2. front' = front
      BY <3>1 DEF Enqueue, Reject
    <3>3. 3 \in 1..size /\ 4 \in 1..size
      BY Fields
    <3>4. /\ data'[Advance(front, 3 - 1)] = data[Advance(front, 3 - 1)]
          /\ data'[Advance(front, 4 - 1)] = data[Advance(front, 4 - 1)]
      BY <3>1, <3>3, EnqueueKeepsHeld
    <3>5. /\ data'[(front + 2) % Size] = data[(front + 2) % Size]
          /\ data'[(front + 3) % Size] = data[(front + 3) % Size]
      <4>1. 3 - 1 = 2 /\ 4 - 1 = 3
        OBVIOUS
      <4>2. QED
        BY <3>4, <4>1 DEF Advance
    <3>6. QED
      BY <3>2, <3>5 DEF current_packet_size
  <2>2. CASE \E n \in 0..MaxBatch : Dequeue(n)
    <3>1. PICK n \in 0..MaxBatch : Dequeue(n)
      BY <2>2
    <3>2. CASE Underflows(n)
      BY <3>1, <3>2 DEF Dequeue, Reject, current_packet_size
    <3>3. CASE ~Underflows(n)
      <4>1. /\ front' = Advance(front, n)
            /\ num_free_bytes' = num_free_bytes + n
            /\ data' = data
        BY <3>1, <3>3 DEF Dequeue
      <4>2. n = 0
        BY <4>1, Fields DEF size
      <4>3. front' = front
        BY <4>1, <4>2, Fields, AdvanceInIndex DEF Index
      <4>4. QED
        BY <4>1, <4>3 DEF current_packet_size
    <3>4. QED
      BY <3>2, <3>3
  <2>3. CASE UNCHANGED vars
    BY <2>3 DEF vars, current_packet_size
  <2>4. QED
    BY <2>1, <2>2, <2>3 DEF Next
<1>2. QED
  BY InitIInv, NextIInv, <1>1, PTL DEF Spec

=============================================================================
