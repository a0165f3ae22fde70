---------------------------- MODULE CircularQueue ----------------------------
(***************************************************************************)
(* fly::CircularQueue (server/include/types.hpp, server/src/types.cpp):    *)
(* the ring of bytes in which the server collects what a connection has    *)
(* sent.  One thread uses it, so a call is one step.                       *)
(***************************************************************************)
EXTENDS Naturals, Sequences

CONSTANTS Size,      \* _size, the capacity given to the constructor
          Byte,      \* the values a byte may have
          MaxBatch   \* bound: the largest block one call moves

ASSUME SizeAssumption == Size \in Nat \ {0}
ASSUME ByteAssumption == Byte \subseteq Nat /\ Byte # {}
ASSUME MaxBatchAssumption == MaxBatch \in Nat

VARIABLES data,            \* the allocated array
          front,           \* index of the oldest byte
          rear,            \* index after the newest byte
          num_free_bytes,  \* _num_free_bytes
          outcome          \* the last call's return value and the block it filled

vars == <<data, front, rear, num_free_bytes, outcome>>

Index == 0..(Size - 1)

Block == UNION {[1..n -> Byte] : n \in 0..MaxBatch}

Reply(ok, buf) == [ok |-> ok, buf |-> buf]

-----------------------------------------------------------------------------
(* Observers. *)

size == Size - num_free_bytes

(* The two bytes after the first two, read as a big-endian number whether  *)
(* or not the queue holds them.                                            *)
current_packet_size == 256 * data[(front + 2) % Size] + data[(front + 3) % Size]

-----------------------------------------------------------------------------
(* The constructor allocates the array and leaves its bytes as they were.  *)
Init == /\ data \in [Index -> Byte]
        /\ front = 0
        /\ rear = 0
        /\ num_free_bytes = Size
        /\ outcome = Reply(TRUE, <<>>)

Reject == /\ outcome' = Reply(FALSE, <<>>)
          /\ UNCHANGED <<data, front, rear, num_free_bytes>>

(* Variant for the checks: the guard compares with the capacity. *)
OverflowsCapacity(n) == n > Size

Overflows(n) == num_free_bytes < n

(* Variant for the checks: >= Size + 1 written for > Size. *)
UnderflowsOffByOne(n) == num_free_bytes + n > Size + 1

Underflows(n) == num_free_bytes + n > Size

(* Variant for the checks: an index that restarts at 0 when it wraps. *)
RestartAtZero(i, n) == IF i + n >= Size THEN 0 ELSE i + n

(* Where an index is after n bytes: (i + 1) % _size, n times. *)
Advance(i, n) == (i + n) % Size

(* How many places after i0, going round the ring, index i is. *)
Offset(i0, i) == (i + Size - i0) % Size

Enqueue(buf) ==
  \/ /\ Overflows(Len(buf))
     /\ Reject
  \/ /\ ~Overflows(Len(buf))
     /\ data' = [i \in Index |-> IF Offset(rear, i) < Len(buf)
                                   THEN buf[Offset(rear, i) + 1]
                                   ELSE data[i]]
     /\ rear' = Advance(rear, Len(buf))
     /\ num_free_bytes' = num_free_bytes - Len(buf)
     /\ outcome' = Reply(TRUE, <<>>)
     /\ UNCHANGED front

Dequeue(n) ==
  \/ /\ Underflows(n)
     /\ Reject
  \/ /\ ~Underflows(n)
     /\ outcome' = Reply(TRUE, [i \in 1..n |-> data[(front + i - 1) % Size]])
     /\ front' = Advance(front, n)
     /\ num_free_bytes' = num_free_bytes + n
     /\ UNCHANGED <<data, rear>>

Next == \/ \E buf \in Block : Enqueue(buf)
        \/ \E n \in 0..MaxBatch : Dequeue(n)

Spec == Init /\ [][Next]_vars

-----------------------------------------------------------------------------
(* The types of the ring's fields: every index stays inside the array and  *)
(* the count of free bytes inside the capacity, although both are updated  *)
(* byte by byte in enqueue and in one addition in dequeue.                 *)
TypeOK == /\ data \in [Index -> Byte]
          /\ front \in Index
          /\ rear \in Index
          /\ num_free_bytes \in 0..Size
          /\ outcome \in [ok : BOOLEAN, buf : Block]

(* front, rear and _num_free_bytes are three separate fields of which any  *)
(* two determine the third (except that front = rear is both the empty and *)
(* the full ring): walking the used bytes from front arrives at rear.      *)
RingConsistent == rear = (front + size) % Size

(* The bytes held, oldest first: the refinement mapping. *)
contents == [i \in 1..size |-> data[(front + i - 1) % Size]]

Fifo == INSTANCE BoundedFifo

(* The ring behaves as the all-or-nothing FIFO store: what dequeue returns *)
(* is what enqueue was given, in order, across any number of wrap-arounds. *)
ImplementsFifo == Fifo!Spec

=============================================================================
