----------------------------- MODULE BoundedFifo -----------------------------
(***************************************************************************)
(* What the receive buffer of a connection promises to the transfer layer: *)
(* a first-in first-out store of at most Size bytes whose two operations   *)
(* are all or nothing.  CircularQueue implements it with a ring.           *)
(***************************************************************************)
EXTENDS Naturals, Sequences

CONSTANTS Size,      \* capacity in bytes
          Byte,      \* the values a byte may have
          MaxBatch   \* bound: the largest block one call moves

VARIABLES contents,  \* the bytes held, oldest first
          outcome    \* what the last call returned, and the block it filled

vars == <<contents, outcome>>

Block == UNION {[1..n -> Byte] : n \in 0..MaxBatch}

Reply(ok, buf) == [ok |-> ok, buf |-> buf]

Init == contents = <<>> /\ outcome = Reply(TRUE, <<>>)

Put(buf) ==
  \/ /\ Len(contents) + Len(buf) <= Size
     /\ contents' = contents \o buf
     /\ outcome' = Reply(TRUE, <<>>)
  \/ /\ Len(contents) + Len(buf) > Size
     /\ outcome' = Reply(FALSE, <<>>)
     /\ UNCHANGED contents

Get(n) ==
  \/ /\ n <= Len(contents)
     /\ outcome' = Reply(TRUE, SubSeq(contents, 1, n))
     /\ contents' = SubSeq(contents, n + 1, Len(contents))
  \/ /\ n > Len(contents)
     /\ outcome' = Reply(FALSE, <<>>)
     /\ UNCHANGED contents

Next == (\E buf \in Block : Put(buf)) \/ (\E n \in 0..MaxBatch : Get(n))

Spec == Init /\ [][Next]_vars

=============================================================================
