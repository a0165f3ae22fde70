---------------------------- MODULE PacketStream -----------------------------
(***************************************************************************)
(* What the transfer layer promises the state machine of a session         *)
(* (server/include/transfer.hpp): the packets of the client, whole and in  *)
(* the order they were sent, until the session ends.                       *)
(***************************************************************************)
EXTENDS Naturals, Sequences

CONSTANT Packets   \* the packets of the client, in order

VARIABLES handed,  \* the packets handed to the state machine
          live     \* the session is in the list

vars == <<handed, live>>

Init == handed = <<>> /\ live = TRUE

Hand == /\ live
        /\ Len(handed) < Len(Packets)
        /\ handed' = Append(handed, Packets[Len(handed) + 1])
        /\ UNCHANGED live

End == live /\ live' = FALSE /\ UNCHANGED handed

Next == Hand \/ End

Spec == Init /\ [][Next]_vars

=============================================================================
