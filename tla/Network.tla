------------------------------- MODULE Network -------------------------------
(***************************************************************************)
(* The TCP connections between the terminals (client/) and the server      *)
(* (server/), as the two programs use them: what one send() put on the     *)
(* way, what has arrived and waits in the server's socket buffer, and what *)
(* has become of the client's end.  TCP itself is outside the repository.  *)
(*                                                                         *)
(* The bytes of a packet are grouped into units: the head the client sends *)
(* first, the body, and one unit for each screen that follows the body.    *)
(***************************************************************************)
EXTENDS Naturals, Sequences, SequencesExt, FiniteSets

CONSTANTS Conn,      \* the connections (socket descriptors) of a run
          Delivery   \* how segments reach the server, see Bursts

ASSUME DeliveryAssumption == Delivery \in {"segments", "packets", "paced"}

VARIABLES wire,      \* wire[c]: the units sent by the client and not arrived
          sock,      \* sock[c]: the units arrived and not yet received
          s2c,       \* s2c[c]: the requests sent to the client, oldest first
          peer,      \* peer[c]: the client's end, "cut" if only the server's is gone
          backlog    \* connections established and not yet accepted

netVars == <<wire, sock, s2c, peer, backlog>>

PeerState == {"idle", "open", "closed", "reset", "cut"}

-----------------------------------------------------------------------------
(* Packets of the client.  Every packet has a type; the fields the server  *)
(* acts on are those of its type.                                          *)

AuthPacket(dev, ethnum, random_num, auth) ==
  [type |-> "auth", dev |-> dev, ethnum |-> ethnum, random_num |-> random_num, auth |-> auth]
PlainPacket(type)       == [type |-> type]
EtherPacket(port)       == [type |-> "ether", port |-> port]
TerPacket(ttys, num)    == [type |-> "ter", ttys |-> ttys, term_num |-> num]
TtyPacket(type, tty, n) == [type |-> type, tty |-> tty, screen_num |-> n]

Screens(p) == IF p.type \in {"dumbterm", "ipterm"} THEN p.screen_num ELSE 0

(* The end packet is a head and nothing else. *)
HasData(p) == p.type # "end"

Unit(part, p) == [part |-> part, pkt |-> p]

HeadBlock(p) == <<Unit("head", p)>>

DataBlock(p) == <<Unit("body", p)>> \o [i \in 1..Screens(p) |-> Unit("scr", p)]

(* How many units packet_size of the header stands for. *)
PacketUnits(p) == IF HasData(p) THEN 2 + Screens(p) ELSE 1

(* Requests of the server: no is the port or terminal asked about. *)
Request(type)       == [type |-> type, no |-> 0]
RequestOf(type, no) == [type |-> type, no |-> no]

-----------------------------------------------------------------------------
NetInit == /\ wire = [c \in Conn |-> <<>>]
           /\ sock = [c \in Conn |-> <<>>]
           /\ s2c = [c \in Conn |-> <<>>]
           /\ peer = [c \in Conn |-> "idle"]
           /\ backlog = <<>>

(* How many units may arrive together.  "segments": any number, so that a  *)
(* recv may end anywhere in a packet, as TCP has it.  "packets": a packet  *)
(* arrives whole, several may have arrived before a recv.  "paced": a      *)
(* packet arrives whole and only after the one before it was received.     *)
Bursts(c) ==
  LET whole == PacketUnits(Head(wire[c]).pkt)
  IN  CASE Delivery = "segments" -> 1..Len(wire[c])
        [] Delivery = "packets"  -> {whole}
        [] Delivery = "paced"    -> IF sock[c] = <<>> THEN {whole} ELSE {}

Deliver(c) ==
  /\ wire[c] # <<>>
  /\ \E n \in Bursts(c) :
       /\ n <= Len(wire[c])
       /\ sock' = [sock EXCEPT ![c] = @ \o SubSeq(wire[c], 1, n)]
       /\ wire' = [wire EXCEPT ![c] = SubSeq(@, n + 1, Len(@))]
  /\ UNCHANGED <<s2c, peer, backlog>>

(* The FIN or RST of the client travels behind the data. *)
Ended(c) == wire[c] = <<>> /\ peer[c] \in {"closed", "reset"}

(* What select() reports: data, or the end of the stream. *)
Readable(c) == sock[c] # <<>> \/ Ended(c)

(* exit() closes every socket of the process; a socket closed with unread  *)
(* requests resets the connection.                                         *)
AfterClose(c) == IF s2c[c] = <<>> THEN "closed" ELSE "reset"

(* The server process is gone: the kernel closes its end of everything.    *)
(* What it had sent can still be read.                                     *)
Cut == /\ peer' = [c \in Conn |-> IF peer[c] = "open" THEN "cut" ELSE peer[c]]
       /\ wire' = [c \in Conn |-> <<>>]
       /\ sock' = [c \in Conn |-> <<>>]
       /\ backlog' = <<>>
       /\ UNCHANGED s2c

=============================================================================
