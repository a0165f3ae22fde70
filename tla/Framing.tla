------------------------------- MODULE Framing -------------------------------
(***************************************************************************)
(* How one session cuts the byte stream of its client into packets:        *)
(* try_recv and the test of the size in select_loop                        *)
(* (server/src/transfer.cpp), dequeue_packet (server/src/types.cpp).  The  *)
(* stream may arrive in pieces of any length, also while try_recv runs.    *)
(* The receive ring is the sequence of the bytes it holds, as proved of    *)
(* CircularQueue; the second dequeue of dequeue_packet(true) takes nothing *)
(* (Server has the other outcomes of its uninitialised header).            *)
(***************************************************************************)
EXTENDS Integers, Sequences, SequencesExt, FiniteSets

CONSTANTS Script,      \* the packets of the client, in the order it is asked
          StructSize,  \* sizeof of the structure behind a header, by type
          ScreenSize,  \* sizeof(ScreenInfoPacket)
          Capacity,    \* kRecvBufferSize
          MayClose     \* may the client close in the middle?

Type == {"auth", "sys", "ter", "ipterm", "end"}

ASSUME ScriptAssumption ==
  /\ \A i \in DOMAIN Script : /\ Script[i].type \in Type
                              /\ Script[i].tail \in Nat
                              /\ Script[i].screens \in Nat
  /\ \A t \in Type : StructSize[t] \in Nat \ {0}
  /\ {ScreenSize, Capacity} \subseteq Nat \ {0}
  /\ MayClose \in BOOLEAN

VARIABLES sent,    \* how many packets the client has sent
          wire,    \* bytes sent and not arrived
          sock,    \* bytes arrived and not received
          eof,     \* the client has closed
          pc,      \* where the server is with this session
          buf,     \* recv_buffer
          tmp,     \* tmp_buffer of try_recv, as far as a recv has written it
          got,     \* received_bytes of try_recv
          due,     \* the terminal whose screens the second loop has to take
          out,     \* the packets the fsm has accepted
          torn     \* how many it had accepted when a header first came in
                   \* pieces, Whole as long as none has

vars == <<sent, wire, sock, eof, pc, buf, tmp, got, due, out, torn>>

kHeaderSize == 4

Response == 145   \* 0x91, the direction of a client's packet

Code == [auth |-> 1, sys |-> 2, ter |-> 9, ipterm |-> 11, end |-> 255]

ScreenNumAt == 5  \* where screen_num stands in an IPTermResponsePacket

NoTerminal == [type |-> "none"]

Whole == Len(Script) + 1

-----------------------------------------------------------------------------
(* The packets as the client packs them.  The bytes behind a header are    *)
(* told apart by their packet and place, but for screen_num.               *)

Body(i) ==
  [j \in 1..(StructSize[Script[i].type] + Script[i].tail) |->
     IF Script[i].type = "ipterm" /\ j = ScreenNumAt THEN Script[i].screens
                                                     ELSE 16 * i + j]

Screen(i, k) == [j \in 1..ScreenSize |-> 128 + 16 * i + 8 * k + j]

ScreensOf(i) == [k \in 1..Script[i].screens |-> Screen(i, k)]

PacketSize(i) == kHeaderSize + Len(Body(i)) + Script[i].screens * ScreenSize

(* packet_size is two bytes in network order. *)
Bytes(i) == <<Response, Code[Script[i].type], PacketSize(i) \div 256, PacketSize(i) % 256>>
              \o Body(i) \o FlattenSeq(ScreensOf(i))

Packet(i) == [type |-> Script[i].type, body |-> Body(i), screens |-> ScreensOf(i)]

(* The packets that were asked for once n were handled: one, but all the   *)
(* terminals at once.                                                      *)
Asked(n) ==
  {m \in (n + 1)..Len(Script) :
     m = n + 1 \/ \A k \in (n + 1)..m : Script[k].type = "ipterm"}

-----------------------------------------------------------------------------
Init == /\ sent = 0
        /\ wire = <<>> /\ sock = <<>>
        /\ eof = FALSE
        /\ pc = "select"
        /\ buf = <<>>
        /\ tmp = <<>> /\ got = 0
        /\ due = NoTerminal
        /\ out = <<>>
        /\ torn = Whole

serverVars == <<pc, buf, tmp, got, due, out, torn>>

Send == /\ ~eof
        /\ sent + 1 \in Asked(Len(out))
        /\ sent' = sent + 1
        /\ wire' = wire \o Bytes(sent + 1)
        /\ UNCHANGED <<sock, eof, serverVars>>

Deliver == /\ \E k \in 1..Len(wire) : /\ sock' = sock \o SubSeq(wire, 1, k)
                                      /\ wire' = SubSeq(wire, k + 1, Len(wire))
           /\ UNCHANGED <<sent, eof, serverVars>>

Close == /\ MayClose
         /\ ~eof
         /\ eof' = TRUE
         /\ UNCHANGED <<sent, wire, sock, serverVars>>

-----------------------------------------------------------------------------
Drop(s, n) == SubSeq(s, n + 1, Len(s))

Free == Capacity - Len(buf)

(* recv() of at most as much as the buffer has room for. *)
Piece == SubSeq(sock, 1, IF Len(sock) < Free THEN Len(sock) ELSE Free)

Size(b) == 256 * b[3] + b[4]

(* Variant for the checks: the loop of try_recv ends with the first piece. *)
AnyHeld(b) == Len(b) > 0

HeaderHeld(b) == Len(b) >= kHeaderSize

(* reset_rw_fd_sets asks for more room than a header takes. *)
Select == /\ pc = "select"
          /\ Free > kHeaderSize
          /\ sock # <<>> \/ (eof /\ wire = <<>>)
          /\ pc' = IF HeaderHeld(buf) THEN "more" ELSE "head"
          /\ tmp' = <<>> /\ got' = 0
          /\ UNCHANGED <<sent, wire, sock, eof, buf, due, out, torn>>

(* What is enqueued: the first n bytes of tmp_buffer, n what all pieces of *)
(* the loop are together; it was cleared when it was declared.             *)
FirstOf(t, n) == [i \in 1..n |-> IF i <= Len(t) THEN t[i] ELSE 0]

(* Variant for the checks: enqueue does not look for room. *)
AlwaysFits(n) == n >= 0

Fits(n) == n <= Free

(* The loop for a header that is not held.  A further piece is written     *)
(* over the beginning of tmp_buffer; enqueue does nothing when the bytes   *)
(* do not fit; nothing to receive, at the end of the stream or because the *)
(* socket does not block, is an error.                                     *)
RecvHead ==
  LET piece == Piece
      total == got + Len(piece)
      tmp2  == piece \o Drop(tmp, Len(piece))
  IN  /\ pc = "head"
      /\ IF piece = <<>>
           THEN /\ pc' = "removed"
                /\ UNCHANGED <<sock, buf, tmp, got, torn>>
           ELSE /\ sock' = Drop(sock, Len(piece))
                /\ buf' = IF Fits(total) THEN buf \o FirstOf(tmp2, total) ELSE buf
                /\ pc' = IF HeaderHeld(buf') THEN "decide" ELSE "head"
                /\ tmp' = tmp2 /\ got' = total
                /\ torn' = IF got > 0 /\ torn = Whole THEN Len(out) ELSE torn
      /\ UNCHANGED <<sent, wire, eof, due, out>>

(* One recv behind a header that is held, unless the buffer is full or the *)
(* size field is 0; the end of the stream is no error here.                *)
RecvMore ==
  LET piece == IF Size(buf) = 0 THEN <<>> ELSE Piece
  IN  /\ pc = "more"
      /\ sock' = Drop(sock, Len(piece))
      /\ buf' = buf \o piece
      /\ pc' = "decide"
      /\ UNCHANGED <<sent, wire, eof, tmp, got, due, out, torn>>

(* Variant for the checks: the 8 bytes of the client's first send are      *)
(* taken for the header.                                                   *)
HeadOfEight(t, size) == IF t = "ipterm" THEN 0 ELSE size - 8 - StructSize[t]

(* Variant for the checks: an IPTermResponse is taken with its screens. *)
WithScreens(t, size) == size - kHeaderSize - StructSize[t]

(* vector_size of dequeue_packet: what follows the structure, but of a     *)
(* terminal's packet only the structure is taken.                          *)
VectorSize(t, size) == IF t = "ipterm" THEN 0 ELSE size - kHeaderSize - StructSize[t]

Known(b) == \E t \in Type : Code[t] = b[2]

TypeOf(b) == CHOOSE t \in Type : Code[t] = b[2]

(* Variant for the checks: the fixed part is enough to call the fsm. *)
HoldsStruct(b) == Known(b) /\ Len(b) >= kHeaderSize + StructSize[TypeOf(b)]

(* buffer_size >= packet_size *)
Complete(b) == Len(b) >= Size(b)

(* Part of a packet: remove_client. *)
Partial == /\ pc = "decide"
           /\ ~Complete(buf)
           /\ pc' = "removed"
           /\ UNCHANGED <<sent, wire, sock, eof, buf, tmp, got, due, out, torn>>

(* A type without a case: the structure is taken through an uninitialised  *)
(* pointer, and if the process lives the fsm refuses the packet.           *)
Unknown == /\ pc = "decide"
           /\ Complete(buf)
           /\ ~Known(buf)
           /\ pc' \in {"removed", "crashed"}
           /\ UNCHANGED <<sent, wire, sock, eof, buf, tmp, got, due, out, torn>>

(* size_t vector_size goes below 0: resize() throws and nothing catches it. *)
Throws == /\ pc = "decide"
          /\ Complete(buf)
          /\ Known(buf)
          /\ VectorSize(TypeOf(buf), Size(buf)) < 0
          /\ pc' = "crashed"
          /\ UNCHANGED <<sent, wire, sock, eof, buf, tmp, got, due, out, torn>>

(* The fsm accepts the direction and the type the session is waiting for,  *)
(* and leaves a terminal's screens to the second loop.  The structure of a *)
(* terminal stays as the heap had it when less than that is held.          *)
Expects(b) == /\ b[1] = Response
              /\ Len(out) < Len(Script)
              /\ TypeOf(b) = Script[Len(out) + 1].type

Dequeue ==
  LET t    == TypeOf(buf)
      all  == kHeaderSize + StructSize[t] + VectorSize(t, Size(buf))
      n    == IF all <= Len(buf) THEN all ELSE kHeaderSize
      body == SubSeq(buf, kHeaderSize + 1, n)
      pkt  == [type |-> t, body |-> body, screens |-> <<>>]
  IN  /\ pc = "decide"
      /\ Complete(buf)
      /\ Known(buf)
      /\ VectorSize(t, Size(buf)) >= 0
      /\ buf' = Drop(buf, n)
      /\ CASE ~Expects(buf) ->
                pc' = "removed" /\ UNCHANGED <<due, out>>
           [] Expects(buf) /\ t = "ipterm" /\ (body = <<>> \/ body[ScreenNumAt] # 0) ->
                pc' = "screens" /\ due' = pkt /\ UNCHANGED out
           [] OTHER ->
                pc' = "select" /\ out' = Append(out, pkt) /\ UNCHANGED due
      /\ UNCHANGED <<sent, wire, sock, eof, tmp, got, torn>>

(* Variant for the checks: the screens are not taken one after the other.  *)
FirstAgain(b, i) == SubSeq(b, 1, ScreenSize)

(* What the i-th dequeue of a screen takes. *)
NextScreen(b, i) == SubSeq(b, (i - 1) * ScreenSize + 1, i * ScreenSize)

(* The second loop decodes the screens of the terminal.  dequeue takes     *)
(* nothing when too little is held; of a structure that was not held       *)
(* screen_num is whatever the heap had.                                    *)
TakeScreens ==
  /\ pc = "screens"
  /\ \E n \in IF due.body = <<>> THEN 0..2 ELSE {due.body[ScreenNumAt]} :
       LET held == Len(buf) \div ScreenSize
           k    == IF n < held THEN n ELSE held
       IN  /\ out' = Append(out, [due EXCEPT !.screens =
                       [i \in 1..n |-> IF i <= k THEN NextScreen(buf, i) ELSE <<>>]])
           /\ buf' = Drop(buf, k * ScreenSize)
  /\ due' = NoTerminal
  /\ pc' = "select"
  /\ UNCHANGED <<sent, wire, sock, eof, tmp, got, torn>>

Next == \/ Send \/ Deliver \/ Close
        \/ Select \/ RecvHead \/ RecvMore
        \/ Partial \/ Unknown \/ Throws \/ Dequeue \/ TakeScreens

Spec == Init /\ [][Next]_vars

-----------------------------------------------------------------------------
(* The types of the variables; the buffer is never over its capacity.      *)
TypeOK == /\ sent \in 0..Len(Script)
          /\ pc \in {"select", "head", "more", "decide", "screens", "removed", "crashed"}
          /\ Len(buf) <= Capacity
          /\ Len(out) <= Len(Script)
          /\ torn \in 0..Whole
          /\ (due # NoTerminal) <=> (pc = "screens")

IsTorn == torn # Whole

(* As long as no header was put together from pieces, and however the      *)
(* bytes behind a header arrive, the fsm is handed exactly the packets of  *)
(* the client, in order, with their own screens.                           *)
Stream == INSTANCE PacketStream
            WITH Packets <- [i \in DOMAIN Script |-> Packet(i)],
                 handed  <- SubSeq(out, 1, IF torn < Len(out) THEN torn ELSE Len(out)),
                 live    <- pc \notin {"removed", "crashed"} /\ ~IsTorn

ImplementsStream == Stream!Spec

(* No byte is lost, repeated or put in another place on the way from the   *)
(* client to the fsm: what was decoded, what is held, what has arrived and *)
(* what is under way are together what was sent.                           *)
Decoded(i) == Len(Bytes(i))

StreamIntact ==
  LET accepted == FoldSet(LAMBDA i, n : Decoded(i) + n, 0, 1..Len(out))
      taken == accepted + IF due = NoTerminal THEN 0 ELSE kHeaderSize + Len(due.body)
      all   == FlattenSeq([i \in 1..sent |-> Bytes(i)])
  IN  ~IsTorn /\ pc \notin {"removed", "crashed"} => buf \o sock \o wire = Drop(all, taken)

(* The size select_loop compares with, and the size with which the rest of *)
(* the packet is received, is read from a header that is held and is the   *)
(* size the client gave the packet that is due, wherever the pieces of the *)
(* packets before it ended.                                                *)
SizeReadIsSent ==
  pc \in {"more", "decide"} /\ ~IsTorn =>
    /\ Len(buf) >= kHeaderSize
    /\ Len(out) < Len(Script)
    /\ Size(buf) = PacketSize(Len(out) + 1)

(* The size of a packet that wraps below 0 and kills the process, and a    *)
(* type that has no case, are only met in a stream with a torn header.     *)
CrashOnlyTorn == pc = "crashed" => IsTorn

(* Junk is never taken for the report of a device: a session that gets to  *)
(* its end, also one in which headers came in pieces, has handed over what *)
(* the client sent.  Of the end packet itself nothing but the type counts. *)
EndIsFaithful ==
  Len(out) = Len(Script) => \A i \in 1..(Len(Script) - 1) : out[i] = Packet(i)

=============================================================================
