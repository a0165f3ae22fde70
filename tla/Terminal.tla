------------------------------ MODULE Terminal -------------------------------
(***************************************************************************)
(* A child of ts, the emulated terminal: the reconnecting loop of          *)
(* loop_client_fork (client/client_lib.cpp) around client_communicate,     *)
(* with its recv_msg, send_msg and packing (client/client_communicate.cpp).*)
(*                                                                         *)
(* A connection is <<d, k>>, the k-th try of device d.  A try that fails   *)
(* leaves its socket open; the process closes them all when it ends.       *)
(***************************************************************************)
EXTENDS Network, AuthCodec

CONSTANTS Dev,         \* the devices, one process each
          MaxTries,    \* bound: connections of a device
          MaxScreens,  \* bound: a process with more screens is not refused again
          TtySets,     \* the terminal maps TerInfoResponse may draw
          Extra,       \* how many more terminals than active are configured
          ScreenNums   \* the screen numbers a terminal may draw

ASSUME TerminalAssumption == /\ MaxTries \in Nat \ {0}
                             /\ MaxScreens \in Nat
                             /\ Conn = Dev \X (1..MaxTries)
                             /\ \A S \in TtySets : S \subseteq Nat \ {0} /\ IsFiniteSet(S)
                             /\ Extra \subseteq Nat
                             /\ ScreenNums \subseteq Nat \ {0}

VARIABLES term,      \* term[d]: the process of device d
          xls        \* the rows of ts_count.xls, in order

NoRequest == Request("none")
NoPacket == PlainPacket("none")

(* pc      connect | first | send | data | recv | done | died              *)
(* tries   connections opened; fd tells whether the last one is in use or  *)
(*         the error code of create_connection                             *)
(* got     recv_message, which sendPacketType is read from                 *)
(* out     send_message                                                    *)
NewTerm == [pc |-> "connect", tries |-> 0, fd |-> FALSE, got |-> NoRequest,
            out |-> NoPacket, terCount |-> 0, screenCount |-> 0]

TermInit == /\ term = [d \in Dev |-> NewTerm]
            /\ xls = <<>>

Cur(d) == <<d, term[d].tries>>

ConnsOf(d) == {c \in Conn : c[1] = d}

(* The process ends: the kernel closes every socket it has opened. *)
CloseAll(d) ==
  peer' = [c \in Conn |-> IF c \in ConnsOf(d) /\ peer[c] = "open"
                            THEN AfterClose(c) ELSE peer[c]]

Goes(d, pc) == term' = [term EXCEPT ![d].pc = pc]

-----------------------------------------------------------------------------
(* create_connection: the server's host answers the handshake, whatever    *)
(* the server is doing, as long as it listens.                             *)
Connect(d, listening) ==
  /\ term[d].pc = "connect"
  /\ term[d].tries < MaxTries
  /\ listening
  /\ LET c == <<d, term[d].tries + 1>>
     IN  /\ peer' = [peer EXCEPT ![c] = "open"]
         /\ backlog' = Append(backlog, c)
  /\ term' = [term EXCEPT ![d].pc = "first", ![d].tries = @ + 1, ![d].fd = TRUE]
  /\ UNCHANGED <<wire, sock, s2c, xls>>

(* connect() is refused: client_communicate goes on with the error code    *)
(* for a descriptor.                                                       *)
Refused(d, listening) ==
  /\ term[d].pc = "connect"
  /\ ~listening
  /\ term[d].screenCount <= MaxScreens
  /\ term' = [term EXCEPT ![d].pc = "first", ![d].fd = FALSE]
  /\ UNCHANGED <<netVars, xls>>

(* recv_msg gets the next request. *)
Gets(d) == /\ term[d].fd
           /\ s2c[Cur(d)] # <<>>
           /\ s2c' = [s2c EXCEPT ![Cur(d)] = Tail(@)]

(* recv_msg fails: no descriptor, or the server's end is closed. *)
CannotGet(d) == IF term[d].fd THEN s2c[Cur(d)] = <<>> /\ peer[Cur(d)] = "cut" ELSE TRUE

(* The first request of a connection, or a later one. *)
Recv(d) ==
  /\ term[d].pc \in {"first", "recv"}
  /\ Gets(d)
  /\ term' = [term EXCEPT ![d].pc = "send", ![d].got = Head(s2c[Cur(d)])]
  /\ UNCHANGED <<wire, sock, peer, backlog, xls>>

(* The first recv_msg fails and nothing is done about it: the request that *)
(* is still in recv_message is unpacked.                                   *)
StaleFirst(d) ==
  /\ term[d].pc = "first"
  /\ CannotGet(d)
  /\ term[d].got # NoRequest
  /\ Goes(d, "send")
  /\ UNCHANGED <<netVars, xls>>

(* There never was a request: the bytes are popped from an empty vector.   *)
EmptyFirst(d) ==
  /\ term[d].pc = "first"
  /\ CannotGet(d)
  /\ term[d].got = NoRequest
  /\ Goes(d, "died")
  /\ CloseAll(d)
  /\ UNCHANGED <<wire, sock, s2c, backlog, xls>>

(* recv_msg fails in the loop: return 1, disconnect and reconnect. *)
RecvBroken(d) ==
  /\ term[d].pc = "recv"
  /\ CannotGet(d)
  /\ Goes(d, "connect")
  /\ UNCHANGED <<netVars, xls>>

(* Variant for the checks: terCount is added to, as screenCount is. *)
CountsAdded(t, p) ==
  CASE p.type = "ter"    -> [t EXCEPT !.terCount = @ + Cardinality(p.ttys)]
    [] p.type = "ipterm" -> [t EXCEPT !.screenCount = @ + p.screen_num]
    [] OTHER             -> t

(* What client_pack_message counts. *)
Counted(t, p) ==
  CASE p.type = "ter"    -> [t EXCEPT !.terCount = Cardinality(p.ttys)]
    [] p.type = "ipterm" -> [t EXCEPT !.screenCount = @ + p.screen_num]
    [] OTHER             -> t

(* The packets client_pack_message may draw: the device has no ethernet    *)
(* port and no dumb terminal, and knows the key.                           *)
Packets(d) ==
  LET req == term[d].got
  IN  CASE req.type = "auth"   -> {AuthPacket(d, 0, r, Crypted(kSecret, r, Plain(c_auth))) : r \in RandomNums}
        [] req.type = "ter"    -> {TerPacket(S, Cardinality(S) + e) : S \in TtySets, e \in Extra}
        [] req.type = "ipterm" -> {TtyPacket("ipterm", req.no, n) : n \in ScreenNums}
        [] OTHER               -> {PlainPacket(req.type)}

(* What a send() puts on the wire when the connection is there; on one     *)
(* whose other end has gone it may still return a length.                  *)
Sends(d, block) ==
  IF peer[Cur(d)] = "open" THEN wire' = [wire EXCEPT ![Cur(d)] = @ \o block]
                           ELSE UNCHANGED wire

(* client_pack_message, then send_msg sends the head. *)
SendHead(d) ==
  /\ term[d].pc = "send"
  /\ term[d].fd
  /\ \E p \in Packets(d) :
       /\ term' = [term EXCEPT ![d] = [Counted(@, p) EXCEPT !.out = p, !.pc = "data"]]
       /\ Sends(d, HeadBlock(p))
  /\ UNCHANGED <<sock, s2c, peer, backlog, xls>>

(* send_msg sends the data, and client_communicate receives again.         *)
SendData(d) ==
  /\ term[d].pc = "data"
  /\ HasData(term[d].out)
  /\ Sends(d, DataBlock(term[d].out))
  /\ Goes(d, "recv")
  /\ UNCHANGED <<sock, s2c, peer, backlog, xls>>

Row(d) == [dev |-> d, ttys |-> term[d].terCount, screens |-> term[d].screenCount]

(* The end packet is out: the row of the device is written and the process *)
(* exits.                                                                  *)
Finish(d) ==
  /\ term[d].pc = "data"
  /\ ~HasData(term[d].out)
  /\ xls' = Append(xls, Row(d))
  /\ Goes(d, "done")
  /\ CloseAll(d)
  /\ UNCHANGED <<wire, sock, s2c, backlog>>

(* A send fails, of a message already packed and counted: return 1. *)
SendBroken(d) ==
  /\ \/ /\ term[d].pc = "send"
        /\ IF term[d].fd THEN peer[Cur(d)] = "cut" ELSE TRUE
        /\ \E p \in Packets(d) :
             term' = [term EXCEPT ![d] = [Counted(@, p) EXCEPT !.pc = "connect"]]
     \/ /\ term[d].pc = "data"
        /\ HasData(term[d].out)
        /\ peer[Cur(d)] = "cut"
        /\ Goes(d, "connect")
  /\ UNCHANGED <<netVars, xls>>

(* send() raises SIGPIPE, which nothing handles. *)
Sigpipe(d) ==
  /\ term[d].pc \in {"send", "data"}
  /\ term[d].fd
  /\ peer[Cur(d)] = "cut"
  /\ Goes(d, "died")
  /\ CloseAll(d)
  /\ UNCHANGED <<wire, sock, s2c, backlog, xls>>

TerminalNext(d, listening) ==
  \/ Connect(d, listening)
  \/ Refused(d, listening)
  \/ Recv(d)
  \/ StaleFirst(d)
  \/ EmptyFirst(d)
  \/ RecvBroken(d)
  \/ SendHead(d)
  \/ SendData(d)
  \/ Finish(d)
  \/ SendBroken(d)
  \/ Sigpipe(d)

=============================================================================
