------------------------------- MODULE Server --------------------------------
(***************************************************************************)
(* The server process: TransferLayer (server/src/transfer.cpp), one thread *)
(* going round select_loop, and PresentationLayer::fsm                     *)
(* (server/src/presentation.cpp), the state machine of a session, which    *)
(* writes the Database.                                                    *)
(*                                                                         *)
(* A pass of select_loop is: Select; for every session in turn Read if it  *)
(* was readable, then Write; Accept; then the second loop, Tail, which     *)
(* runs the fsm of new sessions and of sessions with screens to decode.    *)
(* Visits that would do nothing are left out of a pass.                    *)
(***************************************************************************)
EXTENDS Network, Database, AuthCodec

CONSTANTS Dumb,           \* the terminals that are dumb (serial), not IP
          WildByte,       \* what an uninitialised byte may turn out to be
          Capacity,       \* kRecvBufferSize, in units
          GarbageHeader   \* may the header that dequeue_packet(true) never
                          \* fills in hold a harmful packet_size?

ASSUME DumbAssumption == Dumb \subseteq Nat \ {0}
ASSUME WildAssumption == WildByte \subseteq 0..255
ASSUME CapacityAssumption == Capacity \in Nat \ {0}
ASSUME GarbageAssumption == GarbageHeader \in BOOLEAN

VARIABLES session_set,  \* the list of clients, oldest first
          sess,         \* sess[c]: struct Client of connection c
          status,       \* "up", or "crashed" once the process has died
          phase,        \* the loop of select_loop that is running
          todo,         \* the sessions that loop has still to visit
          ready,        \* read_fds: sessions select() found readable
          incoming      \* FD_ISSET(listener, &read_fds)

serverVars == <<session_set, sess, status, phase, todo, ready, incoming>>

SessionState == {"Acceptance", "WaitAuth", "WaitSysInfo", "WaitConfigInfo",
                 "WaitProcInfo", "WaitEtheInfo", "WaitTermInfo",
                 "WaitIPTermInfo", "WaitScrInfo", "End"}

(* struct Client as the constructor and the member initialisers leave it. *)
NewClient == [state |-> "Acceptance", devid |-> 0, ethnum |-> 0,
              tty_connected |-> 0, tty_cnt |-> 0, scr_num |-> 0,
              is_scr |-> FALSE, current_tty |-> 0,
              recv_buffer |-> <<>>, send_buffer |-> <<>>]

ServerInit == /\ session_set = <<>>
              /\ sess = [c \in Conn |-> NewClient]
              /\ status = "up"
              /\ phase = "tail"
              /\ todo = {}
              /\ ready = {}
              /\ incoming = FALSE

(* Variant for the checks: taking a packet resets the ring buffer. *)
DropAll(s, n) == <<>>

(* dequeue(buf, n), of what is known to hold n. *)
Drop(s, n) == SubSeq(s, n + 1, Len(s))

-----------------------------------------------------------------------------
(* The presentation layer.  Each handler takes the packet at the front of  *)
(* buf, the receive buffer, records it and queues the next request.        *)

First(buf) == Head(buf).pkt

Update(c, s) == sess' = [sess EXCEPT ![c] = s]

(* state, and what follows the packet in the buffer, after a handler that  *)
(* asks the client for reqs.                                               *)
Moved(s, state, rest, reqs) ==
  [s EXCEPT !.state = state, !.recv_buffer = rest, !.send_buffer = @ \o reqs]

OnAcceptance(c) ==
  /\ sess[c].state = "Acceptance"
  /\ Update(c, Moved(sess[c], "WaitAuth", sess[c].recv_buffer, <<Request("auth")>>))
  /\ UNCHANGED dbVars

(* decrypt_auth finds the agreed string under the key. *)
Authentic(p) == Decrypts(p.random_num, p.auth)

OnAuthResponse(c, buf) ==
  LET p == First(buf)
  IN  /\ sess[c].state = "WaitAuth"
      /\ p.type = "auth"
      /\ Authentic(p)
      /\ OnRecvAuthResponse(p.dev)
      /\ Update(c, [Moved(sess[c], "WaitSysInfo", Drop(buf, 2), <<Request("sys")>>)
                      EXCEPT !.devid = p.dev, !.ethnum = p.ethnum])

OnSysInfoResponse(c, buf) ==
  /\ sess[c].state = "WaitSysInfo"
  /\ First(buf).type = "sys"
  /\ OnRecvPart(sess[c].devid, "sys")
  /\ Update(c, Moved(sess[c], "WaitConfigInfo", Drop(buf, 2), <<Request("conf")>>))

OnConfInfoResponse(c, buf) ==
  /\ sess[c].state = "WaitConfigInfo"
  /\ First(buf).type = "conf"
  /\ OnRecvPart(sess[c].devid, "conf")
  /\ Update(c, Moved(sess[c], "WaitProcInfo", Drop(buf, 2), <<Request("proc")>>))

(* The ethernet ports are asked for last port first; a device with more    *)
(* than two ports is asked for nothing and stays in WaitProcInfo.          *)
OnProcInfoResponse(c, buf) ==
  LET After(state, reqs) == Update(c, Moved(sess[c], state, Drop(buf, 2), reqs))
  IN  /\ sess[c].state = "WaitProcInfo"
      /\ First(buf).type = "proc"
      /\ OnRecvPart(sess[c].devid, "proc")
      /\ CASE sess[c].ethnum = 0 -> After("WaitTermInfo", <<Request("ter")>>)
           [] sess[c].ethnum = 1 -> After("WaitEtheInfo", <<RequestOf("ether", 0)>>)
           [] sess[c].ethnum = 2 -> After("WaitEtheInfo", <<RequestOf("ether", 1),
                                                            RequestOf("ether", 0)>>)
           [] OTHER              -> After("WaitProcInfo", <<>>)

(* Variant for the checks: ethnum tested before it is counted down. *)
OnePortEarly(s) == s.ethnum > 1

PortsLeft(s) == s.ethnum > 0

OnEtherInfoResponse(c, buf) ==
  LET s == [sess[c] EXCEPT !.ethnum = @ - 1]
  IN  /\ sess[c].state = "WaitEtheInfo"
      /\ First(buf).type = "ether"
      /\ OnRecvPart(sess[c].devid, IF First(buf).port = 0 THEN "eth0" ELSE "eth1")
      /\ Update(c, IF PortsLeft(s)
                     THEN Moved(s, "WaitEtheInfo", Drop(buf, 2), <<>>)
                     ELSE Moved(s, "WaitTermInfo", Drop(buf, 2), <<Request("ter")>>))

(* The order in which a loop over a terminal map meets its members. *)
Sorted(S) == CHOOSE q \in [1..Cardinality(S) -> S] :
                \A i, j \in DOMAIN q : i < j => q[i] < q[j]

(* Variant for the checks: the loop over the terminal map starts at 1. *)
TtyRequestsFromTwo(ttys) ==
  LET ip == Sorted(ttys \ {1})
  IN  [i \in 1..Len(ip) |-> RequestOf("ipterm", ip[i])]

(* One request for each terminal of the two maps: the dumb ones first, in  *)
(* the order of their numbers.                                             *)
TtyRequests(ttys) ==
  LET dumb == Sorted(ttys \cap Dumb)
      ip   == Sorted(ttys \ Dumb)
  IN  [i \in 1..Len(dumb) |-> RequestOf("dumbterm", dumb[i])] \o
      [i \in 1..Len(ip) |-> RequestOf("ipterm", ip[i])]

OnTerInfoResponse(c, buf) ==
  LET p == First(buf)
  IN  /\ sess[c].state = "WaitTermInfo"
      /\ p.type = "ter"
      /\ OnRecvTermResponse(sess[c].devid, p.term_num)
      /\ Update(c, [Moved(sess[c], "WaitIPTermInfo", Drop(buf, 2), TtyRequests(p.ttys))
                      EXCEPT !.tty_connected = p.term_num])

(* Variant for the checks: the end is sent one terminal early. *)
AllButOne(s) == s.tty_cnt + 1 >= s.tty_connected

(* The test for the end of a session, made after a terminal and again      *)
(* after its screens.                                                      *)
AllCounted(s) == s.tty_cnt = s.tty_connected

(* dequeue_packet takes only the fixed part of a terminal's packet, the    *)
(* screens stay in the buffer for WaitScrInfo.                             *)
TakeTerminal(c, tty, n, rest) ==
  LET s == [sess[c] EXCEPT !.tty_cnt = @ + 1, !.scr_num = n, !.current_tty = tty]
  IN  /\ OnRecvIPTermResponse(s.devid, tty, n)
      /\ Update(c, CASE n # 0 -> [Moved(s, "WaitScrInfo", rest, <<>>) EXCEPT !.is_scr = TRUE]
                     [] n = 0 /\ AllCounted(s)  -> Moved(s, "End", rest, <<Request("end")>>)
                     [] n = 0 /\ ~AllCounted(s) -> Moved(s, "WaitIPTermInfo", rest, <<>>))

(* Variant for the checks: dequeue_packet takes packet_size bytes. *)
TakesWhole(c, buf) ==
  /\ sess[c].state = "WaitIPTermInfo"
  /\ First(buf).type = "ipterm"
  /\ TakeTerminal(c, First(buf).tty, First(buf).screen_num, Drop(buf, PacketUnits(First(buf))))

OnIPTermResponse(c, buf) ==
  /\ sess[c].state = "WaitIPTermInfo"
  /\ First(buf).type = "ipterm"
  /\ TakeTerminal(c, First(buf).tty, First(buf).screen_num, Drop(buf, 2))

(* The fsm expects 0x0a, but dequeue_packet has no case for it: the packet *)
(* is decoded through an uninitialised pointer, with an uninitialised      *)
(* length.  The process dies (OnWildPointer) or goes on with whatever      *)
(* terminal the wild bytes spell and whatever of the buffer is left.       *)
OnDumbTermResponse(c, buf) ==
  /\ sess[c].state = "WaitIPTermInfo"
  /\ First(buf).type = "dumbterm"
  /\ \E tty \in WildByte, n \in WildByte, gone \in 1..Len(buf) :
       TakeTerminal(c, tty, n, Drop(buf, gone))

OnEnd(c, buf) ==
  /\ sess[c].state = "End"
  /\ First(buf).type = "end"
  /\ UpdateTTYConnected(sess[c].devid, sess[c].tty_connected)
  /\ Update(c, Moved(sess[c], "End", Drop(buf, 1), <<>>))

(* The screens of a terminal.  The length dequeue_packet(true) computes    *)
(* from its uninitialised header is usually more than the buffer holds and *)
(* takes nothing; if it is not, bytes are lost and the screens after them  *)
(* are inserted as they were allocated, or reserve() throws.               *)
OnScreens(c) ==
  LET s == sess[c]
      n == s.scr_num
      Whose(taken) == [i \in 1..n |->
                         IF i <= taken /\ s.recv_buffer[i].part = "scr"
                           THEN s.recv_buffer[i].pkt.tty ELSE 0]
      Done(rest) == IF AllCounted(s) THEN Moved(s, "End", rest, <<Request("end")>>)
                                     ELSE Moved(s, "WaitIPTermInfo", rest, <<>>)
      Take(taken, gone) ==
        /\ OnRecvScreenInfoPackets(s.devid, s.current_tty, Whose(taken))
        /\ Update(c, [Done(Drop(s.recv_buffer, gone)) EXCEPT !.is_scr = FALSE])
      held == Len(s.recv_buffer)
      most == IF n <= held THEN n ELSE held
  IN  \/ Take(most, most)
      \/ /\ GarbageHeader
         /\ \E taken \in 1..most : \E gone \in (taken + 1)..held : Take(taken, gone)

-----------------------------------------------------------------------------
(* The transfer layer. *)

(* The packet types each state accepts.  Acceptance and WaitScrInfo never  *)
(* meet a packet: the second loop of the pass has moved the session on.    *)
Expects(state) ==
  CASE state = "WaitAuth"       -> {"auth"}
    [] state = "WaitSysInfo"    -> {"sys"}
    [] state = "WaitConfigInfo" -> {"conf"}
    [] state = "WaitProcInfo"   -> {"proc"}
    [] state = "WaitEtheInfo"   -> {"ether"}
    [] state = "WaitTermInfo"   -> {"ter"}
    [] state = "WaitIPTermInfo" -> {"ipterm", "dumbterm"}
    [] state = "End"            -> {"end"}

(* What try_recv moves from the socket: all that has arrived and fits. *)
Taken(c) == LET free == Capacity - Len(sess[c].recv_buffer)
            IN  IF Len(sock[c]) < free THEN Len(sock[c]) ELSE free

(* try_recv fails at the end of the stream when not even a header is held, *)
(* and whenever the connection was reset.                                  *)
RecvFails(c) == /\ sock[c] = <<>>
                /\ sess[c].recv_buffer = <<>> \/ peer[c] = "reset"

(* Variant for the checks: a header is enough to call the fsm. *)
HoldsHeader(buf) == Head(buf).part = "head"

(* buffer_size >= packet_size.  A buffer that no longer starts at a header *)
(* (after garbage) is read as one: its bytes spell a size and a direction  *)
(* that is not 0x91, so that the fsm refuses it (Misread) or it is too     *)
(* short (ReadBroken).                                                     *)
HoldsPacket(buf) == /\ Head(buf).part = "head"
                    /\ Len(buf) >= PacketUnits(First(buf))

Misread(buf) == Head(buf).part # "head"

Position(c) == CHOOSE i \in DOMAIN session_set : session_set[i] = c

Without(c) == /\ session_set' = RemoveAt(session_set, Position(c))
              /\ sess' = [sess EXCEPT ![c] = NewClient]

(* remove_client erases the element the range-for stands on, and here the  *)
(* loop goes on from it: the process dies or the loop reaches the next.    *)
RemoveCurrent(c) == /\ Without(c)
                    /\ status' \in {"up", "crashed"}
                    /\ todo' = todo \ {c}

Running(p) == status = "up" /\ phase = p

(* A loop goes over session_set in the order of the list. *)
IsNext(c) == c \in todo /\ \A d \in todo : Position(c) <= Position(d)

Visiting(c) == Running("visit") /\ IsNext(c)

Dispatch(c, buf) ==
  \/ OnAuthResponse(c, buf)
  \/ OnSysInfoResponse(c, buf)
  \/ OnConfInfoResponse(c, buf)
  \/ OnProcInfoResponse(c, buf)
  \/ OnEtherInfoResponse(c, buf)
  \/ OnTerInfoResponse(c, buf)
  \/ OnIPTermResponse(c, buf)
  \/ OnDumbTermResponse(c, buf)
  \/ OnEnd(c, buf)

(* A handler that returns false, before it has touched the database.  The  *)
(* statements themselves never fail: MysqlExecCommand repeats them.        *)
Refuses(c, buf) ==
  \/ First(buf).type \notin Expects(sess[c].state)
  \/ First(buf).type = "auth" /\ ~Authentic(First(buf))

(* What every Read does: c is done for this pass, its bytes leave the socket. *)
Receive(c) ==
  /\ Visiting(c)
  /\ c \in ready
  /\ ready' = ready \ {c}
  /\ sock' = [sock EXCEPT ![c] = Drop(@, Taken(c))]
  /\ UNCHANGED <<wire, s2c, peer, backlog, phase, incoming>>

Received(c) == sess[c].recv_buffer \o SubSeq(sock[c], 1, Taken(c))

(* One complete packet, however many are held, is handed to the fsm. *)
ReadPacket(c) ==
  /\ Receive(c)
  /\ ~RecvFails(c)
  /\ HoldsPacket(Received(c))
  /\ Dispatch(c, Received(c))
  /\ UNCHANGED <<session_set, status, todo>>

(* The fsm returns false. *)
ReadRefused(c) ==
  /\ Receive(c)
  /\ ~RecvFails(c)
  /\ \/ HoldsPacket(Received(c)) /\ Refuses(c, Received(c))
     \/ Misread(Received(c))
  /\ RemoveCurrent(c)
  /\ UNCHANGED dbVars

(* Variant for the checks: the session is kept, for the rest to come. *)
ReadKept(c) ==
  /\ Receive(c)
  /\ IF RecvFails(c) THEN TRUE ELSE ~HoldsPacket(Received(c))
  /\ sess' = [sess EXCEPT ![c].recv_buffer = Received(c)]
  /\ todo' = {}
  /\ UNCHANGED <<dbVars, session_set, status>>

(* Nothing, an error or part of a packet: remove_client and break, which   *)
(* ends the pass for the sessions after c too.                             *)
ReadBroken(c) ==
  /\ Receive(c)
  /\ IF RecvFails(c) THEN TRUE ELSE ~HoldsPacket(Received(c))
  /\ Without(c)
  /\ todo' = {}
  /\ UNCHANGED <<dbVars, status>>

(* The packets for which dequeue_packet has no case.  The fsm takes the    *)
(* answer to a version it does not support, 0x00, for an AuthResponse as   *)
(* well, and refuses what it finds at the end of the wild pointer.         *)
Undecoded == {"dumbterm", "version"}

OnWildPointer(c) ==
  /\ Receive(c)
  /\ ~RecvFails(c)
  /\ HoldsPacket(Received(c))
  /\ First(Received(c)).type \in Undecoded
  /\ status' = "crashed"
  /\ UNCHANGED <<dbVars, session_set, sess, todo>>

(* try_send: one queued request.  Sending to a client that has gone makes  *)
(* its host answer with a reset.                                           *)
Write(c) ==
  /\ Visiting(c)
  /\ c \notin ready
  /\ \/ /\ sess[c].send_buffer = <<>>
        /\ UNCHANGED <<s2c, peer, sess>>
     \/ /\ sess[c].send_buffer # <<>>
        /\ ~(Ended(c) /\ peer[c] = "reset")
        /\ IF peer[c] = "open"
             THEN /\ s2c' = [s2c EXCEPT ![c] = Append(@, Head(sess[c].send_buffer))]
                  /\ UNCHANGED peer
             ELSE /\ peer' = [peer EXCEPT ![c] = "reset"]
                  /\ UNCHANGED s2c
        /\ sess' = [sess EXCEPT ![c].send_buffer = Tail(@)]
  /\ todo' = todo \ {c}
  /\ UNCHANGED <<wire, sock, backlog, dbVars, session_set, status, phase, ready, incoming>>

WriteFails(c) ==
  /\ Visiting(c)
  /\ c \notin ready
  /\ sess[c].send_buffer # <<>>
  /\ Ended(c) /\ peer[c] = "reset"
  /\ RemoveCurrent(c)
  /\ UNCHANGED <<netVars, dbVars, phase, ready, incoming>>

(* Variant for the checks: the second loop only greets new sessions. *)
OnlyGreets(s) == s.state = "Acceptance"

(* The sessions the second loop of a pass has something to do for. *)
HasTail(s) == s.state = "Acceptance" \/ s.is_scr

(* accept_new_client, then on to the second loop. *)
Accept ==
  LET accepted == IF incoming THEN <<Head(backlog)>> ELSE <<>>
      set == session_set \o accepted
  IN  /\ Running("visit")
      /\ todo = {}
      /\ session_set' = set
      /\ backlog' = IF incoming THEN Tail(backlog) ELSE backlog
      /\ phase' = "tail"
      /\ todo' = {c \in Conn : c \in ToSet(set) /\ HasTail(sess[c])}
      /\ UNCHANGED <<wire, sock, s2c, peer, dbVars, sess, status, ready, incoming>>

TailStep(c) ==
  /\ Running("tail")
  /\ IsNext(c)
  /\ todo' = todo \ {c}
  /\ \/ OnAcceptance(c)
     \/ sess[c].is_scr /\ OnScreens(c)
  /\ UNCHANGED <<netVars, session_set, status, phase, ready, incoming>>

(* reserve(vector_size) throws std::length_error and nothing catches it. *)
TailThrows(c) ==
  /\ Running("tail")
  /\ IsNext(c)
  /\ sess[c].is_scr
  /\ GarbageHeader
  /\ status' = "crashed"
  /\ UNCHANGED <<netVars, dbVars, session_set, sess, phase, todo, ready, incoming>>

(* reset_rw_fd_sets and select(): a session with a full buffer is not read. *)
Select ==
  LET held == {c \in Conn : c \in ToSet(session_set)}
      readable == {c \in held : Readable(c) /\ Len(sess[c].recv_buffer) < Capacity}
      writable == {c \in held : sess[c].send_buffer # <<>>}
  IN  /\ Running("tail")
      /\ todo = {}
      /\ backlog # <<>> \/ readable \cup writable # {}
      /\ ready' = readable
      /\ incoming' = (backlog # <<>>)
      /\ todo' = readable \cup writable
      /\ phase' = "visit"
      /\ UNCHANGED <<netVars, dbVars, session_set, sess, status>>

ServerNext == \/ Select
              \/ Accept
              \/ \E c \in Conn : \/ ReadPacket(c)
                                 \/ ReadRefused(c)
                                 \/ ReadBroken(c)
                                 \/ OnWildPointer(c)
                                 \/ Write(c)
                                 \/ WriteFails(c)
                                 \/ TailStep(c)
                                 \/ TailThrows(c)

-----------------------------------------------------------------------------
(* A session never meets a packet while the second loop still owes it the  *)
(* first request or the screens of its current terminal: the fsm would     *)
(* take the packet for something else.  It takes the order of the two      *)
(* loops, and the break of the first, to see it.                           *)
NoneOwed == \A c \in ready : sess[c].state \notin {"Acceptance", "WaitScrInfo"}

(* The second loop decodes screens without looking at how much the buffer  *)
(* holds: whenever it is about to, all the screens the terminal announced  *)
(* are at the front of the buffer and are that terminal's.                 *)
ScreensWhole ==
  \A c \in Conn : sess[c].is_scr =>
    LET s == sess[c]
    IN  /\ s.scr_num <= Len(s.recv_buffer)
        /\ \A i \in 1..s.scr_num : /\ s.recv_buffer[i].part = "scr"
                                   /\ s.recv_buffer[i].pkt.tty = s.current_tty

=============================================================================
