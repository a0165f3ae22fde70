--------------------------- MODULE DeviceSessions ----------------------------
(***************************************************************************)
(* The Server with devices that follow the transmission protocol: any      *)
(* number of ethernet ports, dumb terminals, terminals without screens,    *)
(* which the emulated client of client/ never has.  A device answers each  *)
(* request in order, until one at which it falls silent, and may die at    *)
(* any moment.  The devices themselves are not in the repository.          *)
(***************************************************************************)
EXTENDS Server

CONSTANTS Profiles,   \* the devices that may be at the end of a connection
          MayDie      \* may a device close in the middle of a session?

ASSUME MayDieAssumption == MayDie \in BOOLEAN
ASSUME ProfilesAssumption ==
  \A p \in Profiles : /\ p.ethnum \in Nat
                      /\ p.ttys \subseteq Nat \ {0} /\ IsFiniteSet(p.ttys)
                      /\ p.term_num \in Nat
                      /\ p.scr \in [p.ttys -> Nat]
                      /\ p.string \in Seq(Bit) /\ Len(p.string) = Len(c_auth)

VARIABLES prof,   \* prof[c]: the device at the end of connection c
          over    \* over[c]: it has answered the end of the session

vars == <<netVars, dbVars, serverVars, prof, over>>

Init == /\ NetInit
        /\ DbInit
        /\ ServerInit
        /\ prof \in [Conn -> Profiles]
        /\ \A c, d \in Conn : c # d => prof[c].dev # prof[d].dev
        /\ over = [c \in Conn |-> FALSE]

-----------------------------------------------------------------------------
Connect(c) ==
  /\ peer[c] = "idle"
  /\ peer' = [peer EXCEPT ![c] = "open"]
  /\ backlog' = Append(backlog, c)
  /\ UNCHANGED <<wire, sock, s2c, dbVars, serverVars, prof, over>>

(* What a device says of itself.  One that does not have the key, or the   *)
(* string, sends what is another string under the key; one that needs a    *)
(* newer server says so.                                                   *)
Report(p, random_num) ==
  IF p.newer THEN PlainPacket("version")
             ELSE AuthPacket(p.dev, p.ethnum, random_num,
                             Crypted(kSecret, random_num, Plain(p.string)))

(* A terminal the device does not have has no screens. *)
ScreensOf(p, tty) == IF tty \in p.ttys THEN p.scr[tty] ELSE 0

(* The answer to a request. *)
Reply(p, req, random_num) ==
  CASE req.type = "auth"     -> Report(p, random_num)
    [] req.type = "ether"    -> EtherPacket(req.no)
    [] req.type = "ter"      -> TerPacket(p.ttys, p.term_num)
    [] req.type = "dumbterm" -> TtyPacket("dumbterm", req.no, ScreensOf(p, req.no))
    [] req.type = "ipterm"   -> TtyPacket("ipterm", req.no, ScreensOf(p, req.no))
    [] OTHER                 -> PlainPacket(req.type)

Blocks(p) == HeadBlock(p) \o (IF HasData(p) THEN DataBlock(p) ELSE <<>>)

(* A device answers the oldest request, unless it falls silent there.      *)
Answer(c) ==
  /\ peer[c] = "open"
  /\ s2c[c] # <<>>
  /\ Head(s2c[c]).type # prof[c].mute
  /\ \E r \in RandomNums :
       wire' = [wire EXCEPT ![c] = @ \o Blocks(Reply(prof[c], Head(s2c[c]), r))]
  /\ s2c' = [s2c EXCEPT ![c] = Tail(@)]
  /\ over' = [over EXCEPT ![c] = Head(s2c[c]).type = "end"]
  /\ UNCHANGED <<sock, peer, backlog, dbVars, serverVars, prof>>

(* The device leaves after the session. *)
Leave(c) ==
  /\ peer[c] = "open"
  /\ over[c]
  /\ peer' = [peer EXCEPT ![c] = AfterClose(c)]
  /\ UNCHANGED <<wire, sock, s2c, backlog, dbVars, serverVars, prof, over>>

(* The device dies: of the blocks on their way the last ones are lost. *)
Die(c) ==
  /\ MayDie
  /\ peer[c] = "open"
  /\ ~over[c]
  /\ peer' = [peer EXCEPT ![c] = AfterClose(c)]
  /\ \E n \in 0..Len(wire[c]) :
       /\ n < Len(wire[c]) => wire[c][n + 1].part # "scr"
       /\ wire' = [wire EXCEPT ![c] = SubSeq(@, 1, n)]
  /\ UNCHANGED <<sock, s2c, backlog, dbVars, serverVars, prof, over>>

DeviceNext == \E c \in Conn : Connect(c) \/ Answer(c) \/ Leave(c) \/ Die(c)

Arrive == \E c \in Conn : Deliver(c) /\ UNCHANGED <<dbVars, serverVars, prof, over>>

Next == \/ DeviceNext
        \/ Arrive
        \/ ServerNext /\ UNCHANGED <<prof, over>>

Spec == Init /\ [][Next]_vars

(* The server never waits except in select(), segments arrive, and a       *)
(* device answers what it is asked, but for the request at which it falls  *)
(* silent.  A device need not connect or die.                              *)
Fairness == /\ WF_vars(ServerNext /\ UNCHANGED <<prof, over>>)
            /\ \A c \in Conn : /\ WF_vars(Deliver(c) /\ UNCHANGED <<dbVars, serverVars, prof, over>>)
                               /\ WF_vars(Answer(c))
                               /\ WF_vars(Leave(c))

FairSpec == Spec /\ Fairness

-----------------------------------------------------------------------------
Live(c) == c \in ToSet(session_set)

UnitOK(u) == u.part \in {"head", "body", "scr"}

(* The shape of the state, and that the lists of the server name only      *)
(* sessions it has.                                                        *)
TypeOK ==
  /\ \A c \in Conn : /\ \A i \in 1..Len(sock[c]) : UnitOK(sock[c][i])
                     /\ peer[c] \in PeerState
                     /\ sess[c].state \in SessionState
                     /\ sess[c].tty_cnt \in Nat
                     /\ Len(sess[c].recv_buffer) <= Capacity
                     /\ ~Live(c) => sess[c] = NewClient
  /\ IsInjective(session_set) /\ ToSet(session_set) \subseteq Conn
  /\ todo \cup ready \subseteq ToSet(session_set)
  /\ ToSet(backlog) \cap ToSet(session_set) = {}
  /\ status \in {"up", "crashed"} /\ phase \in {"visit", "tail"}
  /\ Cardinality(base) <= 1
  /\ global_number \in 0..(ScrMod - 1)

(* Every terminal asked about is in exactly one place: still to be asked,  *)
(* asked, answered and on its way, received, or counted in tty_cnt.        *)
Tally(c) ==
  LET asked(q) == Cardinality({i \in DOMAIN q : q[i].type = "ipterm"})
      heads(q) == Cardinality({i \in DOMAIN q : /\ q[i].part = "head"
                                                /\ q[i].pkt.type = "ipterm"})
      s == sess[c]
  IN  asked(s.send_buffer) + asked(s2c[c]) + heads(wire[c])
        + heads(sock[c]) + heads(s.recv_buffer) + s.tty_cnt

NoneLost ==
  \A c \in Conn : Live(c) /\ peer[c] = "open" /\ sess[c].state \in {"WaitIPTermInfo", "WaitScrInfo", "End"}
                    => Tally(c) = Cardinality(prof[c].ttys)

(* The devices the protocol has in mind. *)
Conforms(p) == /\ p.string = c_auth /\ ~p.newer
               /\ p.term_num >= Cardinality(p.ttys)
               /\ p.ttys \cap Dumb = {}

(* When the server has told a device that its session is complete, and no  *)
(* other device has authenticated since, the tables hold exactly what the  *)
(* device reported: each terminal once and each of its screens once.  A    *)
(* device that reports fewer terminals than it has active is told earlier. *)
Recorded(p) ==
  /\ \A t \in p.ttys :
       /\ Cardinality({i \in DOMAIN ttyinfo : /\ ttyinfo[i].dev = p.dev
                                              /\ ttyinfo[i].tty = t
                                              /\ ttyinfo[i].scrnum = p.scr[t]}) = 1
       /\ Cardinality({i \in DOMAIN scrinfo : /\ scrinfo[i].dev = p.dev
                                              /\ scrinfo[i].tty = t
                                              /\ scrinfo[i].of = t}) = p.scr[t]
  /\ Cardinality({i \in DOMAIN ttyinfo : ttyinfo[i].dev = p.dev}) = Cardinality(p.ttys)
  /\ \E r \in base : r.dev = p.dev /\ {"sys", "conf", "proc"} \subseteq r.parts

EndIsComplete ==
  \A c \in Conn : /\ Conforms(prof[c])
                  /\ sess[c].state = "End"
                  /\ \E r \in base : r.dev = prof[c].dev
                  => Recorded(prof[c])

(* The screens of a terminal are told apart by their numbers, although the *)
(* numbers come from one counter of all devices that starts again at 0.    *)
ScreensDistinct ==
  \A i, j \in DOMAIN scrinfo :
    i # j /\ scrinfo[i].dev = scrinfo[j].dev /\ scrinfo[i].tty = scrinfo[j].tty
      => scrinfo[i].scrno # scrinfo[j].scrno

(* A device that does not know the agreed string leaves nothing in the     *)
(* database, whichever place of the key its random number gives.  The      *)
(* first character is left out: decrypt_auth does not compare it.          *)
OnlyAuthenticated ==
  \A c \in Conn : Tail(prof[c].string) # Tail(c_auth) =>
    /\ \A r \in base : r.dev # prof[c].dev
    /\ \A i \in DOMAIN ttyinfo : ttyinfo[i].dev # prof[c].dev
    /\ \A i \in DOMAIN scrinfo : scrinfo[i].dev # prof[c].dev

(* The server drops no session of a device that is there and follows the   *)
(* protocol.  Where a packet may arrive in part the code does not keep     *)
(* this, although transfer.hpp:45 allows for such a packet.                *)
KeptWhileConforming ==
  [][\A c \in Conn : Live(c) /\ ~Live(c)' => peer[c] # "open" \/ ~Conforms(prof[c])]_vars

(* What is held and what has arrived is the beginning of a packet. *)
InPart(c) == LET all == sess[c].recv_buffer \o sock[c]
             IN  all # <<>> /\ Head(all).part = "head" /\ Len(all) < PacketUnits(First(all))

(* However packets arrive, that one was in the server only in part is the  *)
(* one reason to drop the session of a device that is there and follows    *)
(* the protocol: it is never refused, and what comes behind the end of a   *)
(* packet never counts against it.                                         *)
KeptUnlessInPart ==
  [][\A c \in Conn : Live(c) /\ ~Live(c)' =>
       peer[c] # "open" \/ ~Conforms(prof[c]) \/ InPart(c)]_vars

(* A session whose device has gone is removed from the list.               *)
GoneIsReaped ==
  \A c \in Conn : (Live(c) /\ peer[c] # "open") ~> (~Live(c) \/ status = "crashed")

(* A device that connects, answers, and reports as many terminals as it    *)
(* has active gets to the end of its session, whatever the other devices   *)
(* do and also when they fall silent, as long as the server is there.      *)
Ordinary(p) == Conforms(p) /\ p.mute = "none" /\ p.term_num = Cardinality(p.ttys) /\ p.ttys # {} /\ p.ethnum <= 2

Completes ==
  \A c \in Conn : (peer[c] = "open" /\ Ordinary(prof[c])) ~> (over[c] \/ status = "crashed")

(* The server goes on serving. *)
StaysUp == status = "up"

=============================================================================
