--------------------------- MODULE SessionsProofs ---------------------------
(***************************************************************************)
(* Safety of the server for any devices that keep to the protocol.         *)
(* ServerProofs and StreamProofs have what the server's steps preserve;    *)
(* here are the steps of the devices, and the theorems: NoneOwed, TypeOK,  *)
(* OnlyAuthenticated, ScreensWhole, ScreensDistinct, EndIsComplete,        *)
(* NoneLost and KeptWhileConforming.  The inductive invariants are         *)
(*   Sound      types of all buffers, the lists, whose device a session is *)
(*   Streams    what is on its way to the server is made of whole packets  *)
(*   Order      each terminal is asked about, reported and recorded once,  *)
(*              in the order of the numbers of the terminals               *)
(*   Numbering  what is recorded of a device is below what is to come, and *)
(*              has different numbers                                      *)
(*   Recording  what the tables hold of a device, as long as no other has  *)
(*              emptied them, is what its session has taken so far         *)
(*   Account    the terminals of a device are the requests and packets     *)
(*              still under way and those that are counted                 *)
(*   Steady     what the fsm has not taken begins with a head              *)
(*   Agreeing   only packets the state of a session waits for are to come  *)
(*   Attentive  a session found readable has bytes to read.                *)
(***************************************************************************)
EXTENDS DeviceSessions, StreamProofs

(* Every step: the server's own, and the others, which leave its variables. *)
LEMMA SessionsStep == Owing /\ [Next]_vars => Owing'
<1> SUFFICES ASSUME Owing, [Next]_vars PROVE Owing'
  OBVIOUS
<1>1. CASE ServerNext
  BY <1>1, OwingStep
<1>2. CASE DeviceNext
  <2>1. UNCHANGED serverVars
    BY <1>2 DEF DeviceNext, Connect, Answer, Leave, Die
  <2> QED  BY <2>1, OwingKept
<1>3. CASE Arrive
  <2>1. UNCHANGED serverVars
    BY <1>3 DEF Arrive
  <2> QED  BY <2>1, OwingKept
<1>4. CASE UNCHANGED vars
  BY <1>4, OwingKept DEF vars
<1> QED  BY <1>1, <1>2, <1>3, <1>4 DEF Next

(* In any run with any devices, however they die, no session that is still *)
(* to be read in a pass is owed the first request or its screens.          *)
THEOREM SessionsNoneOwed == Spec => []NoneOwed
<1>1. Init => Owing
  BY OwingInit DEF Init
<1>2. Owing => NoneOwed
  BY DEF Owing
<1> QED  BY <1>1, <1>2, SessionsStep, PTL DEF Spec

-----------------------------------------------------------------------------
(* What the devices send.                                                  *)

PacketsOf(p) == {Reply(p, q, r) : q \in Requests, r \in RandomNums}

(* P[c]: the packets of the device of c.  D[c]: its number, if it knows    *)
(* the agreed string but for the first character.                          *)
Known(p) == {d \in {p.dev} : Tail(p.string) = Tail(c_auth)}

Devices(P, D) == /\ P = [c \in Conn |-> PacketsOf(prof[c])]
                 /\ D = [c \in Conn |-> Known(prof[c])]

Distinct == /\ \A c \in Conn : prof[c] \in Profiles
            /\ \A c, d \in Conn : c # d => prof[c].dev # prof[d].dev

(* The numbers in a reply are numbers. *)
LEMMA ReplyOK ==
  ASSUME NEW p \in Profiles, NEW q \in Requests, NEW r \in RandomNums
  PROVE  /\ PacketOK(Reply(p, q, r))
         /\ Reply(p, q, r).type \in {q.type, "version"}
<1>1. q.no \in Nat
  BY DEF Requests
<1>2. p.ttys \in SUBSET Nat /\ IsFiniteSet(p.ttys) /\ ScreensOf(p, q.no) \in Nat
  BY ProfilesAssumption DEF ScreensOf
<1>3. CASE q.type = "auth"
  <2>1. Reply(p, q, r) = Report(p, r)
    BY <1>3 DEF Reply
  <2>2. Reply(p, q, r).type \in {"auth", "version"}
    BY <2>1 DEF Report, PlainPacket, AuthPacket
  <2> QED
    BY <1>3, <2>2 DEF PacketOK, TtyTypes
<1>4. CASE q.type = "ether"
  <2>1. Reply(p, q, r) = EtherPacket(q.no)
    BY <1>4 DEF Reply
  <2>2. Reply(p, q, r).type = "ether"
    BY <2>1 DEF EtherPacket
  <2> QED
    BY <1>4, <2>2 DEF PacketOK, TtyTypes
<1>5. CASE q.type = "ter"
  <2>1. Reply(p, q, r) = TerPacket(p.ttys, p.term_num)
    BY <1>5 DEF Reply
  <2>2. Reply(p, q, r).type = "ter" /\ Reply(p, q, r).ttys = p.ttys
    BY <2>1 DEF TerPacket
  <2> QED
    BY <1>2, <1>5, <2>2 DEF PacketOK, TtyTypes
<1>6. CASE q.type \in TtyTypes
  <2>1. Reply(p, q, r) = TtyPacket(q.type, q.no, ScreensOf(p, q.no))
    BY <1>6 DEF Reply, TtyTypes
  <2>2. /\ Reply(p, q, r).type = q.type /\ Reply(p, q, r).tty = q.no
        /\ Reply(p, q, r).screen_num = ScreensOf(p, q.no)
    BY <2>1 DEF TtyPacket
  <2>3. q.type # "ter"
    BY <1>6 DEF TtyTypes
  <2>4. q.type = "dumbterm" => Dumb # {}
    BY DEF Requests, RequestTypes
  <2> QED
    BY <1>1, <1>2, <2>2, <2>3, <2>4 DEF PacketOK
<1>7. CASE q.type \notin {"auth", "ether", "ter"} \cup TtyTypes
  <2>1. Reply(p, q, r) = PlainPacket(q.type)
    BY <1>7 DEF Reply, TtyTypes
  <2>2. Reply(p, q, r).type = q.type
    BY <2>1 DEF PlainPacket
  <2> QED
    BY <1>7, <2>2 DEF PacketOK, TtyTypes
<1> QED
  BY <1>3, <1>4, <1>5, <1>6, <1>7

(* decrypt_auth accepts a report only from a device that knows the string. *)
LEMMA ReportKnown ==
  ASSUME NEW p \in Profiles, NEW r \in RandomNums, ~p.newer, Authentic(Report(p, r))
  PROVE  Report(p, r).dev = p.dev /\ Tail(p.string) = Tail(c_auth)
<1> DEFINE sent == Crypted(kSecret, r, Plain(p.string))
<1>1. Report(p, r) = AuthPacket(p.dev, p.ethnum, r, sent)
  BY DEF Report
<1>2. Report(p, r).dev = p.dev /\ Report(p, r).random_num = r /\ Report(p, r).auth = sent
  BY <1>1 DEF AuthPacket
<1>3. Decrypts(r, sent)
  BY <1>2 DEF Authentic
<1>4. p.string \in Seq(Bit) /\ Len(p.string) = Len(c_auth) /\ r \in Nat /\ c_auth \in Seq(Bit)
  BY ProfilesAssumption, CodecAssumption
<1>5. <<0>> \in Seq(Bit)
  BY DEF Bit
<1>6. \A i \in 2..Len(c_auth) : p.string[i] = c_auth[i]
  BY <1>3, <1>4, <1>5, OnlyFirstUnchecked DEF Plain
<1>7. CASE c_auth = <<>>
  <2>1. Len(c_auth) = 0
    BY <1>7
  <2>2. p.string = <<>>
    BY <1>4, <2>1, EmptySeq
  <2> QED
    BY <1>2, <1>7, <2>2
<1>8. CASE c_auth # <<>>
  <2>1. p.string # <<>>
    BY <1>4, <1>8, EmptySeq
  <2>2. /\ Tail(p.string) \in Seq(Bit) /\ Len(Tail(p.string)) = Len(p.string) - 1
        /\ \A i \in 1..Len(Tail(p.string)) : Tail(p.string)[i] = p.string[i + 1]
    BY <1>4, <2>1, HeadTailProperties
  <2>3. /\ Tail(c_auth) \in Seq(Bit) /\ Len(Tail(c_auth)) = Len(c_auth) - 1
        /\ \A i \in 1..Len(Tail(c_auth)) : Tail(c_auth)[i] = c_auth[i + 1]
    BY <1>4, <1>8, HeadTailProperties
  <2> DEFINE a == Tail(p.string)
             b == Tail(c_auth)
  <2>4. Len(a) = Len(b) /\ Len(c_auth) \in Nat
    BY <1>4, <2>2, <2>3, LenProperties
  <2>5. ASSUME NEW i \in 1..Len(a)
        PROVE  a[i] = b[i]
    <3>1. i + 1 \in 2..Len(c_auth) /\ i \in 1..Len(b)
      BY <2>3, <2>4
    <3> QED
      BY <1>6, <2>2, <2>3, <3>1
  <2>6. a = b
    BY <2>2, <2>3, <2>4, <2>5, SeqEqual
  <2> QED
    BY <1>2, <2>6
<1> QED
  BY <1>7, <1>8

LEMMA DevicesAdmit ==
  ASSUME NEW P, NEW D, Devices(P, D), Distinct
  PROVE  (\A c \in Conn : \A x \in P[c] : PacketOK(x)) /\ Admits(P, D)
<1>1. SUFFICES ASSUME NEW c \in Conn, NEW x \in P[c]
               PROVE  PacketOK(x) /\ (x.type = "auth" /\ Authentic(x) => x.dev \in D[c])
  BY DEF Admits
<1> DEFINE p == prof[c]
<1>2. p \in Profiles /\ P[c] = PacketsOf(p) /\ D[c] = Known(p)
  BY DEF Devices, Distinct
<1>3. PICK q \in Requests, r \in RandomNums : x = Reply(p, q, r)
  BY <1>2 DEF PacketsOf
<1> HIDE DEF p
<1>4. PacketOK(x) /\ x.type \in {q.type, "version"}
  BY <1>2, <1>3, ReplyOK
<1>5. ASSUME x.type = "auth", Authentic(x)
      PROVE  x.dev \in D[c]
  <2>1. q.type = "auth"
    BY <1>4, <1>5
  <2>2. x = Report(p, r)
    BY <1>3, <2>1 DEF Reply
  <2>3. ~p.newer
    BY <1>5, <2>2 DEF Report, PlainPacket
  <2>4. x.dev = p.dev /\ Tail(p.string) = Tail(c_auth)
    BY <1>2, <1>5, <2>2, <2>3, ReportKnown
  <2> QED
    BY <1>2, <2>4 DEF Known
<1> QED
  BY <1>4, <1>5

-----------------------------------------------------------------------------
(* What a step of a device, or of the network, does to the buffers.        *)

LEMMA ConnectDoes ==
  ASSUME NEW P, Typed(P), NEW c \in Conn, Connect(c)
  PROVE  Typed(P)' /\ UNCHANGED Stream(c)
<1>1. /\ peer[c] = "idle" /\ peer' = [peer EXCEPT ![c] = "open"]
      /\ UNCHANGED <<wire, sock, s2c, sess>>
  BY DEF Connect, serverVars
<1>2. peer = [d \in Conn |-> peer[d]] /\ \A d \in Conn : peer[d] \in PeerState
  BY DEF Typed
<1>3. /\ peer' = [d \in Conn |-> peer'[d]]
      /\ peer'[c] = "open" /\ \A d \in Conn : d # c => peer'[d] = peer[d]
  BY <1>1, <1>2, Exchanged, Zenon
<1>4. \A d \in Conn : peer'[d] \in PeerState
  BY <1>2, <1>3 DEF PeerState
<1> QED
  BY <1>1, <1>3, <1>4 DEF Typed, Stream

(* The answer is a packet, sent behind what is on its way.                 *)
LEMMA AnswerDoes ==
  ASSUME NEW P, NEW D, Devices(P, D), Distinct, Typed(P), NEW c \in Conn, Answer(c)
  PROVE  /\ Typed(P)'
         /\ \E x \in P[c] : wire'[c] = wire[c] \o Whole(x)
         /\ \A d \in Conn : d # c => wire'[d] = wire[d]
         /\ UNCHANGED <<sock, peer, serverVars>>
<1>1. PICK r \in RandomNums :
        wire' = [wire EXCEPT ![c] = wire[c] \o Blocks(Reply(prof[c], Head(s2c[c]), r))]
  BY DEF Answer
<1>2. /\ s2c[c] # <<>> /\ s2c' = [s2c EXCEPT ![c] = Tail(s2c[c])]
      /\ UNCHANGED <<sock, peer, serverVars>>
  BY DEF Answer
<1> DEFINE x == Reply(prof[c], Head(s2c[c]), r)
<1>3. s2c[c] \in Seq(Requests) /\ s2c = [d \in Conn |-> s2c[d]] /\ wire = [d \in Conn |-> wire[d]]
  BY DEF Typed
<1>4. Head(s2c[c]) \in Requests /\ Tail(s2c[c]) \in Seq(Requests)
  BY <1>2, <1>3, HeadTailProperties
<1>5. x \in P[c] /\ PacketOK(x)
  <2>1. x \in P[c]
    BY <1>4 DEF Devices, PacketsOf
  <2> QED
    BY <2>1 DEF Typed
<1>6. Blocks(x) = Whole(x)
  BY DEF Blocks, Whole
<1> HIDE DEF x
<1>7. wire' = [wire EXCEPT ![c] = wire[c] \o Whole(x)]
  BY <1>1, <1>6 DEF x
<1>8. Whole(x) \in Seq(UnitsOf(P[c]))
  BY <1>5, WholeUnits
<1>9. wire[c] \o Whole(x) \in Seq(UnitsOf(P[c]))
  <2>1. wire[c] \in Seq(UnitsOf(P[c]))
    BY DEF Typed
  <2> QED
    BY <1>8, <2>1, ConcatProperties
<1>10. /\ wire' = [d \in Conn |-> wire'[d]] /\ wire'[c] = wire[c] \o Whole(x)
       /\ \A d \in Conn : d # c => wire'[d] = wire[d]
  BY <1>3, <1>7, Exchanged, Zenon
<1>11. /\ s2c' = [d \in Conn |-> s2c'[d]] /\ s2c'[c] = Tail(s2c[c])
       /\ \A d \in Conn : d # c => s2c'[d] = s2c[d]
  BY <1>2, <1>3, Exchanged, Zenon
<1>12. \A d \in Conn : s2c'[d] \in Seq(Requests) /\ wire'[d] \in Seq(UnitsOf(P[d]))
  BY <1>4, <1>9, <1>10, <1>11 DEF Typed
<1>13. Typed(P)'
  BY <1>2, <1>10, <1>11, <1>12 DEF Typed, serverVars
<1> QED
  BY <1>2, <1>5, <1>10, <1>13

(* The device goes, and of what is on its way it keeps the last part.      *)
LEMMA GoneDoes ==
  ASSUME NEW P, Typed(P), NEW c \in Conn, Leave(c) \/ Die(c)
  PROVE  /\ Typed(P)'
         /\ peer'[c] \in {"closed", "reset"}
         /\ \E lost \in Seq(UnitsOf(P[c])) : wire[c] = wire'[c] \o lost
         /\ \A d \in Conn : d # c => wire'[d] = wire[d] /\ peer'[d] = peer[d]
         /\ UNCHANGED <<sock, serverVars>>
<1> DEFINE U == UnitsOf(P[c])
<1>1. /\ peer' = [peer EXCEPT ![c] = AfterClose(c)] /\ UNCHANGED <<sock, s2c, serverVars>>
      /\ wire' = wire \/ \E n \in 0..Len(wire[c]) : wire' = [wire EXCEPT ![c] = SubSeq(wire[c], 1, n)]
  BY DEF Leave, Die
<1>2. /\ peer = [d \in Conn |-> peer[d]] /\ wire = [d \in Conn |-> wire[d]] /\ wire[c] \in Seq(U)
      /\ \A d \in Conn : peer[d] \in PeerState
  BY DEF Typed
<1>3. AfterClose(c) \in {"closed", "reset"}
  BY DEF AfterClose
<1>4. /\ peer' = [d \in Conn |-> peer'[d]] /\ peer'[c] = AfterClose(c)
      /\ \A d \in Conn : d # c => peer'[d] = peer[d]
  BY <1>1, <1>2, Exchanged, Zenon
<1>5. \A d \in Conn : peer'[d] \in PeerState
  BY <1>2, <1>3, <1>4 DEF PeerState
<1>6. CASE wire' = wire
  <2>1. wire[c] = wire'[c] \o <<>> /\ <<>> \in Seq(U)
    BY <1>2, <1>6, ConcatEmptySeq
  <2>2. Typed(P)'
    BY <1>1, <1>4, <1>5, <1>6 DEF Typed, serverVars
  <2> QED
    BY <1>1, <1>3, <1>4, <1>6, <2>1, <2>2
<1>7. CASE \E n \in 0..Len(wire[c]) : wire' = [wire EXCEPT ![c] = SubSeq(wire[c], 1, n)]
  <2>1. PICK n \in 0..Len(wire[c]) : wire' = [wire EXCEPT ![c] = SubSeq(wire[c], 1, n)]
    BY <1>7
  <2>2. /\ wire' = [d \in Conn |-> wire'[d]] /\ wire'[c] = SubSeq(wire[c], 1, n)
        /\ \A d \in Conn : d # c => wire'[d] = wire[d]
    BY <1>2, <2>1, Exchanged, Zenon
  <2>3. SubSeq(wire[c], 1, n) \in Seq(U) /\ wire[c] = SubSeq(wire[c], 1, n) \o Drop(wire[c], n)
    BY <1>2, FrontProperties, FrontAndRest
  <2>4. Drop(wire[c], n) \in Seq(U)
    <3>1. n \in Nat
      BY <1>2, LenProperties
    <3> QED
      BY <1>2, <3>1, DropProperties
  <2>5. \A d \in Conn : wire'[d] \in Seq(UnitsOf(P[d]))
    BY <2>2, <2>3 DEF Typed
  <2>6. Typed(P)'
    BY <1>1, <1>4, <1>5, <2>2, <2>5 DEF Typed, serverVars
  <2> QED
    BY <1>1, <1>3, <1>4, <2>2, <2>3, <2>4, <2>6
<1> QED
  BY <1>1, <1>6, <1>7

-----------------------------------------------------------------------------
(* The invariant.  Every packet, session and row is one of the devices     *)
(* there are.                                                              *)
Sound == /\ Owing /\ Distinct /\ Lists /\ Quiet
         /\ status \in {"up", "crashed"}
         /\ \E P, D : /\ Devices(P, D)
                      /\ Typed(P) /\ RowsTyped(Ids(D)) /\ Identified(D)

(* Of the streams: a device sends whole packets, the server takes from the *)
(* front, so that what is left is framed, and complete while the device is *)
(* there to send the rest.                                                 *)
Streams == status = "up" =>
  \A c \in Conn : /\ Framed(Stream(c))
                  /\ peer[c] \in {"idle", "open"} => Complete(Stream(c))

LEMMA SoundInit == Init => Sound
<1> SUFFICES ASSUME Init PROVE Sound
  OBVIOUS
<1>1. Owing
  BY OwingInit DEF Init
<1>2. Distinct
  BY DEF Init, Distinct
<1>3. /\ session_set = <<>> /\ backlog = <<>> /\ sess = [c \in Conn |-> NewClient]
      /\ todo = {} /\ ready = {} /\ phase = "tail" /\ status = "up"
      /\ wire = [c \in Conn |-> <<>>] /\ sock = [c \in Conn |-> <<>>]
      /\ s2c = [c \in Conn |-> <<>>] /\ peer = [c \in Conn |-> "idle"]
      /\ base = {} /\ ttyinfo = <<>> /\ scrinfo = <<>> /\ global_number = 0
  BY DEF Init, NetInit, ServerInit, DbInit
<1>4. Listing(<<>>, Conn) /\ ToSet(<<>>) = {}
  BY DEF Listing, IsInjective, ToSet
<1>5. Lists
  BY <1>3, <1>4 DEF Lists, Held
<1>6. Quiet
  BY <1>3, <1>4 DEF Quiet, Serving, Held
<1>7. PICK P, D : P = [c \in Conn |-> PacketsOf(prof[c])] /\ D = [c \in Conn |-> Known(prof[c])]
  OBVIOUS
<1>8. Devices(P, D)
  BY <1>7 DEF Devices
<1>9. Typed(P)
  <2>1. \A c \in Conn : SessionTyped(sess[c], P[c])
    BY <1>3, NewClientTyped
  <2>2. \A c \in Conn : \A p \in P[c] : PacketOK(p)
    BY <1>2, <1>8, DevicesAdmit
  <2>3. \A c \in Conn : /\ wire[c] \in Seq(UnitsOf(P[c])) /\ sock[c] \in Seq(UnitsOf(P[c]))
                        /\ s2c[c] \in Seq(Requests) /\ peer[c] \in PeerState
    BY <1>3 DEF PeerState
  <2>4. /\ wire = [c \in Conn |-> wire[c]] /\ sock = [c \in Conn |-> sock[c]]
        /\ s2c = [c \in Conn |-> s2c[c]] /\ peer = [c \in Conn |-> peer[c]]
    BY <1>3
  <2> QED
    BY <2>1, <2>2, <2>3, <2>4 DEF Typed
<1>10. RowsTyped(Ids(D))
  <2>1. 0 \in 0..(ScrMod - 1)
    BY ScrModAssumption
  <2> QED
    BY <1>3, <2>1 DEF RowsTyped, BaseTyped
<1>11. Identified(D)
  BY <1>3 DEF Identified, NewClient
<1> QED
  BY <1>1, <1>2, <1>3, <1>5, <1>6, <1>8, <1>9, <1>10, <1>11, Zenon DEF Sound

(* The lists when a device, or the network, makes a step. *)
LEMMA EnvironmentLists ==
  ASSUME Lists, Quiet, DeviceNext \/ Arrive, NEW P, Typed(P), NEW D, Devices(P, D), Distinct
  PROVE  Lists' /\ Quiet'
<1>1. UNCHANGED serverVars
  BY DEF DeviceNext, Connect, Answer, Leave, Die, Arrive
<1>2. /\ UNCHANGED <<session_set, sess, phase, todo, ready, incoming>>
      /\ Held' = Held
  BY <1>1 DEF serverVars, Held
<1>3. ASSUME NEW c \in Conn, Connect(c)
      PROVE  Lists' /\ Quiet'
  <2>1. peer[c] = "idle" /\ peer' = [peer EXCEPT ![c] = "open"] /\ backlog' = Append(backlog, c)
    BY <1>3 DEF Connect
  <2>2. c \notin Held /\ c \notin ToSet(backlog)
    BY <2>1 DEF Quiet, Serving
  <2>3. Listing(backlog', Conn) /\ ToSet(backlog') = ToSet(backlog) \cup {c}
    BY <2>1, <2>2, BacklogGrows
  <2>4. ToSet(backlog') # {}
    BY <2>3
  <2>5. backlog' # <<>>
    BY <2>4 DEF ToSet
  <2>6. Lists'
    BY <1>2, <2>2, <2>3, <2>5 DEF Lists
  <2>7. /\ peer'[c] = "open" /\ \A d \in Conn : d # c => peer'[d] = peer[d]
    <3>1. peer = [d \in Conn |-> peer[d]]
      BY DEF Typed
    <3> QED
      BY <2>1, <3>1, Exchanged, Zenon
  <2>8. Serving' = Serving \cup {c}
    BY <1>2, <2>3 DEF Serving
  <2>9. Quiet'
    BY <2>7, <2>8 DEF Quiet
  <2> QED
    BY <2>6, <2>9
<1>4. ASSUME backlog' = backlog, \A c \in Conn : peer'[c] = "idle" => peer[c] = "idle"
      PROVE  Lists' /\ Quiet'
  <2>1. Serving' = Serving
    BY <1>2, <1>4 DEF Serving
  <2> QED
    BY <1>2, <1>4, <2>1 DEF Lists, Quiet
<1>5. ASSUME NEW c \in Conn, Answer(c)
      PROVE  Lists' /\ Quiet'
  BY <1>4, <1>5 DEF Answer
<1>6. ASSUME NEW c \in Conn, Leave(c) \/ Die(c)
      PROVE  Lists' /\ Quiet'
  <2>1. peer'[c] \in {"closed", "reset"} /\ \A d \in Conn : d # c => peer'[d] = peer[d]
    BY <1>6, GoneDoes
  <2>2. backlog' = backlog
    BY <1>6 DEF Leave, Die
  <2> QED
    BY <1>4, <2>1, <2>2
<1>7. CASE Arrive
  BY <1>4, <1>7 DEF Arrive, Deliver
<1> QED
  BY <1>3, <1>5, <1>6, <1>7 DEF DeviceNext

LEMMA SoundStep == Sound /\ [Next]_vars => Sound'
<1> SUFFICES ASSUME Sound, [Next]_vars PROVE Sound'
  OBVIOUS
<1>1. Owing /\ Distinct /\ Lists /\ Quiet /\ status \in {"up", "crashed"}
  BY DEF Sound
<1>2. PICK P, D : Devices(P, D) /\ Typed(P) /\ RowsTyped(Ids(D)) /\ Identified(D)
  BY DEF Sound
<1>3. prof' = prof
  BY DEF Next, DeviceNext, Connect, Answer, Leave, Die, Arrive, vars
<1>4. Owing' /\ Distinct' /\ Devices(P, D)'
  <2>1. Owing'
    BY <1>1, SessionsStep
  <2> QED
    BY <1>1, <1>2, <1>3, <2>1 DEF Distinct, Devices
<1>5. CASE ServerNext
  <2>1. Shape
    BY <1>1 DEF Owing
  <2>2. Lists' /\ Serving' \subseteq Serving
    BY <1>1, <1>5, <2>1, ServerLists
  <2>3. \A c \in Conn : peer'[c] \in {"idle", "open"} => peer'[c] = peer[c]
    BY <1>2, <1>5, <2>1, ServerStream
  <2>4. Quiet'
    BY <1>1, <2>2, <2>3 DEF Quiet
  <2>5. Typed(P)'
    BY <1>2, <1>5, <2>1, ServerTyped
  <2>6. Admits(P, D)
    BY <1>1, <1>2, DevicesAdmit
  <2>7. RowsTyped(Ids(D))' /\ Identified(D)'
    BY <1>2, <1>5, <2>1, <2>6, ServerRows
  <2>8. status' \in {"up", "crashed"}
    BY <1>5, ServerStatus
  <2> QED
    BY <1>4, <2>2, <2>4, <2>5, <2>7, <2>8, Zenon DEF Sound
<1>6. CASE DeviceNext \/ Arrive
  <2>1. UNCHANGED serverVars /\ UNCHANGED dbVars
    BY <1>6 DEF DeviceNext, Connect, Answer, Leave, Die, Arrive
  <2>2. Lists' /\ Quiet'
    BY <1>1, <1>2, <1>6, EnvironmentLists
  <2>3. Typed(P)'
    <3>1. CASE Arrive
      <4>1. PICK c \in Conn : Deliver(c)
        BY <3>1 DEF Arrive
      <4> QED
        BY <1>2, <2>1, <4>1, DeliverDoes
    <3>2. CASE DeviceNext
      <4>1. PICK c \in Conn : Connect(c) \/ Answer(c) \/ Leave(c) \/ Die(c)
        BY <3>2 DEF DeviceNext
      <4>2. CASE Connect(c)
        BY <1>2, <4>2, ConnectDoes
      <4>3. CASE Answer(c)
        BY <1>1, <1>2, <4>3, AnswerDoes
      <4>4. CASE Leave(c) \/ Die(c)
        BY <1>2, <4>4, GoneDoes
      <4> QED
        BY <4>1, <4>2, <4>3, <4>4
    <3> QED
      BY <1>6, <3>1, <3>2
  <2>4. RowsTyped(Ids(D))' /\ Identified(D)'
    BY <1>2, <2>1 DEF dbVars, serverVars, RowsTyped, BaseTyped, Identified
  <2>5. status' \in {"up", "crashed"}
    BY <1>1, <2>1 DEF serverVars
  <2> QED
    BY <1>4, <2>2, <2>3, <2>4, <2>5, Zenon DEF Sound
<1>7. CASE UNCHANGED vars
  <2>1. UNCHANGED <<netVars, dbVars, serverVars>>
    BY <1>7 DEF vars
  <2>2. Typed(P)'
    BY <1>2, <2>1 DEF Typed, netVars, serverVars
  <2>3. RowsTyped(Ids(D))' /\ Identified(D)'
    BY <1>2, <2>1 DEF dbVars, serverVars, RowsTyped, BaseTyped, Identified
  <2>4. Lists' /\ Quiet' /\ status' \in {"up", "crashed"}
    BY <1>1, <2>1 DEF Lists, Quiet, Held, Serving, netVars, serverVars
  <2> QED
    BY <1>4, <2>2, <2>3, <2>4, Zenon DEF Sound
<1> QED
  BY <1>5, <1>6, <1>7 DEF Next

-----------------------------------------------------------------------------
(* What the invariant says of the properties of the runs.                  *)

LEMMA SoundAlways == Spec => []Sound
<1>1. Init => Sound
  BY SoundInit
<1>2. Sound /\ [Next]_vars => Sound'
  BY SoundStep
<1> QED  BY <1>1, <1>2, PTL DEF Spec

LEMMA KnownOnly ==
  ASSUME NEW P, NEW D, Devices(P, D), Distinct, NEW id \in Ids(D), NEW c \in Conn,
         id = prof[c].dev
  PROVE  Tail(prof[c].string) = Tail(c_auth)
<1>1. PICK d \in Conn : id \in D[d]
  BY DEF Ids
<1>2. id = prof[d].dev /\ Tail(prof[d].string) = Tail(c_auth)
  BY <1>1 DEF Devices, Known
<1>3. c = d
  BY <1>2 DEF Distinct
<1> QED
  BY <1>2, <1>3

(* Whatever random number it sends, a device that does not know the agreed *)
(* string but for its first character leaves no row in any table.          *)
THEOREM SessionsAuthenticated == Spec => []OnlyAuthenticated
<1>1. Sound => OnlyAuthenticated
  <2> SUFFICES ASSUME Sound, NEW c \in Conn, Tail(prof[c].string) # Tail(c_auth)
               PROVE  /\ \A r \in base : r.dev # prof[c].dev
                      /\ \A i \in DOMAIN ttyinfo : ttyinfo[i].dev # prof[c].dev
                      /\ \A i \in DOMAIN scrinfo : scrinfo[i].dev # prof[c].dev
    BY DEF OnlyAuthenticated
  <2>1. PICK P, D : Devices(P, D) /\ RowsTyped(Ids(D))
    BY DEF Sound
  <2>2. Distinct
    BY DEF Sound
  <2> DEFINE I == Ids(D)
  <2>3. \A id \in I : id # prof[c].dev
    BY <2>1, <2>2, KnownOnly
  <2> HIDE DEF I
  <2>4. BaseTyped(I) /\ ttyinfo \in Seq(TtyRows(I)) /\ scrinfo \in Seq(ScrRows(I))
    BY <2>1 DEF RowsTyped, I
  <2>5. ASSUME NEW r \in base PROVE r.dev # prof[c].dev
    <3>1. r.dev \in I
      BY <2>4, <2>5 DEF BaseTyped
    <3> QED
      BY <2>3, <3>1
  <2>6. ASSUME NEW i \in DOMAIN ttyinfo PROVE ttyinfo[i].dev # prof[c].dev
    <3>1. ttyinfo[i] \in TtyRows(I)
      BY <2>4, ElementOfSeq, LenProperties
    <3>2. ttyinfo[i].dev \in I
      BY <3>1 DEF TtyRows
    <3> QED
      BY <2>3, <3>2
  <2>7. ASSUME NEW i \in DOMAIN scrinfo PROVE scrinfo[i].dev # prof[c].dev
    <3>1. scrinfo[i] \in ScrRows(I)
      BY <2>4, ElementOfSeq, LenProperties
    <3>2. scrinfo[i].dev \in I
      BY <3>1 DEF ScrRows
    <3> QED
      BY <2>3, <3>2
  <2> QED
    BY <2>5, <2>6, <2>7
<1> QED  BY <1>1, SoundAlways, PTL

(* The lists of the server name only sessions it has, a connection that    *)
(* is not listed has no state left over from an earlier client, and no     *)
(* buffer is overrun, for any number of devices.                           *)
THEOREM SessionsTyped == Spec => []TypeOK
<1>1. Sound => TypeOK
  <2> SUFFICES ASSUME Sound PROVE TypeOK
    OBVIOUS
  <2>1. PICK P, D : Typed(P) /\ RowsTyped(Ids(D))
    BY DEF Sound
  <2>2. Lists /\ status \in {"up", "crashed"}
    BY DEF Sound
  <2>3. ASSUME NEW c \in Conn
        PROVE  /\ \A i \in 1..Len(sock[c]) : UnitOK(sock[c][i])
               /\ peer[c] \in PeerState
               /\ sess[c].state \in SessionState
               /\ sess[c].tty_cnt \in Nat
               /\ Len(sess[c].recv_buffer) <= Capacity
               /\ ~Live(c) => sess[c] = NewClient
    <3>1. sock[c] \in Seq(UnitsOf(P[c])) /\ peer[c] \in PeerState /\ SessionTyped(sess[c], P[c])
      BY <2>1 DEF Typed
    <3>2. ASSUME NEW i \in 1..Len(sock[c]) PROVE UnitOK(sock[c][i])
      <4>1. sock[c][i] \in UnitsOf(P[c])
        BY <3>1, ElementOfSeq
      <4> QED
        BY <4>1 DEF UnitsOf, UnitOK
    <3>3. ~Live(c) => sess[c] = NewClient
      BY <2>2 DEF Live, Lists, Held
    <3> QED
      BY <3>1, <3>2, <3>3 DEF SessionTyped
  <2>4. /\ IsInjective(session_set) /\ ToSet(session_set) \subseteq Conn
        /\ todo \cup ready \subseteq ToSet(session_set)
        /\ ToSet(backlog) \cap ToSet(session_set) = {}
        /\ phase \in {"visit", "tail"}
    <3>1. ToSet(session_set) \subseteq Conn
      BY <2>2, ListedIn DEF Lists, Listing
    <3> QED
      BY <2>2, <3>1 DEF Lists, Held, Listing
  <2>5. Cardinality(base) <= 1
    <3>1. base = {} \/ \E r : base = {r}
      BY <2>1 DEF RowsTyped, BaseTyped
    <3>2. CASE base = {}
      BY <3>2, FS_EmptySet
    <3>3. CASE \E r : base = {r}
      <4>1. PICK r : base = {r}
        BY <3>3
      <4>2. Cardinality({r}) = 1
        BY FS_Singleton
      <4> QED
        BY <4>1, <4>2
    <3> QED
      BY <3>1, <3>2, <3>3
  <2>6. global_number \in 0..(ScrMod - 1)
    BY <2>1 DEF RowsTyped
  <2> QED
    BY <2>2, <2>3, <2>4, <2>5, <2>6 DEF TypeOK
<1> QED  BY <1>1, SoundAlways, PTL

-----------------------------------------------------------------------------
(* The streams stay framed.                                                *)

LEMMA StreamsInit == Init => Streams
<1> SUFFICES ASSUME Init, NEW c \in Conn PROVE Framed(Stream(c)) /\ Complete(Stream(c))
  BY DEF Streams
<1>1. sess[c].recv_buffer = <<>> /\ sock[c] = <<>> /\ wire[c] = <<>>
  BY DEF Init, NetInit, ServerInit, NewClient
<1>2. <<>> \o (<<>> \o <<>>) = <<>>
  OBVIOUS
<1>3. Stream(c) = <<>>
  BY <1>1, <1>2 DEF Stream
<1>4. Len(<<>>) = 0
  OBVIOUS
<1> QED
  BY <1>3, <1>4 DEF Framed, Complete

LEMMA AnswerFramed ==
  ASSUME NEW P, NEW D, Devices(P, D), Distinct, Typed(P), NEW c \in Conn, Answer(c),
         Framed(Stream(c)), Complete(Stream(c))
  PROVE  /\ Framed(Stream(c))' /\ Complete(Stream(c))'
         /\ \A d \in Conn : d # c => UNCHANGED Stream(d)
<1>1. PICK x \in P[c] : wire'[c] = wire[c] \o Whole(x)
  BY AnswerDoes
<1>2. \A d \in Conn : d # c => wire'[d] = wire[d]
  BY AnswerDoes
<1>3. sock' = sock /\ sess' = sess
  BY DEF Answer, serverVars
<1> DEFINE U == UnitsOf(P[c])
           a == Stream(c)
           v == Whole(x)
<1>4. \A p \in P[c] : PacketOK(p)
  BY DEF Typed
<1>5. a \in Seq(U) /\ v \in Seq(U) /\ Framed(v) /\ Complete(v)
  BY <1>4, StreamTyped, WholeUnits, WholeFramed
<1>6. sess[c].recv_buffer \in Seq(U) /\ sock[c] \in Seq(U) /\ wire[c] \in Seq(U)
  BY DEF Typed, SessionTyped
<1>7. Stream(c)' = a \o v
  <2> DEFINE b == sess[c].recv_buffer
             s == sock[c]
             w == wire[c]
  <2>1. b \in Seq(U) /\ s \in Seq(U) /\ w \in Seq(U) /\ v \in Seq(U)
    BY <1>5, <1>6
  <2>2. Stream(c)' = b \o (s \o (w \o v)) /\ a = b \o (s \o w)
    BY <1>1, <1>3 DEF Stream
  <2> HIDE DEF a, v, b, s, w, U
  <2>3. Longer(b, s, w, v)
    BY <2>1, StreamEnd, Zenon
  <2> QED
    BY <2>2, <2>3, Zenon DEF Longer
<1>8. Framed(a) /\ Complete(a)
  OBVIOUS
<1> HIDE DEF a, v
<1>9. Framed(a \o v) /\ Complete(a \o v)
  BY <1>4, <1>5, <1>8, FramedAppend
<1>10. Framed(Stream(c))' /\ Complete(Stream(c))'
  BY <1>7, <1>9 DEF Framed, Complete
<1>11. \A d \in Conn : d # c => UNCHANGED Stream(d)
  BY <1>2, <1>3 DEF Stream
<1> QED
  BY <1>10, <1>11

LEMMA GoneFramed ==
  ASSUME NEW P, Typed(P), NEW c \in Conn, Leave(c) \/ Die(c), Framed(Stream(c))
  PROVE  /\ Framed(Stream(c))'
         /\ peer'[c] \notin {"idle", "open"}
         /\ \A d \in Conn : d # c => UNCHANGED <<Stream(d), peer[d]>>
<1>1. PICK lost \in Seq(UnitsOf(P[c])) : wire[c] = wire'[c] \o lost
  BY GoneDoes
<1>2. /\ Typed(P)' /\ peer'[c] \in {"closed", "reset"}
      /\ \A d \in Conn : d # c => wire'[d] = wire[d] /\ peer'[d] = peer[d]
  BY GoneDoes
<1>3. sock' = sock /\ sess' = sess
  BY DEF Leave, Die, serverVars
<1> DEFINE U == UnitsOf(P[c])
           a == Stream(c)'
<1>4. a \in Seq(U)
  BY <1>2, NextStreamTyped
<1>5. Stream(c) = a \o lost
  <2> DEFINE b == sess[c].recv_buffer
             s == sock[c]
             w == wire'[c]
  <2>1. b \in Seq(U) /\ s \in Seq(U) /\ w \in Seq(U) /\ lost \in Seq(U)
    BY <1>1, <1>2 DEF Typed, SessionTyped
  <2>2. a = b \o (s \o w) /\ Stream(c) = b \o (s \o (w \o lost))
    BY <1>1, <1>3 DEF Stream
  <2> HIDE DEF a, b, s, w, U
  <2>3. Longer(b, s, w, lost)
    BY <2>1, StreamEnd, Zenon
  <2> QED
    BY <2>2, <2>3, Zenon DEF Longer
<1>6. lost \in Seq(U)
  BY <1>1
<1>7. Framed(a \o lost)
  BY <1>5
<1> HIDE DEF a
<1>8. Framed(a)
  BY <1>4, <1>6, <1>7, FramedFront
<1>9. Framed(Stream(c))'
  BY <1>8 DEF a, Framed
<1>10. \A d \in Conn : d # c => UNCHANGED <<Stream(d), peer[d]>>
  BY <1>2, <1>3 DEF Stream
<1> QED
  BY <1>2, <1>9, <1>10

LEMMA StreamsStep == Sound /\ Streams /\ [Next]_vars => Streams'
<1> SUFFICES ASSUME Sound, Streams, [Next]_vars, status' = "up", NEW c \in Conn
             PROVE  /\ Framed(Stream(c))'
                    /\ peer'[c] \in {"idle", "open"} => Complete(Stream(c))'
  BY DEF Streams
<1>1. PICK P, D : Devices(P, D) /\ Typed(P)
  BY DEF Sound
<1>2. Distinct /\ Shape
  BY DEF Sound, Owing
<1>3. ASSUME UNCHANGED <<Stream(c), status>>, peer'[c] \in {"idle", "open"} => peer[c] \in {"idle", "open"}
      PROVE  /\ Framed(Stream(c))'
             /\ peer'[c] \in {"idle", "open"} => Complete(Stream(c))'
  BY <1>3 DEF Streams, Framed, Complete
<1>4. CASE ServerNext
  <2>1. status = "up"
    BY <1>4, ServerStatus
  <2>2. Framed(Stream(c)) /\ (peer[c] \in {"idle", "open"} => Complete(Stream(c)))
    BY <2>1 DEF Streams
  <2>3. Typed(P)'
    BY <1>1, <1>2, <1>4, ServerTyped
  <2>4. /\ RestOf(UnitsOf(P[c]), Stream(c), Stream(c)')
        /\ peer'[c] \in {"idle", "open"} => peer'[c] = peer[c]
    BY <1>1, <1>2, <1>4, ServerStream
  <2> DEFINE x == Stream(c)
             y == Stream(c)'
  <2>5. x \in Seq(UnitsOf(P[c])) /\ \A p \in P[c] : PacketOK(p)
    BY <1>1, StreamTyped DEF Typed
  <2>6. y \in Seq(UnitsOf(P[c]))
    BY <2>3, NextStreamTyped
  <2>7. RestOf(UnitsOf(P[c]), x, y)
    BY <2>4
  <2> HIDE DEF x, y
  <2>8. (Framed(x) => Framed(y)) /\ (Complete(x) => Complete(y))
    BY <2>5, <2>6, <2>7, FramedRest
  <2> QED
    BY <2>2, <2>4, <2>8 DEF x, y, Framed, Complete
<1>5. CASE DeviceNext
  <2>1. PICK d \in Conn : Connect(d) \/ Answer(d) \/ Leave(d) \/ Die(d)
    BY <1>5 DEF DeviceNext
  <2>2. status' = status
    BY <2>1 DEF Connect, Answer, Leave, Die, serverVars
  <2>3. Framed(Stream(d)) /\ (peer[d] \in {"idle", "open"} => Complete(Stream(d)))
    BY <2>2 DEF Streams
  <2>4. CASE Connect(d)
    <3>1. peer = [e \in Conn |-> peer[e]]
      BY <1>1 DEF Typed
    <3>2. peer[d] = "idle" /\ \A e \in Conn : e # d => peer'[e] = peer[e]
      BY <2>4, <3>1, Exchanged, Zenon DEF Connect
    <3>3. UNCHANGED Stream(c)
      BY <2>4 DEF Connect, serverVars, Stream
    <3> QED
      BY <1>3, <2>2, <3>2, <3>3
  <2>5. CASE Answer(d)
    <3>1. peer[d] = "open" /\ peer' = peer
      BY <2>5 DEF Answer
    <3>2. /\ Framed(Stream(d))' /\ Complete(Stream(d))'
          /\ \A e \in Conn : e # d => UNCHANGED Stream(e)
      BY <1>1, <1>2, <2>3, <2>5, <3>1, AnswerFramed
    <3>3. CASE c = d
      BY <3>2, <3>3
    <3>4. CASE c # d
      BY <1>3, <2>2, <3>1, <3>2, <3>4
    <3> QED
      BY <3>3, <3>4
  <2>6. CASE Leave(d) \/ Die(d)
    <3>1. /\ Framed(Stream(d))' /\ peer'[d] \notin {"idle", "open"}
          /\ \A e \in Conn : e # d => UNCHANGED <<Stream(e), peer[e]>>
      BY <1>1, <2>3, <2>6, GoneFramed
    <3>2. CASE c = d
      BY <3>1, <3>2
    <3>3. CASE c # d
      BY <1>3, <2>2, <3>1, <3>3
    <3> QED
      BY <3>2, <3>3
  <2> QED
    BY <2>1, <2>4, <2>5, <2>6
<1>6. CASE Arrive
  <2>1. PICK d \in Conn : Deliver(d) /\ UNCHANGED serverVars
    BY <1>6 DEF Arrive
  <2>2. UNCHANGED <<Stream(c), peer>>
    BY <1>1, <2>1, DeliverDoes
  <2> QED
    BY <1>3, <2>1, <2>2 DEF serverVars
<1>7. CASE UNCHANGED vars
  <2>1. UNCHANGED <<Stream(c), status, peer>>
    BY <1>7 DEF vars, netVars, serverVars, Stream
  <2> QED
    BY <1>3, <2>1
<1> QED
  BY <1>4, <1>5, <1>6, <1>7 DEF Next

(* Where no terminal is dumb: whatever the devices report and however they *)
(* die, when the second loop decodes the screens of a terminal they are    *)
(* all at the front of the buffer, although nothing looks.                 *)
THEOREM SessionsScreensWhole == ASSUME Dumb = {} PROVE Spec => []ScreensWhole
<1> DEFINE Inv == Sound /\ Streams /\ ScreensWhole
<1>1. Init => Inv
  <2>1. Init => ScreensWhole
    BY DEF Init, ServerInit, NewClient, ScreensWhole
  <2> QED
    BY <2>1, SoundInit, StreamsInit
<1>2. Inv /\ [Next]_vars => Inv'
  <2> SUFFICES ASSUME Sound, Streams, ScreensWhole, [Next]_vars PROVE ScreensWhole'
    BY SoundStep, StreamsStep
  <2>1. CASE ServerNext
    <3>1. PICK P, D : Devices(P, D) /\ Typed(P)
      BY DEF Sound
    <3>2. Shape
      BY DEF Sound, Owing
    <3>3. \A c \in Conn : Framed(Stream(c))
      BY <2>1, ServerStatus DEF Streams
    <3> QED
      BY <2>1, <3>1, <3>2, <3>3, ServerScreens
  <2>2. CASE UNCHANGED sess
    BY <2>2 DEF ScreensWhole
  <2>3. DeviceNext \/ Arrive \/ UNCHANGED vars => UNCHANGED sess
    BY DEF DeviceNext, Connect, Answer, Leave, Die, Arrive, vars, serverVars
  <2> QED
    BY <2>1, <2>2, <2>3 DEF Next
<1>3. Inv => ScreensWhole
  OBVIOUS
<1> HIDE DEF Inv
<1> QED
  BY <1>1, <1>2, <1>3, PTL DEF Spec

-----------------------------------------------------------------------------
(* The keys of the terminals stay in order.                                *)

(* Of the sessions the server has and of those that are still to come.     *)
Order == status = "up" =>
  \A c \in Conn : c \in Serving \/ peer[c] = "idle" => Ordered(c, prof[c].ttys)

(* What the head of a reply is about was asked about. *)
LEMMA ReplyKey ==
  ASSUME NEW p \in Profiles, NEW q \in Requests, NEW r \in RandomNums
  PROVE  /\ UnitKey(Unit("head", Reply(p, q, r))) \subseteq AskKey(q)
         /\ Describes(p.ttys, Reply(p, q, r))
         /\ Reply(p, q, r).type = "ipterm" =>
              Reply(p, q, r).tty = q.no /\ Reply(p, q, r).screen_num = ScreensOf(p, q.no)
         /\ Reply(p, q, r).type = "ter" =>
              Reply(p, q, r).term_num = p.term_num /\ Reply(p, q, r).ttys = p.ttys
         /\ Reply(p, q, r).type \in {q.type, "version"}
         /\ q.type # "auth" => Reply(p, q, r).type = q.type
<1> DEFINE x == Reply(p, q, r)
<1>1. x.type \in {q.type, "version"} /\ (q.type # "auth" => x.type = q.type)
  <2>1. x.type \in {q.type, "version"}
    BY ReplyOK
  <2>2. q.type # "version"
    BY DEF Requests, RequestTypes
  <2>3. ASSUME q.type # "auth" PROVE x.type = q.type
    BY <2>3 DEF Reply, EtherPacket, TerPacket, TtyPacket, PlainPacket
  <2> QED
    BY <2>1, <2>3
<1>2. Unit("head", x).part = "head" /\ Unit("head", x).pkt = x
  BY DEF Unit
<1>3. x.type = "ipterm" => x.tty = q.no /\ x.screen_num = ScreensOf(p, q.no)
  <2> SUFFICES ASSUME x.type = "ipterm" PROVE x.tty = q.no /\ x.screen_num = ScreensOf(p, q.no)
    OBVIOUS
  <2>1. q.type = "ipterm"
    BY <1>1
  <2>2. x = TtyPacket("ipterm", q.no, ScreensOf(p, q.no))
    BY <2>1 DEF Reply
  <2> QED
    BY <2>2 DEF TtyPacket
<1>4. x.type = "ter" => x.ttys = p.ttys /\ x.term_num = p.term_num
  <2> SUFFICES ASSUME x.type = "ter" PROVE x.ttys = p.ttys /\ x.term_num = p.term_num
    OBVIOUS
  <2>1. q.type = "ter"
    BY <1>1
  <2>2. x = TerPacket(p.ttys, p.term_num)
    BY <2>1 DEF Reply
  <2> QED
    BY <2>2 DEF TerPacket
<1>5. p.ttys \subseteq Nat \ {0}
  BY ProfilesAssumption
<1> HIDE DEF x
<1>6. UnitKey(Unit("head", x)) \subseteq AskKey(q)
  <2> DEFINE u == Unit("head", x)
  <2>1. u.part = "head" /\ u.pkt = x
    BY <1>2
  <2> HIDE DEF u
  <2>2. CASE x.type = "ipterm"
    <3>1. UnitKey(u) = {x.tty} /\ q.type = "ipterm"
      BY <1>1, <2>1, <2>2 DEF UnitKey
    <3>2. AskKey(q) = {q.no}
      BY <3>1 DEF AskKey
    <3> QED
      BY <1>3, <2>2, <3>1, <3>2 DEF u
  <2>3. CASE x.type \in {"auth", "version"}
    <3>1. q.type = "auth" \/ q.type = "version"
      BY <1>1, <2>3
    <3>2. q.type # "version"
      BY DEF Requests, RequestTypes
    <3>3. UnitKey(u) = {0} /\ AskKey(q) = {0}
      BY <2>1, <2>3, <3>1, <3>2 DEF UnitKey, AskKey
    <3> QED
      BY <3>3 DEF u
  <2>4. CASE x.type \notin {"ipterm", "auth", "version"}
    <3>1. UnitKey(u) = {}
      BY <2>1, <2>4 DEF UnitKey
    <3> QED
      BY <3>1 DEF u
  <2> QED
    BY <2>2, <2>3, <2>4
<1>7. Describes(p.ttys, x)
  BY <1>4, <1>5 DEF Describes
<1> QED
  BY <1>1, <1>3, <1>4, <1>6, <1>7 DEF x

LEMMA OrderInit == Init => Order
<1> SUFFICES ASSUME Init, NEW c \in Conn PROVE Ordered(c, prof[c].ttys)
  BY DEF Order
<1>1. /\ sess[c].recv_buffer = <<>> /\ sock[c] = <<>> /\ wire[c] = <<>> /\ s2c[c] = <<>>
      /\ sess[c].send_buffer = <<>> /\ sess[c].state = "Acceptance" /\ sess[c].current_tty = 0
  BY DEF Init, NetInit, ServerInit, NewClient
<1>2. <<>> \o (<<>> \o <<>>) = <<>> /\ Len(<<>>) = 0
  OBVIOUS
<1>3. Stream(c) = <<>>
  BY <1>1, <1>2 DEF Stream
<1>4. UnitKeys(<<>>) = <<>> /\ AskKeys(<<>>) = <<>>
  BY <1>2 DEF UnitKeys, AskKeys
<1>5. All(<<>>) = {} /\ Rising(<<>>)
  BY <1>2 DEF All, Rising
<1>6. Ascend(<<>>, <<>>, <<>>) /\ Reach(<<>>, <<>>, <<>>) = {}
  BY <1>5 DEF Ascend, Reach, Before
<1>7. Fits(sess[c], {}, prof[c].ttys)
  BY <1>1 DEF Fits, Late, EarlyStates
<1> QED
  BY <1>1, <1>3, <1>4, <1>6, <1>7 DEF Ordered, Keyed

LEMMA NowOrdered ==
  ASSUME NEW c, Keyed(sess'[c], Stream(c)', s2c'[c], prof'[c].ttys)
  PROVE  Ordered(c, prof[c].ttys)'
BY DEF Ordered

LEMMA OrderedKept ==
  ASSUME NEW c, Ordered(c, prof[c].ttys), UNCHANGED <<Stream(c), s2c[c], sess[c], prof[c]>>
  PROVE  Ordered(c, prof[c].ttys)'
<1>1. Keyed(sess'[c], Stream(c)', s2c'[c], prof'[c].ttys)
  BY DEF Ordered
<1> QED
  BY <1>1, NowOrdered

LEMMA OrderedLess ==
  ASSUME NEW c, UNCHANGED <<sess[c], prof[c]>>, NEW x, NEW b, Stream(c)' = x, s2c'[c] = b,
         Ascend(UnitKeys(x), AskKeys(b), AskKeys(sess[c].send_buffer)),
         NEW K, Fits(sess[c], K, prof[c].ttys),
         Reach(UnitKeys(x), AskKeys(b), AskKeys(sess[c].send_buffer)) \subseteq K
  PROVE  Ordered(c, prof[c].ttys)'
<1> DEFINE s == sess[c]
           L == Reach(UnitKeys(x), AskKeys(b), AskKeys(s.send_buffer))
<1>1. Fits(s, L, prof[c].ttys)
  BY FitsLess
<1>2. Keyed(s, x, b, prof[c].ttys)
  BY <1>1 DEF Keyed
<1> HIDE DEF s
<1>3. Keyed(sess'[c], Stream(c)', s2c'[c], prof'[c].ttys)
  BY <1>2 DEF s
<1> QED
  BY <1>3, NowOrdered

LEMMA AnswerOrder ==
  ASSUME NEW P, NEW D, Devices(P, D), Distinct, Typed(P), NEW c \in Conn, Answer(c),
         Ordered(c, prof[c].ttys)
  PROVE  Ordered(c, prof[c].ttys)'
<1>1. PICK r \in RandomNums :
        wire' = [wire EXCEPT ![c] = wire[c] \o Blocks(Reply(prof[c], Head(s2c[c]), r))]
  BY DEF Answer
<1> DEFINE b == s2c[c]
           x == Reply(prof[c], Head(b), r)
           a == Stream(c)
           d == AskKeys(sess[c].send_buffer)
           U == UnitsOf(P[c])
<1>2. /\ b \in Seq(Requests) /\ b # <<>> /\ Head(b) \in Requests
      /\ s2c' = [s2c EXCEPT ![c] = Tail(b)] /\ s2c = [e \in Conn |-> s2c[e]]
      /\ wire = [e \in Conn |-> wire[e]] /\ UNCHANGED <<sock, serverVars, prof>>
  BY DEF Answer, Typed
<1>3. x \in P[c] /\ (\A p \in P[c] : PacketOK(p)) /\ a \in Seq(U)
  <2>1. x \in P[c]
    BY <1>2 DEF Devices, PacketsOf
  <2>2. a \in Seq(U)
    BY StreamTyped
  <2> QED
    BY <2>1, <2>2 DEF Typed
<1>4. UnitKey(Unit("head", x)) \subseteq AskKey(Head(b))
  BY <1>2, ReplyKey DEF Distinct
<1>5. Ascend(UnitKeys(a), AskKeys(b), d) /\ Fits(sess[c], Reach(UnitKeys(a), AskKeys(b), d), prof[c].ttys)
  BY DEF Ordered, Keyed
<1>6. wire'[c] = wire[c] \o Whole(x)
  <2>1. Blocks(x) = Whole(x)
    BY DEF Blocks, Whole
  <2>2. wire' = [wire EXCEPT ![c] = wire[c] \o Whole(x)]
    BY <1>1, <2>1
  <2> QED
    BY <1>2, <2>2, Exchanged, Zenon
<1>7. s2c'[c] = Tail(b)
  BY <1>2, Exchanged, Zenon
<1>8. Stream(c)' = a \o Whole(x)
  <2> DEFINE v == Whole(x)
             s == sess[c].recv_buffer
             k == sock[c]
             w == wire[c]
  <2>1. v \in Seq(U)
    BY <1>3, WholeUnits
  <2>2. s \in Seq(U) /\ k \in Seq(U) /\ w \in Seq(U)
    BY DEF Typed, SessionTyped
  <2>3. Stream(c)' = s \o (k \o (w \o v)) /\ a = s \o (k \o w)
    BY <1>2, <1>6 DEF Stream, serverVars
  <2> HIDE DEF a, v, s, k, w, U
  <2>4. Longer(s, k, w, v)
    BY <2>1, <2>2, StreamEnd, Zenon
  <2> QED
    BY <2>3, <2>4, Zenon DEF Longer, v
<1> HIDE DEF x, a, d, b
<1>9. /\ Ascend(UnitKeys(a \o Whole(x)), AskKeys(Tail(b)), d)
      /\ Reach(UnitKeys(a \o Whole(x)), AskKeys(Tail(b)), d) \subseteq Reach(UnitKeys(a), AskKeys(b), d)
  BY <1>2, <1>3, <1>4, <1>5, AnsweredOrder
<1>10. UNCHANGED <<sess[c], prof[c]>>
  BY <1>2 DEF serverVars
<1> QED
  BY <1>5, <1>7, <1>8, <1>9, <1>10, OrderedLess DEF d

LEMMA GoneOrder ==
  ASSUME NEW P, Typed(P), NEW c \in Conn, Leave(c) \/ Die(c), Ordered(c, prof[c].ttys)
  PROVE  Ordered(c, prof[c].ttys)'
<1>1. PICK lost \in Seq(UnitsOf(P[c])) : wire[c] = wire'[c] \o lost
  BY GoneDoes
<1>2. Typed(P)'
  BY GoneDoes
<1>3. sock' = sock /\ sess' = sess /\ s2c' = s2c /\ prof' = prof
  BY DEF Leave, Die, serverVars
<1> DEFINE U == UnitsOf(P[c])
           a == Stream(c)'
           b == AskKeys(s2c[c])
           d == AskKeys(sess[c].send_buffer)
<1>4. a \in Seq(U) /\ lost \in Seq(U) /\ \A p \in P[c] : PacketOK(p)
  BY <1>2, NextStreamTyped DEF Typed
<1>5. Stream(c) = a \o lost
  <2> DEFINE r == sess[c].recv_buffer
             s == sock[c]
             w == wire'[c]
  <2>1. r \in Seq(U) /\ s \in Seq(U) /\ w \in Seq(U) /\ lost \in Seq(U)
    BY <1>1, <1>2 DEF Typed, SessionTyped
  <2>2. a = r \o (s \o w) /\ Stream(c) = r \o (s \o (w \o lost))
    BY <1>1, <1>3 DEF Stream
  <2> HIDE DEF a, r, s, w, U
  <2>3. Longer(r, s, w, lost)
    BY <2>1, StreamEnd, Zenon
  <2> QED
    BY <2>2, <2>3, Zenon DEF Longer
<1>6. Ascend(UnitKeys(a \o lost), b, d) /\ Fits(sess[c], Reach(UnitKeys(a \o lost), b, d), prof[c].ttys)
  BY <1>5 DEF Ordered, Keyed
<1> HIDE DEF a, b, d
<1>7. Ascend(UnitKeys(a), b, d) /\ Reach(UnitKeys(a), b, d) \subseteq Reach(UnitKeys(a \o lost), b, d)
  BY <1>4, <1>6, LostOrder
<1>8. Stream(c)' = a
  BY DEF a
<1> QED
  BY <1>3, <1>6, <1>7, <1>8, OrderedLess DEF b, d

LEMMA ConnectListed ==
  ASSUME Lists, Quiet, NEW c \in Conn, Connect(c)
  PROVE  ToSet(backlog') = ToSet(backlog) \cup {c}
<1>1. peer[c] = "idle" /\ peer' = [peer EXCEPT ![c] = "open"] /\ backlog' = Append(backlog, c)
  BY DEF Connect
<1>2. c \notin Held /\ c \notin ToSet(backlog)
  BY <1>1 DEF Quiet, Serving
<1>3. Listing(backlog', Conn) /\ ToSet(backlog') = ToSet(backlog) \cup {c}
  BY <1>1, <1>2, BacklogGrows
<1> QED
  BY <1>3

LEMMA OrderStep == ASSUME Dumb = {} PROVE Sound /\ Order /\ [Next]_vars => Order'
<1> SUFFICES ASSUME Sound, Order, [Next]_vars, status' = "up", NEW c \in Conn,
                    c \in Serving' \/ peer'[c] = "idle"
             PROVE  Ordered(c, prof[c].ttys)'
  BY DEF Order
<1>1. PICK P, D : Devices(P, D) /\ Typed(P)
  BY DEF Sound
<1>2. Distinct /\ Shape /\ Lists /\ Quiet
  BY DEF Sound, Owing
<1>3. prof' = prof
  BY DEF Next, DeviceNext, Connect, Answer, Leave, Die, Arrive, vars
<1>4. CASE ServerNext
  <2>1. status = "up"
    BY <1>4, ServerStatus
  <2>2. c \in Serving \/ peer[c] = "idle" => Ordered(c, prof[c].ttys)
    BY <2>1 DEF Order
  <2>3. peer[c] = "idle" => c \notin Serving
    BY <1>2 DEF Quiet
  <2>7. PICK T : T = [e \in Conn |-> prof[e].ttys]
    OBVIOUS
  <2>4. \A e \in Conn : \A p \in P[e] : Describes(T[e], p)
    <3> SUFFICES ASSUME NEW e \in Conn, NEW p \in P[e] PROVE Describes(prof[e].ttys, p)
      BY <2>7
    <3>1. PICK q \in Requests, r \in RandomNums : p = Reply(prof[e], q, r)
      BY <1>1 DEF Devices, PacketsOf
    <3> QED
      BY <1>2, <2>7, <3>1, ReplyKey DEF Distinct
  <2>5. T[c] = prof[c].ttys
    BY <2>7
  <2>8. c \in Serving \/ peer[c] = "idle" => Ordered(c, T[c])
    BY <2>2, <2>5
  <2>6. Keyed(sess'[c], Stream(c)', s2c'[c], T[c])
    BY <1>1, <1>2, <1>4, <2>3, <2>4, <2>8, ServerOrder
  <2> QED
    BY <1>3, <2>5, <2>6, NowOrdered
<1>5. CASE DeviceNext
  <2>1. PICK d \in Conn : Connect(d) \/ Answer(d) \/ Leave(d) \/ Die(d)
    BY <1>5 DEF DeviceNext
  <2>2. status' = status /\ Held' = Held
    BY <2>1 DEF Connect, Answer, Leave, Die, serverVars, Held
  <2>3. peer = [e \in Conn |-> peer[e]]
    BY <1>1 DEF Typed
  <2>4. CASE Connect(d)
    <3>1. peer[d] = "idle" /\ \A e \in Conn : e # d => peer'[e] = peer[e]
      BY <2>3, <2>4, Exchanged, Zenon DEF Connect
    <3>2. UNCHANGED <<Stream(c), s2c[c], sess[c]>>
      BY <2>4 DEF Connect, serverVars, Stream
    <3>3. ToSet(backlog') = ToSet(backlog) \cup {d}
      BY <1>2, <2>4, ConnectListed
    <3>4. c \in Serving \/ peer[c] = "idle"
      BY <2>2, <3>1, <3>3 DEF Serving
    <3> QED
      BY <1>3, <2>2, <3>2, <3>4, OrderedKept DEF Order
  <2>5. CASE ~Connect(d)
    <3>1. backlog' = backlog /\ peer[d] = "open" /\ (peer' = peer \/ peer' = [peer EXCEPT ![d] = AfterClose(d)])
      BY <2>1, <2>5 DEF Answer, Leave, Die
    <3>2. AfterClose(d) # "idle"
      BY DEF AfterClose
    <3>3. peer'[c] = "idle" => peer[c] = "idle"
      <4>1. CASE peer' = peer
        BY <4>1
      <4>2. CASE peer' = [peer EXCEPT ![d] = AfterClose(d)]
        <5>1. peer'[d] = AfterClose(d) /\ \A e \in Conn : e # d => peer'[e] = peer[e]
          BY <2>3, <4>2, Exchanged, Zenon
        <5> QED
          BY <3>2, <5>1
      <4> QED
        BY <3>1, <4>1, <4>2
    <3>4. Ordered(c, prof[c].ttys)
      BY <2>2, <3>1, <3>3 DEF Order, Serving
    <3>5. CASE c = d
      BY <1>1, <1>2, <2>1, <2>5, <3>4, <3>5, AnswerOrder, GoneOrder
    <3>6. CASE c # d
      <4>1. wire'[c] = wire[c]
        BY <1>1, <1>2, <2>1, <2>5, <3>6, AnswerDoes, GoneDoes
      <4>2. s2c'[c] = s2c[c]
        <5>1. s2c' = s2c \/ s2c' = [s2c EXCEPT ![d] = Tail(s2c[d])]
          BY <2>1, <2>5 DEF Answer, Leave, Die
        <5>2. s2c = [e \in Conn |-> s2c[e]]
          BY <1>1 DEF Typed
        <5> QED
          BY <3>6, <5>1, <5>2, Exchanged, Zenon
      <4>3. sock' = sock /\ sess' = sess
        BY <2>1, <2>5 DEF Answer, Leave, Die, serverVars
      <4>4. UNCHANGED <<Stream(c), s2c[c], sess[c], prof[c]>>
        BY <1>3, <4>1, <4>2, <4>3 DEF Stream
      <4> QED
        BY <3>4, <4>4, OrderedKept
    <3> QED
      BY <3>5, <3>6
  <2> QED
    BY <2>4, <2>5
<1>6. CASE Arrive
  <2>1. PICK d \in Conn : Deliver(d) /\ UNCHANGED serverVars
    BY <1>6 DEF Arrive
  <2>2. UNCHANGED <<Stream(c), peer>>
    BY <1>1, <2>1, DeliverDoes
  <2>3. UNCHANGED <<s2c, sess, backlog, session_set, status>>
    BY <2>1 DEF Deliver, serverVars
  <2>4. Ordered(c, prof[c].ttys)
    BY <2>2, <2>3 DEF Order, Serving, Held
  <2> QED
    BY <1>3, <2>2, <2>3, <2>4, OrderedKept
<1>7. CASE UNCHANGED vars
  <2>1. UNCHANGED <<Stream(c), status, peer, s2c, sess, backlog, session_set, prof>>
    BY <1>7 DEF vars, netVars, serverVars, Stream
  <2>2. Ordered(c, prof[c].ttys)
    BY <2>1 DEF Order, Serving, Held
  <2> QED
    BY <2>1, <2>2, OrderedKept
<1> QED
  BY <1>4, <1>5, <1>6, <1>7 DEF Next

-----------------------------------------------------------------------------
(* Where no terminal is dumb, and none has more screens than there are     *)
(* numbers: the screens of a terminal have different numbers in the table, *)
(* although all devices draw on one counter and it starts again at 0.      *)
THEOREM SessionsScreensDistinct ==
  ASSUME Dumb = {}, \A p \in Profiles : \A t \in p.ttys : p.scr[t] <= ScrMod
  PROVE  Spec => []ScreensDistinct
<1> DEFINE Inv == Sound /\ Order /\ Numbering
<1>1. Init => Inv
  <2> SUFFICES ASSUME Init PROVE Numbering
    BY SoundInit, OrderInit
  <2>1. scrinfo = <<>> /\ Len(<<>>) = 0 /\ \A c \in Conn : sess[c].state = "Acceptance"
    BY DEF Init, DbInit, ServerInit, NewClient
  <2> QED
    BY <2>1 DEF Numbering, ToldApart, Below, Past, Scarce
<1>2. Inv /\ [Next]_vars => Inv'
  <2> SUFFICES ASSUME Sound, Order, Numbering, [Next]_vars PROVE Numbering'
    BY SoundStep, OrderStep
  <2>1. CASE ServerNext
    <3>1. PICK P, D : Devices(P, D) /\ Typed(P) /\ RowsTyped(Ids(D)) /\ Identified(D)
      BY DEF Sound
    <3>2. Shape /\ Lists /\ Distinct
      BY DEF Sound, Owing
    <3>3. PICK T : T = [e \in Conn |-> prof[e].ttys]
      OBVIOUS
    <3>4. ASSUME NEW c \in Conn, NEW p \in P[c]
          PROVE  Describes(T[c], p) /\ (p.type = "ipterm" => p.screen_num <= ScrMod)
      <4>1. PICK q \in Requests, r \in RandomNums : p = Reply(prof[c], q, r)
        BY <3>1 DEF Devices, PacketsOf
      <4>2. prof[c] \in Profiles /\ T[c] = prof[c].ttys
        BY <3>2, <3>3 DEF Distinct
      <4>3. ScreensOf(prof[c], q.no) <= ScrMod
        BY <4>2, ScrModAssumption DEF ScreensOf
      <4>4. /\ Describes(prof[c].ttys, Reply(prof[c], q, r))
            /\ Reply(prof[c], q, r).type = "ipterm" =>
                 Reply(prof[c], q, r).screen_num = ScreensOf(prof[c], q.no)
        BY <4>2, ReplyKey
      <4> QED
        BY <4>1, <4>2, <4>3, <4>4
    <3>5. \A c, d \in Conn : c # d => D[c] \cap D[d] = {}
      BY <3>1, <3>2 DEF Devices, Distinct, Known
    <3>6. \A c \in Serving : Ordered(c, T[c])
      <4> SUFFICES ASSUME NEW c \in Serving PROVE Ordered(c, T[c])
        OBVIOUS
      <4>1. c \in Conn
        BY <3>2, ListedIn DEF Lists, Serving, Held, Listing
      <4>2. Ordered(c, prof[c].ttys)
        BY <2>1, <4>1, ServerStatus DEF Order
      <4> QED
        BY <3>3, <4>1, <4>2
    <3> QED
      BY <2>1, <3>1, <3>2, <3>4, <3>5, <3>6, ServerNumbers
  <2>2. CASE UNCHANGED <<sess, scrinfo>>
    BY <2>2 DEF Numbering, ToldApart, Below, Past, Scarce
  <2>3. DeviceNext \/ Arrive \/ UNCHANGED vars => UNCHANGED <<sess, scrinfo>>
    BY DEF DeviceNext, Connect, Answer, Leave, Die, Arrive, vars, serverVars, dbVars
  <2> QED
    BY <2>1, <2>2, <2>3 DEF Next
<1>3. Inv => ScreensDistinct
  <2> SUFFICES ASSUME Sound, Numbering PROVE ScreensDistinct
    OBVIOUS
  <2>1. PICK D : RowsTyped(Ids(D))
    BY DEF Sound
  <2>2. DOMAIN scrinfo = 1..Len(scrinfo)
    BY <2>1 DEF RowsTyped
  <2> QED
    BY <2>2 DEF ScreensDistinct, Numbering, ToldApart
<1> HIDE DEF Inv
<1> QED
  BY <1>1, <1>2, <1>3, PTL DEF Spec

-----------------------------------------------------------------------------
(* The rows of a device in a table: those of one terminal are the screens  *)
(* that were decoded from its bytes.                                       *)
Mine(q, d) == {i \in 1..Len(q) : q[i].dev = d}

MineOf(q, d, t) == {i \in 1..Len(q) : q[i].dev = d /\ q[i].tty = t /\ q[i].of = t}

(* Rows of the device d are added. *)
Grown(q, r, d) == /\ Len(q) \in Nat /\ Len(r) \in Nat /\ Len(q) <= Len(r)
                  /\ \A i \in 1..Len(q) : r[i] = q[i]
                  /\ \A i \in 1..Len(r) : i \notin 1..Len(q) => r[i].dev = d

LEMMA GrownOthers ==
  ASSUME NEW q, NEW r, NEW d, Grown(q, r, d), NEW e, e # d
  PROVE  /\ Mine(r, e) = Mine(q, e) /\ \A i \in Mine(q, e) : r[i] = q[i]
         /\ \A t : MineOf(r, e, t) = MineOf(q, e, t)
<1>1. \A i \in 1..Len(q) : i \in 1..Len(r) /\ r[i] = q[i]
  BY DEF Grown
<1>2. \A i \in 1..Len(r) : i \in 1..Len(q) \/ r[i].dev # e
  BY DEF Grown
<1> QED
  BY <1>1, <1>2 DEF Mine, MineOf

(* Of m rows those in A were counted; with n more rows, those in B are. *)
AllMore(m, n, A, B) == /\ A \subseteq 1..m /\ B \subseteq 1..(m + n)
                       /\ \A i \in 1..m : i \in B <=> i \in A
                       /\ \A i \in 1..(m + n) : i \notin 1..m => i \in B

LEMMA CountMore ==
  ASSUME NEW m \in Nat, NEW n \in Nat, NEW A, NEW B, AllMore(m, n, A, B)
  PROVE  Cardinality(B) = Cardinality(A) + n
<1> DEFINE N == (m + 1)..(m + n)
<1>1. B = A \cup N /\ A \cap N = {}
  <2>1. \A i : i \in N <=> i \in 1..(m + n) /\ i \notin 1..m
    OBVIOUS
  <2>2. \A i \in 1..m : i \in 1..(m + n)
    OBVIOUS
  <2> HIDE DEF N
  <2> QED
    BY <2>1, <2>2 DEF AllMore
<1>2. IsFiniteSet(N) /\ Cardinality(N) = n
  <2>1. m + 1 \in Int /\ m + n \in Int
    OBVIOUS
  <2>2. /\ IsFiniteSet((m + 1)..(m + n))
        /\ Cardinality((m + 1)..(m + n)) = IF m + 1 > m + n THEN 0 ELSE (m + n) - (m + 1) + 1
    BY <2>1, FS_Interval, Zenon
  <2> QED
    BY <2>2
<1>3. IsFiniteSet(A)
  <2>1. IsFiniteSet(1..m)
    BY FS_Interval
  <2> QED
    BY <2>1, FS_Subset DEF AllMore
<1> HIDE DEF N
<1>4. Cardinality(A \cup N) = Cardinality(A) + Cardinality(N) - Cardinality(A \cap N)
  BY <1>2, <1>3, FS_Union
<1>5. Cardinality(A \cap N) = 0 /\ Cardinality(A) \in Nat
  BY <1>1, <1>3, FS_EmptySet, FS_CardinalityType
<1>6. Cardinality(B) = Cardinality(A \cup N)
  BY <1>1
<1> QED
  BY <1>2, <1>4, <1>5, <1>6

(* How far the counters of a session have come.  A terminal is counted     *)
(* when its packet is taken, before its screens.                           *)
Counting(s, p) ==
  /\ s.state \notin Late => s.tty_cnt = 0 /\ s.current_tty = 0
  /\ s.state \in Late => s.tty_connected = p.term_num
  /\ s.state = "End" => AllCounted(s)
  /\ s.state = "WaitScrInfo" => s.current_tty \in p.ttys /\ s.scr_num = p.scr[s.current_tty]

(* The terminals in the table Q are the ones counted, in order. *)
Counts(s, p, Q) ==
  /\ \A i \in Mine(Q, p.dev) : /\ Q[i].tty \in p.ttys /\ Q[i].tty <= s.current_tty
                               /\ Q[i].scrnum = p.scr[Q[i].tty]
  /\ \A i, j \in Mine(Q, p.dev) : i # j => Q[i].tty # Q[j].tty
  /\ Cardinality(Mine(Q, p.dev)) = s.tty_cnt

(* The screens of the terminal t are in the table: the second loop has     *)
(* been there since its packet was taken.                                  *)
Decodes(s, p, Q, t) == /\ \E i \in Mine(Q, p.dev) : Q[i].tty = t
                       /\ ~(s.state = "WaitScrInfo" /\ t = s.current_tty)

Shows(s, p, Q, R) ==
  \A t \in p.ttys :
    Cardinality(MineOf(R, p.dev, t)) = IF Decodes(s, p, Q, t) THEN p.scr[t] ELSE 0

Kept(s, p, B) == \A r \in B : r.dev = p.dev => PartsBy(s.state) \subseteq r.parts

Current(s, p, Q) == s.state = "WaitScrInfo" => \E i \in Mine(Q, p.dev) : Q[i].tty = s.current_tty

(* The tables hold what the session s of the device p has taken so far,    *)
(* unless another device has emptied them.                                 *)
Record(s, p, B, Q, R) ==
  Past(s) /\ (\E r \in B : r.dev = p.dev) =>
    Kept(s, p, B) /\ Counts(s, p, Q) /\ Shows(s, p, Q, R) /\ Current(s, p, Q)

Recording == \A c \in Conn : /\ Counting(sess[c], prof[c])
                             /\ Record(sess[c], prof[c], base, ttyinfo, scrinfo)

(* Another device's step leaves the rows. *)
LEMMA OthersRecord ==
  ASSUME NEW s, NEW p, NEW B, NEW Q, NEW R, Record(s, p, B, Q, R),
         NEW d, d # p.dev, NEW C, \A r \in C : r.dev # d => r \in B,
         NEW Q2, NEW R2, Grown(Q, Q2, d), Grown(R, R2, d)
  PROVE  Record(s, p, C, Q2, R2)
<1>1. /\ Mine(Q2, p.dev) = Mine(Q, p.dev) /\ \A i \in Mine(Q, p.dev) : Q2[i] = Q[i]
      /\ \A t : MineOf(R2, p.dev, t) = MineOf(R, p.dev, t)
  BY GrownOthers
<1> SUFFICES ASSUME Past(s), \E r \in C : r.dev = p.dev
             PROVE  Kept(s, p, C) /\ Counts(s, p, Q2) /\ Shows(s, p, Q2, R2) /\ Current(s, p, Q2)
  BY DEF Record
<1>2. Kept(s, p, B) /\ Counts(s, p, Q) /\ Shows(s, p, Q, R) /\ Current(s, p, Q)
  BY DEF Record
<1>3. Kept(s, p, C)
  BY <1>2 DEF Kept
<1>4. Counts(s, p, Q2)
  BY <1>1, <1>2 DEF Counts
<1>5. \A t : Decodes(s, p, Q2, t) <=> Decodes(s, p, Q, t)
  BY <1>1 DEF Decodes
<1>6. Shows(s, p, Q2, R2)
  BY <1>1, <1>2, <1>5 DEF Shows
<1>7. Current(s, p, Q2)
  BY <1>1, <1>2 DEF Current
<1> QED
  BY <1>3, <1>4, <1>6, <1>7

(* A step that takes no terminal and no screens. *)
LEMMA RecordKept ==
  ASSUME NEW s, NEW p, NEW B, NEW Q, NEW R, Record(s, p, B, Q, R),
         NEW r, r.tty_cnt = s.tty_cnt, r.current_tty = s.current_tty, Past(r) => Past(s),
         r.state = "WaitScrInfo" <=> s.state = "WaitScrInfo",
         NEW C, \A x \in C : x.dev = p.dev => \E y \in B : y.dev = p.dev /\ y.parts \subseteq x.parts
                               /\ PartsBy(r.state) \subseteq PartsBy(s.state) \cup x.parts
  PROVE  Record(r, p, C, Q, R)
<1> SUFFICES ASSUME Past(r), \E x \in C : x.dev = p.dev
             PROVE  Kept(r, p, C) /\ Counts(r, p, Q) /\ Shows(r, p, Q, R) /\ Current(r, p, Q)
  BY DEF Record
<1>1. Kept(s, p, B) /\ Counts(s, p, Q) /\ Shows(s, p, Q, R) /\ Current(s, p, Q)
  BY DEF Record
<1>2. Kept(r, p, C)
  <2> SUFFICES ASSUME NEW x \in C, x.dev = p.dev PROVE PartsBy(r.state) \subseteq x.parts
    BY DEF Kept
  <2>1. PICK y \in B : y.dev = p.dev /\ y.parts \subseteq x.parts
                               /\ PartsBy(r.state) \subseteq PartsBy(s.state) \cup x.parts
    OBVIOUS
  <2>2. PartsBy(s.state) \subseteq y.parts
    BY <1>1, <2>1 DEF Kept
  <2> QED
    BY <2>1, <2>2
<1>3. Counts(r, p, Q)
  BY <1>1 DEF Counts
<1>4. \A t : Decodes(r, p, Q, t) <=> Decodes(s, p, Q, t)
  BY DEF Decodes
<1>5. Shows(r, p, Q, R)
  BY <1>1, <1>4 DEF Shows
<1>6. Current(r, p, Q)
  BY <1>1 DEF Current
<1> QED
  BY <1>2, <1>3, <1>5, <1>6

(* The packet of a terminal is taken: its row is there, its screens are    *)
(* not, unless it has none.                                                *)
LEMMA TerminalRecord ==
  ASSUME NEW s, NEW p, NEW B, NEW Q, NEW R, Record(s, p, B, Q, R),
         s.state = "WaitIPTermInfo", s.tty_cnt \in Nat, s.current_tty \in Nat,
         p.ttys \subseteq Nat, p.scr \in [p.ttys -> Nat],
         NEW t \in p.ttys, s.current_tty < t,
         NEW r, r.tty_cnt = s.tty_cnt + 1, r.current_tty = t, r.state \in Late,
         r.state = "WaitScrInfo" <=> p.scr[t] # 0,
         NEW V, Q \in Seq(V), NEW row, row.dev = p.dev, row.tty = t, row.scrnum = p.scr[t]
  PROVE  Record(r, p, B, Append(Q, row), R)
<1> DEFINE A == Mine(Q, p.dev)
           m == Len(Q)
           Q2 == Append(Q, row)
           A2 == Mine(Q2, p.dev)
<1>1. PartsBy(r.state) = PartsBy(s.state)
  BY DEF PartsBy, Late
<1>2. /\ m \in Nat /\ Len(Q2) = m + 1 /\ Q2[m + 1] = row
      /\ \A i \in 1..m : Q2[i] = Q[i]
  BY AppendProperties, LenProperties
<1> SUFFICES ASSUME \E x \in B : x.dev = p.dev
             PROVE  Kept(r, p, B) /\ Counts(r, p, Q2) /\ Shows(r, p, Q2, R) /\ Current(r, p, Q2)
  BY DEF Record
<1>3. Kept(s, p, B) /\ Counts(s, p, Q) /\ Shows(s, p, Q, R)
  BY DEF Record, Past
<1> HIDE DEF m, Q2
<1>4. /\ A \subseteq 1..m /\ A2 \subseteq 1..(m + 1) /\ m + 1 \in A2 /\ m + 1 \notin 1..m
      /\ \A i \in 1..m : i \in A2 <=> i \in A
      /\ \A i \in 1..(m + 1) : i \in 1..m \/ i = m + 1
  <2>1. m + 1 \in 1..(m + 1) /\ m + 1 \notin 1..m
    BY <1>2
  <2>2. \A i \in 1..(m + 1) : i \in 1..m \/ i = m + 1
    BY <1>2
  <2>3. \A i \in 1..m : i \in 1..(m + 1)
    BY <1>2
  <2> QED
    BY <1>2, <2>1, <2>2, <2>3 DEF Mine, m
<1>5. \A i \in A : Q[i].tty \in p.ttys /\ Q[i].tty < t /\ Q[i].tty <= t
                   /\ Q[i].scrnum = p.scr[Q[i].tty]
  <2> SUFFICES ASSUME NEW i \in A PROVE Q[i].tty \in p.ttys /\ Q[i].tty < t /\ Q[i].tty <= t
                   /\ Q[i].scrnum = p.scr[Q[i].tty]
    OBVIOUS
  <2>1. Q[i].tty \in p.ttys /\ Q[i].tty <= s.current_tty /\ Q[i].scrnum = p.scr[Q[i].tty]
    BY <1>3 DEF Counts
  <2>2. Q[i].tty \in Nat /\ t \in Nat
    BY <2>1
  <2> QED
    BY <2>1, <2>2
<1>6. \A i \in A2 : (i \in A /\ Q2[i] = Q[i]) \/ (i = m + 1 /\ Q2[i] = row)
  BY <1>2, <1>4
<1>7. Kept(r, p, B)
  BY <1>1, <1>3 DEF Kept
<1>8. Counts(r, p, Q2)
  <2>1. t \in Nat /\ t <= t
    OBVIOUS
  <2>2. \A i \in A2 : Q2[i].tty \in p.ttys /\ Q2[i].tty <= t /\ Q2[i].scrnum = p.scr[Q2[i].tty]
    BY <1>5, <1>6, <2>1
  <2>3. \A i, j \in A : i # j => Q[i].tty # Q[j].tty
    BY <1>3 DEF Counts
  <2>4. \A i \in A : Q[i].tty # t
    BY <1>5, <2>1
  <2>5. \A i, j \in A2 : i # j => Q2[i].tty # Q2[j].tty
    BY <1>6, <2>3, <2>4
  <2>6. Cardinality(A2) = Cardinality(A) + 1
    <3>1. \A i \in 1..(m + 1) : i \notin 1..m => i \in A2
      BY <1>4
    <3>2. AllMore(m, 1, A, A2)
      BY <1>4, <3>1 DEF AllMore
    <3> HIDE DEF A, A2
    <3> QED
      BY <1>2, <3>2, CountMore
  <2>7. Cardinality(A) = s.tty_cnt
    BY <1>3 DEF Counts
  <2> QED
    BY <2>2, <2>5, <2>6, <2>7 DEF Counts
<1>9. Shows(r, p, Q2, R)
  <2> SUFFICES ASSUME NEW u \in p.ttys
               PROVE  Cardinality(MineOf(R, p.dev, u)) = IF Decodes(r, p, Q2, u) THEN p.scr[u] ELSE 0
    BY DEF Shows
  <2>1. Cardinality(MineOf(R, p.dev, u)) = IF Decodes(s, p, Q, u) THEN p.scr[u] ELSE 0
    BY <1>3 DEF Shows
  <2>2. Decodes(s, p, Q, u) <=> \E i \in A : Q[i].tty = u
    BY DEF Decodes
  <2>3. (\E i \in A2 : Q2[i].tty = u) <=> (\E i \in A : Q[i].tty = u) \/ u = t
    BY <1>2, <1>4, <1>6
  <2>4. Decodes(r, p, Q2, u) <=> (\E i \in A2 : Q2[i].tty = u) /\ ~(p.scr[t] # 0 /\ u = t)
    BY DEF Decodes
  <2>5. u = t => ~\E i \in A : Q[i].tty = u
    <3>1. t \in Nat
      OBVIOUS
    <3> QED
      BY <1>5, <3>1
  <2> HIDE DEF A, A2
  <2>6. CASE u = t
    BY <2>1, <2>2, <2>3, <2>4, <2>5, <2>6
  <2>7. CASE u # t
    BY <2>1, <2>2, <2>3, <2>4, <2>7
  <2> QED
    BY <2>6, <2>7
<1>10. Current(r, p, Q2)
  BY <1>2, <1>4 DEF Current
<1> QED
  BY <1>7, <1>8, <1>9, <1>10 DEF Q2

(* The screens of the current terminal are decoded from its own bytes. *)
LEMMA ScreensRecord ==
  ASSUME NEW s, NEW p, NEW B, NEW Q, NEW R, Record(s, p, B, Q, R), s.state = "WaitScrInfo",
         p.scr \in [p.ttys -> Nat], s.current_tty \in p.ttys, s.scr_num = p.scr[s.current_tty],
         NEW r, r.tty_cnt = s.tty_cnt, r.current_tty = s.current_tty,
         r.state \in {"End", "WaitIPTermInfo"},
         NEW R2, Adds(s.scr_num, R, R2),
         \A i \in 1..s.scr_num : /\ R2[Len(R) + i].dev = p.dev
                                 /\ R2[Len(R) + i].tty = s.current_tty
                                 /\ R2[Len(R) + i].of = s.current_tty
  PROVE  Record(r, p, B, Q, R2)
<1> DEFINE n == s.scr_num
           m == Len(R)
           t == s.current_tty
<1> SUFFICES ASSUME \E x \in B : x.dev = p.dev
             PROVE  Kept(r, p, B) /\ Counts(r, p, Q) /\ Shows(r, p, Q, R2) /\ Current(r, p, Q)
  BY DEF Record
<1>1. Kept(s, p, B) /\ Counts(s, p, Q) /\ Shows(s, p, Q, R) /\ Current(s, p, Q)
  BY DEF Record, Past
<1>2. PartsBy(r.state) = PartsBy(s.state)
  BY DEF PartsBy
<1>3. n \in Nat /\ n = p.scr[t] /\ t \in p.ttys
  OBVIOUS
<1>4. /\ m \in Nat /\ Len(R2) = m + n /\ \A i \in 1..m : R2[i] = R[i]
      /\ \A k \in 1..(m + n) : k \in 1..m \/ \E i \in 1..n : k = m + i
  BY DEF Adds
<1>5. \A k \in 1..(m + n) : k \notin 1..m => R2[k].dev = p.dev /\ R2[k].tty = t /\ R2[k].of = t
  BY <1>4
<1>6. \A i \in 1..m : i \in 1..(m + n)
  BY <1>3, <1>4
<1> HIDE DEF n, m, t
<1>7. Kept(r, p, B) /\ Counts(r, p, Q) /\ Current(r, p, Q)
  BY <1>1, <1>2 DEF Kept, Counts, Current
<1>8. Shows(r, p, Q, R2)
  <2> SUFFICES ASSUME NEW u \in p.ttys
               PROVE  Cardinality(MineOf(R2, p.dev, u)) = IF Decodes(r, p, Q, u) THEN p.scr[u] ELSE 0
    BY DEF Shows
  <2> DEFINE A == MineOf(R, p.dev, u)
             A2 == MineOf(R2, p.dev, u)
  <2>1. Cardinality(A) = IF Decodes(s, p, Q, u) THEN p.scr[u] ELSE 0
    BY <1>1 DEF Shows
  <2>2. Decodes(r, p, Q, u) <=> \E i \in Mine(Q, p.dev) : Q[i].tty = u
    BY DEF Decodes
  <2>3. /\ Decodes(s, p, Q, u) <=> (\E i \in Mine(Q, p.dev) : Q[i].tty = u) /\ u # t
        /\ \E i \in Mine(Q, p.dev) : Q[i].tty = t
    BY <1>1 DEF Decodes, Current, t
  <2>4. A \subseteq 1..m /\ A2 \subseteq 1..(m + n) /\ \A i \in 1..m : i \in A2 <=> i \in A
    BY <1>4, <1>6 DEF MineOf, m
  <2>5. CASE u = t
    <3>1. \A k \in 1..(m + n) : k \notin 1..m => k \in A2
      BY <1>4, <1>5, <2>5 DEF MineOf
    <3>5. AllMore(m, n, A, A2)
      BY <2>4, <3>1 DEF AllMore
    <3> HIDE DEF A, A2
    <3>2. Cardinality(A2) = Cardinality(A) + n
      BY <1>3, <1>4, <3>5, CountMore
    <3>3. Cardinality(A) = 0
      BY <2>1, <2>3, <2>5
    <3>4. Cardinality(A2) = n
      BY <1>3, <3>2, <3>3
    <3> QED
      BY <1>3, <2>2, <2>3, <2>5, <3>4 DEF A2
  <2>6. CASE u # t
    <3>1. \A k \in 1..(m + n) : k \notin 1..m => k \notin A2
      BY <1>4, <1>5, <2>6 DEF MineOf
    <3> HIDE DEF A, A2
    <3>2. A2 = A
      BY <2>4, <1>6, <3>1
    <3> QED
      BY <2>1, <2>2, <2>3, <2>6, <3>2 DEF A2
  <2> QED
    BY <2>5, <2>6
<1> QED
  BY <1>7, <1>8

(* An update of the row of a device leaves the rows of the others, and     *)
(* takes no part away.                                                     *)
RowFrom(x, y, dev) == y.dev = x.dev /\ y.parts \subseteq x.parts /\ (x.dev # dev => x = y)

LEMMA PartUpdate ==
  ASSUME NEW I, BaseTyped(I), NEW dev, NEW part, OnRecvPart(dev, part), NEW x \in base'
  PROVE  (\E y \in base : RowFrom(x, y, dev)) /\ (x.dev = dev => part \in x.parts)
<1> DEFINE New(y) == IF y.dev = dev THEN [y EXCEPT !.parts = y.parts \cup {part}] ELSE y
<1>1. base' = {New(y) : y \in base}
  BY DEF OnRecvPart
<1>2. PICK y \in base : x = New(y)
  BY <1>1
<1>3. IsBaseRow(y)
  BY DEF BaseTyped
<1>4. CASE y.dev = dev
  <2>1. x = [y EXCEPT !.parts = y.parts \cup {part}]
    BY <1>2, <1>4
  <2>2. x.dev = y.dev /\ x.parts = y.parts \cup {part}
    BY <1>3, <2>1, Zenon DEF IsBaseRow
  <2> QED
    BY <1>4, <2>2 DEF RowFrom
<1>5. CASE y.dev # dev
  BY <1>2, <1>5 DEF RowFrom
<1> QED
  BY <1>4, <1>5

LEMMA NumberUpdate ==
  ASSUME NEW I, BaseTyped(I), NEW dev, NEW n,
         OnRecvTermResponse(dev, n) \/ UpdateTTYConnected(dev, n), NEW x \in base'
  PROVE  \E y \in base : RowFrom(x, y, dev)
<1>1. CASE OnRecvTermResponse(dev, n)
  <2>1. PICK y \in base : x = IF y.dev = dev THEN [y EXCEPT !.tty_configed = n] ELSE y
    BY <1>1 DEF OnRecvTermResponse
  <2>2. IsBaseRow(y)
    BY DEF BaseTyped
  <2>3. CASE y.dev = dev
    <3>1. x = [y EXCEPT !.tty_configed = n]
      BY <2>1, <2>3
    <3>2. x.dev = y.dev /\ x.parts = y.parts
      BY <2>2, <3>1, Zenon DEF IsBaseRow
    <3> QED
      BY <2>3, <3>2 DEF RowFrom
  <2>4. CASE y.dev # dev
    BY <2>1, <2>4 DEF RowFrom
  <2> QED
    BY <2>3, <2>4
<1>2. CASE UpdateTTYConnected(dev, n)
  <2>1. PICK y \in base : x = IF y.dev = dev THEN [y EXCEPT !.tty_connected = n] ELSE y
    BY <1>2 DEF UpdateTTYConnected
  <2>2. IsBaseRow(y)
    BY DEF BaseTyped
  <2>3. CASE y.dev = dev
    <3>1. x = [y EXCEPT !.tty_connected = n]
      BY <2>1, <2>3
    <3>2. x.dev = y.dev /\ x.parts = y.parts
      BY <2>2, <3>1, Zenon DEF IsBaseRow
    <3> QED
      BY <2>3, <3>2 DEF RowFrom
  <2>4. CASE y.dev # dev
    BY <2>1, <2>4 DEF RowFrom
  <2> QED
    BY <2>3, <2>4
<1> QED
  BY <1>1, <1>2

(* What a step of the device d does to the tables, as the others see it:   *)
(* it empties them, or adds rows of its own.                               *)
Empties(d) == \A x \in base' : x.dev = d

Appends(d) == /\ \A x \in base' : x.dev # d => x \in base
              /\ Grown(ttyinfo, ttyinfo', d) /\ Grown(scrinfo, scrinfo', d)

LEMMA SameGrown == ASSUME NEW V, NEW q \in Seq(V), NEW d PROVE Grown(q, q, d)
<1>1. Len(q) \in Nat
  BY LenProperties
<1> QED
  BY <1>1 DEF Grown

LEMMA HandledRecord ==
  ASSUME Dumb = {}, NEW I, RowsTyped(I), NEW p \in Profiles, NEW P, \A x \in P : PacketOK(x),
         \A x \in P : /\ x.type = "ipterm" => x.screen_num = ScreensOf(p, x.tty)
                      /\ x.type = "ter" => x.term_num = p.term_num,
         NEW s, SessionTyped(s, P), NEW buf \in Seq(UnitsOf(P)), buf # <<>>, NEW r,
         Handled(s, buf, r),
         HandledIPTerm(s, buf, r) => First(buf).tty \in p.ttys /\ s.current_tty < First(buf).tty,
         Past(s) => s.devid = p.dev, r.devid = p.dev,
         Counting(s, p), Record(s, p, base, ttyinfo, scrinfo)
  PROVE  /\ Counting(r, p) /\ Record(r, p, base', ttyinfo', scrinfo')
         /\ Empties(p.dev) \/ Appends(p.dev)
<1> DEFINE x == First(buf)
           B == base
           Q == ttyinfo
           R == scrinfo
<1>1. x \in P /\ PacketOK(x)
  BY FirstTyped
<1>2. /\ BaseTyped(I) /\ Q \in Seq(TtyRows(I)) /\ R \in Seq(ScrRows(I))
      /\ Grown(Q, Q, p.dev) /\ Grown(R, R, p.dev)
  BY SameGrown DEF RowsTyped
<1>3. /\ p.ttys \subseteq Nat /\ p.scr \in [p.ttys -> Nat]
      /\ s.tty_cnt \in Nat /\ s.current_tty \in Nat
  BY ProfilesAssumption DEF SessionTyped
<1> HIDE DEF x
<1>4. CASE HandledAuth(s, buf, r)
  <2>1. /\ base' = {BaseRow(p.dev)} /\ ttyinfo' = <<>> /\ scrinfo' = <<>>
        /\ s.state = "WaitAuth" /\ r.state = "WaitSysInfo"
        /\ r.tty_cnt = s.tty_cnt /\ r.current_tty = s.current_tty
    BY <1>4 DEF HandledAuth, OnRecvAuthResponse, Leads, SameCount, SameScreens
  <2>2. BaseRow(p.dev).dev = p.dev /\ Len(<<>>) = 0
    BY DEF BaseRow
  <2>3. s.tty_cnt = 0 /\ s.current_tty = 0
    BY <2>1 DEF Counting, Late
  <2>4. Counting(r, p)
    BY <2>1, <2>3 DEF Counting, Late
  <2>5. PartsBy(r.state) = {}
    BY <2>1 DEF PartsBy
  <2>6. Mine(<<>>, p.dev) = {} /\ \A t : MineOf(<<>>, p.dev, t) = {}
    BY <2>2 DEF Mine, MineOf
  <2>7. Cardinality({}) = 0
    BY FS_EmptySet
  <2>8. Kept(r, p, base')
    BY <2>5 DEF Kept
  <2>9. Counts(r, p, ttyinfo')
    BY <2>1, <2>3, <2>6, <2>7 DEF Counts
  <2>10. Shows(r, p, ttyinfo', scrinfo')
    BY <2>1, <2>6, <2>7 DEF Shows, Decodes
  <2>11. Current(r, p, ttyinfo')
    BY <2>1 DEF Current
  <2>12. Empties(p.dev)
    BY <2>1, <2>2 DEF Empties
  <2> QED
    BY <2>4, <2>8, <2>9, <2>10, <2>11, <2>12 DEF Record
<1>5. CASE HandledPart(s, buf, r)
  <2>1. /\ s.state \in EarlyStates /\ r.state \in EarlyNext /\ s.devid = p.dev
        /\ r.tty_cnt = s.tty_cnt /\ r.current_tty = s.current_tty
    BY <1>5 DEF HandledPart, SameDevice, SameCount, SameScreens, Leads
  <2>2. PICK part : OnRecvPart(p.dev, part) /\ PartsBy(r.state) \subseteq PartsBy(s.state) \cup {part}
    BY <1>5, <2>1 DEF HandledPart
  <2>3. ttyinfo' = Q /\ scrinfo' = R
    BY <2>2 DEF OnRecvPart
  <2>4. \A y \in base' : (\E z \in B : RowFrom(y, z, p.dev)) /\ (y.dev = p.dev => part \in y.parts)
    BY <1>2, <2>2, PartUpdate
  <2>5. Counting(r, p)
    BY <2>1 DEF Counting, Late, EarlyStates, EarlyNext
  <2>6. /\ Past(s) /\ (r.state = "WaitScrInfo" <=> s.state = "WaitScrInfo")
    BY <2>1 DEF Past, EarlyStates, EarlyNext
  <2>7. \A y \in base' : y.dev = p.dev => \E z \in B : /\ z.dev = p.dev /\ z.parts \subseteq y.parts
                                 /\ PartsBy(r.state) \subseteq PartsBy(s.state) \cup y.parts
    BY <2>2, <2>4 DEF RowFrom
  <2>8. Record(r, p, base', Q, R)
    BY <2>1, <2>6, <2>7, RecordKept
  <2>9. Appends(p.dev)
    BY <1>2, <2>3, <2>4 DEF Appends, RowFrom
  <2> QED
    BY <2>3, <2>5, <2>8, <2>9
<1>6. ASSUME NEW n, OnRecvTermResponse(p.dev, n) \/ UpdateTTYConnected(p.dev, n),
             Past(s), s.state # "WaitScrInfo", r.state # "WaitScrInfo",
             PartsBy(r.state) = PartsBy(s.state),
             r.tty_cnt = s.tty_cnt, r.current_tty = s.current_tty
      PROVE  Record(r, p, base', ttyinfo', scrinfo') /\ Appends(p.dev)
  <2>1. ttyinfo' = Q /\ scrinfo' = R
    BY <1>6 DEF OnRecvTermResponse, UpdateTTYConnected
  <2>2. \A y \in base' : \E z \in B : RowFrom(y, z, p.dev)
    BY <1>2, <1>6, NumberUpdate
  <2>3. \A y \in base' : y.dev = p.dev => \E z \in B : /\ z.dev = p.dev /\ z.parts \subseteq y.parts
                                 /\ PartsBy(r.state) \subseteq PartsBy(s.state) \cup y.parts
    BY <1>6, <2>2 DEF RowFrom
  <2>4. Record(r, p, base', Q, R)
    BY <1>6, <2>3, RecordKept
  <2>5. Appends(p.dev)
    BY <1>2, <2>1, <2>2 DEF Appends, RowFrom
  <2> QED
    BY <2>1, <2>4, <2>5
<1>7. CASE HandledTer(s, buf, r)
  <2>1. /\ s.state = "WaitTermInfo" /\ r.state = "WaitIPTermInfo" /\ s.devid = p.dev
        /\ r.tty_cnt = s.tty_cnt /\ r.current_tty = s.current_tty
        /\ r.tty_connected = x.term_num /\ x.type = "ter" /\ OnRecvTermResponse(p.dev, x.term_num)
    BY <1>7 DEF HandledTer, SameDevice, SameScreens, Leads, x
  <2>2. x.term_num = p.term_num
    BY <1>1, <2>1
  <2>3. Counting(r, p)
    BY <2>1, <2>2 DEF Counting, Late
  <2>4. Past(s) /\ PartsBy(r.state) = PartsBy(s.state)
    BY <2>1 DEF Past, PartsBy
  <2> QED
    BY <1>6, <2>1, <2>3, <2>4
<1>8. CASE HandledIPTerm(s, buf, r)
  <2> DEFINE t == x.tty
             row == [dev |-> p.dev, tty |-> t, scrnum |-> x.screen_num]
  <2>1. /\ s.state = "WaitIPTermInfo" /\ x.type = "ipterm" /\ t \in p.ttys /\ s.current_tty < t
        /\ TookTerminal(s, r, t, x.screen_num, Drop(buf, 2))
    BY <1>8 DEF HandledIPTerm, x
  <2>2. x.screen_num = p.scr[t] /\ p.scr[t] \in Nat
    BY <1>1, <1>3, <2>1 DEF ScreensOf
  <2>3. /\ OnRecvIPTermResponse(s.devid, t, x.screen_num)
        /\ r.tty_cnt = s.tty_cnt + 1 /\ r.tty_connected = s.tty_connected
        /\ r.scr_num = p.scr[t] /\ r.current_tty = t
        /\ r.state = "WaitScrInfo" <=> p.scr[t] # 0
        /\ r.state = "End" => AllCounted(r)
        /\ r.state \in Late
    BY <2>1, <2>2 DEF TookTerminal, Leads, Late
  <2>4. s.devid = p.dev
    BY <2>1 DEF Past
  <2>5. ttyinfo' = Append(Q, row) /\ base' = B /\ scrinfo' = R
    BY <2>3, <2>4 DEF OnRecvIPTermResponse
  <2>6. Counting(r, p)
    BY <2>1, <2>3 DEF Counting, Late
  <2>7. row.dev = p.dev /\ row.tty = t /\ row.scrnum = p.scr[t]
    BY <2>2
  <2> HIDE DEF row, t
  <2>8. Record(r, p, B, Append(Q, row), R)
    BY <1>2, <1>3, <2>1, <2>3, <2>7, TerminalRecord
  <2>9. Grown(Q, Append(Q, row), p.dev)
    <3>1. /\ Len(Q) \in Nat /\ Len(Append(Q, row)) = Len(Q) + 1 /\ Append(Q, row)[Len(Q) + 1] = row
          /\ \A i \in 1..Len(Q) : Append(Q, row)[i] = Q[i]
      BY <1>2, AppendProperties, LenProperties
    <3>2. \A i \in 1..(Len(Q) + 1) : i \in 1..Len(Q) \/ i = Len(Q) + 1
      BY <3>1
    <3> QED
      BY <2>7, <3>1, <3>2 DEF Grown
  <2>10. Appends(p.dev)
    BY <1>2, <2>5, <2>9 DEF Appends
  <2> QED
    BY <2>5, <2>6, <2>8, <2>10
<1>9. CASE HandledDumb(s, buf, r)
  BY <1>9, NoneDumb
<1>10. CASE HandledEnd(s, buf, r)
  <2>1. /\ s.state = "End" /\ r.state = "End" /\ s.devid = p.dev
        /\ r.tty_cnt = s.tty_cnt /\ r.current_tty = s.current_tty /\ r.tty_connected = s.tty_connected
        /\ UpdateTTYConnected(p.dev, s.tty_connected)
    BY <1>10 DEF HandledEnd, SameDevice, SameCount, SameScreens, Leads, Past
  <2>2. Counting(r, p)
    BY <2>1 DEF Counting, Late, AllCounted
  <2>3. Past(s) /\ PartsBy(r.state) = PartsBy(s.state)
    BY <2>1 DEF Past, PartsBy
  <2> QED
    BY <1>6, <2>1, <2>2, <2>3
<1> QED
  BY <1>4, <1>5, <1>7, <1>8, <1>9, <1>10 DEF Handled

LEMMA TookRecord ==
  ASSUME ~GarbageHeader, NEW I, RowsTyped(I), NEW p \in Profiles, NEW P, \A x \in P : PacketOK(x),
         NEW s, SessionTyped(s, P), NEW r, TookScreens(s, r), ScreensAt(s), s.devid = p.dev,
         Counting(s, p), Record(s, p, base, ttyinfo, scrinfo)
  PROVE  /\ Counting(r, p) /\ Record(r, p, base', ttyinfo', scrinfo')
         /\ Appends(p.dev)
<1> DEFINE n == s.scr_num
           t == s.current_tty
           R == scrinfo
           m == Len(scrinfo)
<1>1. /\ n \in Nat /\ t \in Nat /\ s.recv_buffer \in Seq(UnitsOf(P))
      /\ Len(s.recv_buffer) \in Nat /\ n <= Len(s.recv_buffer)
  BY DEF SessionTyped, ScreensAt
<1>2. /\ s.state = "WaitScrInfo" /\ r.state \in {"End", "WaitIPTermInfo"}
      /\ r.state = "End" => AllCounted(s)
      /\ r.tty_cnt = s.tty_cnt /\ r.tty_connected = s.tty_connected /\ r.current_tty = t
  BY DEF TookScreens, SameCount, Leads
<1>3. OnRecvScreenInfoPackets(p.dev, t, Decoded(s, n))
  <2>1. PICK taken, gone :
          /\ OnRecvScreenInfoPackets(s.devid, t, Decoded(s, taken))
          /\ \/ taken = n /\ gone = n /\ n <= Len(s.recv_buffer)
             \/ taken = Len(s.recv_buffer) /\ gone = taken /\ ~(n <= Len(s.recv_buffer))
             \/ GarbageHeader /\ gone \in (taken + 1)..Len(s.recv_buffer) /\ taken \in Nat
    BY Zenon DEF TookScreens
  <2>2. taken = n
    BY <1>1, <2>1
  <2> QED
    BY <2>1, <2>2
<1>4. \A i \in 1..n : Decoded(s, n)[i] = t
  <2>1. \A i \in 1..n : i <= n
    BY <1>1
  <2> QED
    BY <2>1 DEF Decoded, ScreensAt
<1>5. Decoded(s, n) \in [1..n -> Nat]
  <2>1. Decoded(s, n) = [i \in 1..n |-> Decoded(s, n)[i]]
    BY DEF Decoded
  <2> QED
    BY <1>1, <1>4, <2>1
<1> DEFINE whose == Decoded(s, n)
<1>6. whose \in [1..n -> Nat] /\ OnRecvScreenInfoPackets(p.dev, t, whose) /\ \A i \in 1..n : whose[i] = t
  BY <1>3, <1>4, <1>5
<1> HIDE DEF whose
<1>7. /\ Adds(n, scrinfo, scrinfo')
      /\ \A i \in 1..n : scrinfo'[Len(scrinfo) + i] = Numbered(p.dev, t, n, whose, global_number, i)
  <2>1. /\ n \in Nat /\ whose \in [1..n -> Nat] /\ OnRecvScreenInfoPackets(p.dev, t, whose)
        /\ RowsTyped(I)
    BY <1>1, <1>6
  <2> HIDE DEF n, t
  <2>2. /\ Adds(n, scrinfo, scrinfo')
        /\ \A i \in 1..n : scrinfo'[Len(scrinfo) + i] = Numbered(p.dev, t, n, whose, global_number, i)
    BY <2>1, NewScreens, Zenon
  <2> QED
    BY <2>2
<1>8. \A i \in 1..n : /\ scrinfo'[m + i].dev = p.dev /\ scrinfo'[m + i].tty = t
                      /\ scrinfo'[m + i].of = t
  <2>1. \A i : LET u == Numbered(p.dev, t, n, whose, global_number, i)
               IN  u.dev = p.dev /\ u.tty = t /\ u.of = whose[i]
    BY DEF Numbered
  <2> QED
    BY <1>6, <1>7, <2>1
<1>9. UNCHANGED <<base, ttyinfo>>
  BY <1>3 DEF OnRecvScreenInfoPackets
<1>10. /\ p.scr \in [p.ttys -> Nat] /\ t \in p.ttys /\ n = p.scr[t]
  BY <1>2, ProfilesAssumption DEF Counting
<1>11. Counting(r, p)
  BY <1>2 DEF Counting, Late, AllCounted
<1>12. Record(r, p, base, ttyinfo, scrinfo')
  BY <1>2, <1>7, <1>8, <1>10, ScreensRecord
<1>13. Grown(R, scrinfo', p.dev)
  <2>1. /\ Len(scrinfo') = m + n /\ m \in Nat
        /\ \A i \in 1..m : scrinfo'[i] = R[i]
        /\ \A k \in 1..(m + n) : k \in 1..m \/ \E i \in 1..n : k = m + i
    BY <1>7 DEF Adds
  <2>2. m + n \in Nat /\ m <= m + n
    BY <1>1, <2>1
  <2>3. \A k \in 1..(m + n) : k \notin 1..m => scrinfo'[k].dev = p.dev
    BY <1>8, <2>1
  <2> HIDE DEF m, n, R
  <2> QED
    BY <2>1, <2>2, <2>3 DEF Grown, R, m
<1>14. Appends(p.dev)
  <2>1. Grown(ttyinfo, ttyinfo, p.dev)
    BY SameGrown DEF RowsTyped
  <2> QED
    BY <1>9, <1>13, <2>1 DEF Appends
<1> QED
  BY <1>9, <1>11, <1>12, <1>14

LEMMA EmptiedRecord ==
  ASSUME NEW s, NEW p, NEW d, d # p.dev, Empties(d) PROVE Record(s, p, base', ttyinfo', scrinfo')
BY DEF Record, Empties

LEMMA AppendedRecord ==
  ASSUME NEW s, NEW p, NEW d, d # p.dev, Appends(d), Record(s, p, base, ttyinfo, scrinfo)
  PROVE  Record(s, p, base', ttyinfo', scrinfo')
BY OthersRecord DEF Appends

(* A packet that is a reply of the device p. *)
ReplyOf(x, p) == /\ x.type = "ipterm" => x.screen_num = ScreensOf(p, x.tty)
                 /\ x.type = "ter" => x.term_num = p.term_num /\ x.ttys = p.ttys

LEMMA ServerRecords ==
  ASSUME Dumb = {}, ~GarbageHeader, NEW P, NEW T, NEW D, Typed(P), Shape, Lists, Distinct,
         RowsTyped(Ids(D)), Identified(D), Admits(P, D), \A c \in Conn : D[c] \subseteq {prof[c].dev},
         \A c \in Conn : \A x \in P[c] : Describes(T[c], x) /\ ReplyOf(x, prof[c]),
         \A c \in Conn : T[c] = prof[c].ttys,
         \A c \in Serving : Ordered(c, T[c]), ScreensWhole, Recording, ServerNext, prof' = prof
  PROVE  Recording'
<1>1. Rests \/ \E c \in Conn : Reads(c) \/ Writes(c) \/ Settles(c) \/ Removes(c)
  BY ServerDoes
<1>2. /\ \A c \in Conn : Counting(sess[c], prof[c]) /\ Record(sess[c], prof[c], base, ttyinfo, scrinfo)
      /\ \A c \in Conn : SessionTyped(sess[c], P[c]) /\ \A x \in P[c] : PacketOK(x)
      /\ \A c \in Conn : prof[c] \in Profiles
  BY DEF Recording, Typed, Distinct
<1>3. Identified(D)'
  BY ServerRows
<1>4. ASSUME NEW c \in Conn, Others(c),
             Counting(sess'[c], prof[c]), Record(sess'[c], prof[c], base', ttyinfo', scrinfo'),
             Empties(prof[c].dev) \/ Appends(prof[c].dev)
      PROVE  Recording'
  <2> SUFFICES ASSUME NEW d \in Conn
               PROVE  /\ Counting(sess'[d], prof[d])
                      /\ Record(sess'[d], prof[d], base', ttyinfo', scrinfo')
    <3>1. \A e \in Conn : /\ Counting(sess'[e], prof[e])
                          /\ Record(sess'[e], prof[e], base', ttyinfo', scrinfo')
      OBVIOUS
    <3> QED
      BY <3>1 DEF Recording
  <2>1. CASE d = c
    BY <1>4, <2>1
  <2>2. CASE d # c
    <3>1. sess'[d] = sess[d] /\ prof[c].dev # prof[d].dev
      BY <1>4, <2>2 DEF Others, Distinct
    <3>2. Counting(sess[d], prof[d]) /\ Record(sess[d], prof[d], base, ttyinfo, scrinfo)
      BY <1>2
    <3>3. Record(sess[d], prof[d], base', ttyinfo', scrinfo')
      BY <1>4, <3>1, <3>2, EmptiedRecord, AppendedRecord
    <3> QED
      BY <3>1, <3>2, <3>3
  <2> QED
    BY <2>1, <2>2
<1>5. ASSUME NEW d, UNCHANGED dbVars PROVE Appends(d)
  <2>1. Grown(ttyinfo, ttyinfo, d) /\ Grown(scrinfo, scrinfo, d)
    BY SameGrown DEF RowsTyped
  <2> QED
    BY <1>5, <2>1 DEF Appends, dbVars
<1>6. ASSUME NEW c \in Conn, Past(sess[c]) PROVE sess[c].devid = prof[c].dev
  BY <1>6 DEF Identified, Past
<1>7. CASE Rests
  BY <1>7 DEF Rests, dbVars, Recording
<1>8. ASSUME NEW c \in Conn, Reads(c) PROVE Recording'
  <2> DEFINE s == sess[c]
             r == sess'[c]
             buf == Received(c)
             p == prof[c]
             I == Ids(D)
  <2>1. Others(c) /\ buf # <<>> /\ Handled(s, buf, r)
    BY <1>8 DEF Reads
  <2>2. buf \in Seq(UnitsOf(P[c]))
    BY ReceivedTyped
  <2>3. Typed(P)'
    BY ServerTyped
  <2>4. HandledIPTerm(s, buf, r) => First(buf).tty \in p.ttys /\ s.current_tty < First(buf).tty
    <3> SUFFICES ASSUME HandledIPTerm(s, buf, r)
                 PROVE  First(buf).tty \in p.ttys /\ s.current_tty < First(buf).tty
      OBVIOUS
    <3>1. s.state = "WaitIPTermInfo"
      BY DEF HandledIPTerm
    <3>2. c \in Serving
      BY <3>1 DEF Lists, NewClient, Serving
    <3>3. Ordered(c, T[c]) /\ \A x \in P[c] : Describes(T[c], x)
      BY <3>2
    <3>4. First(Received(c)).tty \in T[c] /\ sess[c].current_tty < First(Received(c)).tty
      BY <1>8, <2>3, <3>3, NextTerminal
    <3> QED
      BY <3>4
  <2>5. Past(s) => s.devid = p.dev
    BY <1>6
  <2>6. Past(r)
    BY <2>1 DEF Handled, HandledAuth, HandledPart, HandledTer, HandledIPTerm, HandledDumb, HandledEnd,
                TookTerminal, Leads, Past, EarlyNext
  <2>7. r.devid = p.dev
    BY <1>3, <2>6 DEF Identified, Past
  <2>8. \A x \in P[c] : ReplyOf(x, p) /\ PacketOK(x)
    BY <1>2
  <2>9. p \in Profiles /\ SessionTyped(s, P[c]) /\ RowsTyped(I)
        /\ Counting(s, p) /\ Record(s, p, base, ttyinfo, scrinfo)
    BY <1>2
  <2> HIDE DEF s, r, buf, p, I
  <2>10. /\ Counting(r, p) /\ Record(r, p, base', ttyinfo', scrinfo')
         /\ Empties(p.dev) \/ Appends(p.dev)
    BY <2>1, <2>2, <2>4, <2>5, <2>7, <2>8, <2>9, HandledRecord DEF ReplyOf
  <2> QED
    BY <1>4, <2>1, <2>10 DEF r, p
<1>9. ASSUME NEW c \in Conn, Others(c), UNCHANGED dbVars, Counting(sess'[c], prof[c]),
             Record(sess'[c], prof[c], base, ttyinfo, scrinfo)
      PROVE  Recording'
  <2>1. Appends(prof[c].dev)
    BY <1>5, <1>9
  <2>2. Record(sess'[c], prof[c], base', ttyinfo', scrinfo')
    BY <1>9 DEF dbVars
  <2> QED
    BY <1>4, <1>9, <2>1, <2>2
<1>10. ASSUME NEW c \in Conn, Writes(c) PROVE Recording'
  <2> DEFINE s == sess[c]
             r == sess'[c]
             p == prof[c]
  <2>1. /\ Others(c) /\ UNCHANGED dbVars /\ r.state = s.state
        /\ r.tty_cnt = s.tty_cnt /\ r.tty_connected = s.tty_connected
        /\ r.current_tty = s.current_tty /\ r.scr_num = s.scr_num
    BY <1>10 DEF Writes, SameCount, SameScreens
  <2>2. Counting(s, p) /\ Record(s, p, base, ttyinfo, scrinfo)
    BY <1>2
  <2>3. Counting(r, p)
    BY <2>1, <2>2 DEF Counting, AllCounted
  <2>4. Past(r) => Past(s)
    BY <2>1 DEF Past
  <2> HIDE DEF s, r, p
  <2>5. Record(r, p, base, ttyinfo, scrinfo)
    BY <2>1, <2>2, <2>4, RecordKept
  <2> QED
    BY <1>9, <2>1, <2>3, <2>5 DEF r, p
<1>11. ASSUME NEW c \in Conn, Settles(c) PROVE Recording'
  <2> DEFINE s == sess[c]
             r == sess'[c]
             p == prof[c]
  <2>1. Others(c) /\ (Greeted(s, r) \/ TookScreens(s, r))
    BY <1>11 DEF Settles
  <2>2. Counting(s, p) /\ Record(s, p, base, ttyinfo, scrinfo) /\ p \in Profiles /\ SessionTyped(s, P[c])
    BY <1>2
  <2>3. CASE Greeted(s, r)
    <3>1. /\ UNCHANGED dbVars /\ s.state = "Acceptance" /\ r.state = "WaitAuth"
          /\ r.tty_cnt = s.tty_cnt /\ r.current_tty = s.current_tty
      BY <2>3 DEF Greeted, Leads, SameCount, SameScreens
    <3>2. Counting(r, p) /\ Record(r, p, base, ttyinfo, scrinfo)
      BY <2>2, <3>1 DEF Counting, Late, Record, Past
    <3> QED
      BY <1>9, <2>1, <3>1, <3>2
  <2>4. CASE TookScreens(s, r)
    <3>1. s.state = "WaitScrInfo"
      BY <2>4 DEF TookScreens
    <3>2. s.devid = p.dev
      BY <1>6, <3>1 DEF Past
    <3>3. s.is_scr
      BY <3>1 DEF Shape, ClientOK
    <3>4. ScreensAt(s)
      BY <3>3 DEF ScreensWhole, ScreensAt
    <3>5. \A x \in P[c] : PacketOK(x)
      BY <1>2
    <3> HIDE DEF s, r, p
    <3>6. /\ Counting(r, p) /\ Record(r, p, base', ttyinfo', scrinfo')
          /\ Appends(p.dev)
      BY <2>2, <2>4, <3>2, <3>4, <3>5, TookRecord
    <3> QED
      BY <1>4, <2>1, <3>6 DEF r, p
  <2> QED
    BY <2>1, <2>3, <2>4
<1>12. ASSUME NEW c \in Conn, Removes(c) PROVE Recording'
  <2>1. Others(c) /\ UNCHANGED dbVars /\ sess'[c] = NewClient
    BY <1>12 DEF Removes
  <2>2. NewClient.state = "Acceptance" /\ NewClient.tty_cnt = 0 /\ NewClient.current_tty = 0
    BY DEF NewClient
  <2>3. Counting(sess'[c], prof[c]) /\ Record(sess'[c], prof[c], base, ttyinfo, scrinfo)
    BY <2>1, <2>2 DEF Counting, Late, Record, Past
  <2> QED
    BY <1>9, <2>1, <2>3
<1> QED
  BY <1>1, <1>7, <1>8, <1>10, <1>11, <1>12

LEMMA RecordingInit == Init => Recording
<1> SUFFICES ASSUME Init, NEW c \in Conn
             PROVE  Counting(sess[c], prof[c]) /\ Record(sess[c], prof[c], base, ttyinfo, scrinfo)
  BY DEF Recording
<1>1. sess[c].state = "Acceptance" /\ sess[c].tty_cnt = 0 /\ sess[c].current_tty = 0
  BY DEF Init, ServerInit, NewClient
<1> QED
  BY <1>1 DEF Counting, Late, Record, Past

(* As many rows as terminals, none twice, are all the terminals.           *)
LEMMA EndRecorded ==
  ASSUME NEW p \in Profiles, NEW s, s.state = "End", NEW I, RowsTyped(I),
         Counting(s, p), Record(s, p, base, ttyinfo, scrinfo),
         p.term_num >= Cardinality(p.ttys), \E r \in base : r.dev = p.dev
  PROVE  Recorded(p)
<1> DEFINE A == Mine(ttyinfo, p.dev)
           f == [i \in A |-> ttyinfo[i].tty]
<1>1. /\ Kept(s, p, base) /\ Counts(s, p, ttyinfo) /\ Shows(s, p, ttyinfo, scrinfo)
      /\ s.tty_cnt = p.term_num
  BY DEF Record, Past, Counting, Late, AllCounted
<1>2. /\ IsFiniteSet(p.ttys) /\ Cardinality(p.ttys) \in Nat /\ p.term_num \in Nat
  BY ProfilesAssumption, FS_CardinalityType
<1>3. DOMAIN ttyinfo = 1..Len(ttyinfo) /\ DOMAIN scrinfo = 1..Len(scrinfo)
  BY DEF RowsTyped
<1>4. f \in Injection(A, p.ttys)
  <2>1. \A i \in A : f[i] = ttyinfo[i].tty /\ f[i] \in p.ttys
    BY <1>1 DEF Counts
  <2>2. f \in [A -> p.ttys]
    BY <2>1
  <2>3. \A i, j \in A : i # j => f[i] # f[j]
    BY <1>1, <2>1 DEF Counts
  <2>4. DOMAIN f = A
    OBVIOUS
  <2> HIDE DEF f, A
  <2> QED
    BY <2>2, <2>3, <2>4 DEF Injection, IsInjective
<1>5. Cardinality(A) = p.term_num
  BY <1>1 DEF Counts
<1>6. Cardinality(A) = Cardinality(p.ttys) /\ f \in Surjection(A, p.ttys)
  <2> HIDE DEF f, A
  <2>1. /\ Cardinality(A) <= Cardinality(p.ttys)
        /\ Cardinality(A) = Cardinality(p.ttys) <=> f \in Surjection(A, p.ttys)
    BY <1>2, <1>4, FS_Injection
  <2> QED
    BY <1>2, <1>5, <2>1
<1>7. \A t \in p.ttys : \E i \in A : ttyinfo[i].tty = t
  <2> SUFFICES ASSUME NEW t \in p.ttys PROVE \E i \in A : ttyinfo[i].tty = t
    OBVIOUS
  <2>1. PICK i \in A : f[i] = t
    BY <1>6 DEF Surjection
  <2> QED
    BY <2>1
<1>8. ASSUME NEW t \in p.ttys
      PROVE  /\ Cardinality({i \in DOMAIN ttyinfo : /\ ttyinfo[i].dev = p.dev
                                                    /\ ttyinfo[i].tty = t
                                                    /\ ttyinfo[i].scrnum = p.scr[t]}) = 1
             /\ Cardinality({i \in DOMAIN scrinfo : /\ scrinfo[i].dev = p.dev
                                                    /\ scrinfo[i].tty = t
                                                    /\ scrinfo[i].of = t}) = p.scr[t]
  <2>1. PICK k \in A : ttyinfo[k].tty = t
    BY <1>7
  <2>2. {i \in DOMAIN ttyinfo : /\ ttyinfo[i].dev = p.dev
                                /\ ttyinfo[i].tty = t
                                /\ ttyinfo[i].scrnum = p.scr[t]} = {k}
    BY <1>1, <1>3, <2>1 DEF Counts, Mine
  <2>3. {i \in DOMAIN scrinfo : /\ scrinfo[i].dev = p.dev
                                /\ scrinfo[i].tty = t
                                /\ scrinfo[i].of = t} = MineOf(scrinfo, p.dev, t)
    BY <1>3 DEF MineOf
  <2>4. Decodes(s, p, ttyinfo, t)
    BY <2>1 DEF Decodes
  <2>5. Cardinality(MineOf(scrinfo, p.dev, t)) = p.scr[t]
    BY <1>1, <2>4 DEF Shows
  <2>6. Cardinality({k}) = 1
    BY FS_Singleton
  <2> QED
    BY <2>2, <2>3, <2>5, <2>6
<1>9. {i \in DOMAIN ttyinfo : ttyinfo[i].dev = p.dev} = A
  BY <1>3 DEF Mine
<1>10. \E r \in base : r.dev = p.dev /\ {"sys", "conf", "proc"} \subseteq r.parts
  <2>1. PartsBy(s.state) = {"sys", "conf", "proc"}
    BY DEF PartsBy
  <2> QED
    BY <1>1, <2>1 DEF Kept
<1> HIDE DEF A, f
<1> QED
  BY <1>6, <1>8, <1>9, <1>10 DEF Recorded

LEMMA RecordingAlways ==
  ASSUME Dumb = {}, ~GarbageHeader
  PROVE  Spec => [](Sound /\ Streams /\ ScreensWhole /\ Order /\ Recording)
<1> DEFINE Inv == Sound /\ Streams /\ ScreensWhole /\ Order /\ Recording
<1>1. Init => Inv
  <2>1. Init => ScreensWhole
    BY DEF Init, ServerInit, NewClient, ScreensWhole
  <2> QED
    BY <2>1, SoundInit, StreamsInit, OrderInit, RecordingInit
<1>2. Inv /\ [Next]_vars => Inv'
  <2> SUFFICES ASSUME Sound, Streams, ScreensWhole, Order, Recording, [Next]_vars
               PROVE  ScreensWhole' /\ Recording'
    BY SoundStep, StreamsStep, OrderStep
  <2>1. CASE ServerNext /\ prof' = prof
    <3>1. PICK P, D : Devices(P, D) /\ Typed(P) /\ RowsTyped(Ids(D)) /\ Identified(D)
      BY DEF Sound
    <3>2. Shape /\ Lists /\ Distinct
      BY DEF Sound, Owing
    <3>3. PICK T : T = [e \in Conn |-> prof[e].ttys]
      OBVIOUS
    <3>4. \A c \in Conn : Framed(Stream(c))
      BY <2>1, ServerStatus DEF Streams
    <3>5. ScreensWhole'
      BY <2>1, <3>1, <3>2, <3>4, ServerScreens
    <3>6. Admits(P, D)
      BY <3>1, <3>2, DevicesAdmit
    <3>7. ASSUME NEW c \in Conn, NEW x \in P[c]
          PROVE  Describes(T[c], x) /\ ReplyOf(x, prof[c])
      <4>1. PICK q \in Requests, r \in RandomNums : x = Reply(prof[c], q, r)
        BY <3>1 DEF Devices, PacketsOf
      <4>2. prof[c] \in Profiles /\ T[c] = prof[c].ttys
        BY <3>2, <3>3 DEF Distinct
      <4>3. /\ Describes(prof[c].ttys, x)
            /\ x.type = "ipterm" => x.tty = q.no /\ x.screen_num = ScreensOf(prof[c], q.no)
            /\ x.type = "ter" => x.term_num = prof[c].term_num /\ x.ttys = prof[c].ttys
        BY <4>1, <4>2, ReplyKey
      <4> QED
        BY <4>2, <4>3 DEF ReplyOf
    <3>8. \A c \in Conn : D[c] \subseteq {prof[c].dev} /\ T[c] = prof[c].ttys
      BY <3>1, <3>3 DEF Devices, Known
    <3>9. \A c \in Serving : Ordered(c, T[c])
      <4> SUFFICES ASSUME NEW c \in Serving PROVE Ordered(c, T[c])
        OBVIOUS
      <4>1. c \in Conn
        BY <3>2, ListedIn DEF Lists, Serving, Held, Listing
      <4>2. Ordered(c, prof[c].ttys)
        BY <2>1, <4>1, ServerStatus DEF Order
      <4> QED
        BY <3>3, <4>1, <4>2
    <3>10. Recording'
      BY <2>1, <3>1, <3>2, <3>6, <3>7, <3>8, <3>9, ServerRecords
    <3> QED
      BY <3>5, <3>10
  <2>2. CASE UNCHANGED <<sess, prof, base, ttyinfo, scrinfo>>
    BY <2>2 DEF ScreensWhole, Recording
  <2>3. DeviceNext \/ Arrive \/ UNCHANGED vars => UNCHANGED <<sess, prof, base, ttyinfo, scrinfo>>
    BY DEF DeviceNext, Connect, Answer, Leave, Die, Arrive, vars, serverVars, dbVars
  <2> QED
    BY <2>1, <2>2, <2>3 DEF Next
<1> HIDE DEF Inv
<1>3. Spec => []Inv
  BY <1>1, <1>2, PTL DEF Spec
<1> QED
  BY <1>3 DEF Inv

(* Where no terminal is dumb and the header of the screens is harmless:    *)
(* when the server tells a device that its session is complete, and no     *)
(* other has emptied the tables since, they hold each terminal the device  *)
(* reported once and each of its screens once, decoded from its own bytes, *)
(* however the sessions of the other devices run in between.               *)
THEOREM SessionsEndIsComplete ==
  ASSUME Dumb = {}, ~GarbageHeader
  PROVE  Spec => []EndIsComplete
<1>1. Sound /\ Recording => EndIsComplete
  <2> SUFFICES ASSUME Sound, Recording, NEW c \in Conn, Conforms(prof[c]), sess[c].state = "End",
                      \E r \in base : r.dev = prof[c].dev
               PROVE  Recorded(prof[c])
    BY DEF EndIsComplete
  <2>1. PICK D : RowsTyped(Ids(D))
    BY DEF Sound
  <2>2. prof[c] \in Profiles /\ prof[c].term_num >= Cardinality(prof[c].ttys)
    BY DEF Sound, Distinct, Conforms
  <2>3. Counting(sess[c], prof[c]) /\ Record(sess[c], prof[c], base, ttyinfo, scrinfo)
    BY DEF Recording
  <2> QED
    BY <2>1, <2>2, <2>3, EndRecorded
<1>2. Spec => [](Sound /\ Streams /\ ScreensWhole /\ Order /\ Recording)
  BY RecordingAlways
<1> QED
  BY <1>1, <1>2, PTL

-----------------------------------------------------------------------------
(* What is still to come from a device, counted: the packets of the types  *)
(* Y on their way to the server, and the requests that will be answered    *)
(* with them.                                                              *)
HeadsOf(x, Y) == {i \in 1..Len(x) : x[i].part = "head" /\ x[i].pkt.type \in Y}

AsksOf(q, Y) == {i \in 1..Len(q) : q[i].type \in Y}

Heads(x, Y) == Cardinality(HeadsOf(x, Y))

Asks(q, Y) == Cardinality(AsksOf(q, Y))

(* C is A and, behind m places, B. *)
Shifted(m, n, A, B, C) ==
  /\ A \subseteq 1..m /\ B \subseteq 1..n /\ C \subseteq 1..(m + n)
  /\ \A i \in 1..m : i \in C <=> i \in A
  /\ \A i \in 1..n : m + i \in C <=> i \in B

LEMMA CountShifted ==
  ASSUME NEW m \in Nat, NEW n \in Nat, NEW A, NEW B, NEW C, Shifted(m, n, A, B, C)
  PROVE  /\ Cardinality(A) \in Nat /\ Cardinality(B) \in Nat
         /\ Cardinality(C) = Cardinality(A) + Cardinality(B)
<1> DEFINE f == [i \in B |-> m + i]
           E == C \ A
<1>1. IsFiniteSet(A) /\ IsFiniteSet(B) /\ IsFiniteSet(C)
  <2>1. IsFiniteSet(1..m) /\ IsFiniteSet(1..n) /\ IsFiniteSet(1..(m + n))
    BY FS_Interval
  <2> QED
    BY <2>1, FS_Subset DEF Shifted
<1>2. A \subseteq C
  <2>1. \A i \in 1..m : i \in 1..(m + n)
    OBVIOUS
  <2> QED
    BY <2>1 DEF Shifted
<1>3. f \in [B -> E]
  <2> SUFFICES ASSUME NEW i \in B PROVE m + i \in E
    OBVIOUS
  <2>1. i \in 1..n
    BY DEF Shifted
  <2>2. m + i \in C
    BY <2>1 DEF Shifted
  <2>3. m + i \notin 1..m
    BY <2>1
  <2> QED
    BY <2>2, <2>3 DEF Shifted
<1>4. \A i, j \in B : i # j => f[i] # f[j]
  <2>1. \A i, j \in 1..n : i # j => m + i # m + j
    OBVIOUS
  <2> QED
    BY <2>1 DEF Shifted
<1>5. \A e \in E : \E i \in B : f[i] = e
  <2> SUFFICES ASSUME NEW e \in E PROVE \E i \in B : m + i = e
    OBVIOUS
  <2>1. e \in 1..(m + n) /\ e \in C /\ e \notin 1..m
    BY DEF Shifted
  <2>2. e - m \in 1..n /\ m + (e - m) = e
    BY <2>1
  <2>3. e - m \in B
    BY <2>1, <2>2 DEF Shifted
  <2> QED
    BY <2>2, <2>3
<1>6. f \in Bijection(B, E)
  <2>1. DOMAIN f = B
    OBVIOUS
  <2> HIDE DEF f, E
  <2>2. f \in Injection(B, E)
    <3>1. IsInjective(f)
      BY <1>4, <2>1 DEF IsInjective
    <3> QED
      BY <1>3, <3>1 DEF Injection
  <2>3. f \in Surjection(B, E)
    BY <1>3, <1>5 DEF Surjection
  <2> QED
    BY <2>2, <2>3 DEF Bijection
<1>7. IsFiniteSet(E) /\ Cardinality(E) = Cardinality(B)
  <2> HIDE DEF f, E
  <2>1. ExistsBijection(B, E)
    BY <1>6 DEF ExistsBijection
  <2> QED
    BY <1>1, <2>1, FS_Bijection
<1>8. C = A \cup E /\ A \cap E = {}
  BY <1>2
<1> HIDE DEF E
<1>9. Cardinality(A \cup E) = Cardinality(A) + Cardinality(E) - Cardinality(A \cap E)
  BY <1>1, <1>7, FS_Union
<1>10. Cardinality(A \cap E) = 0 /\ Cardinality(A) \in Nat /\ Cardinality(B) \in Nat
  BY <1>1, <1>8, FS_EmptySet, FS_CardinalityType
<1>11. Cardinality(C) = Cardinality(A \cup E)
  BY <1>8
<1> QED
  BY <1>7, <1>9, <1>10, <1>11

(* Of two sequences, one behind the other. *)
LEMMA CountJoin ==
  ASSUME NEW S, NEW x \in Seq(S), NEW y \in Seq(S), NEW Y
  PROVE  /\ Heads(x \o y, Y) = Heads(x, Y) + Heads(y, Y)
         /\ Asks(x \o y, Y) = Asks(x, Y) + Asks(y, Y)
         /\ Heads(x, Y) \in Nat /\ Asks(x, Y) \in Nat
<1> DEFINE m == Len(x)
           n == Len(y)
           z == x \o y
<1>1. /\ z \in Seq(S) /\ Len(z) = m + n /\ m \in Nat /\ n \in Nat
      /\ \A i \in 1..m : z[i] = x[i]
      /\ \A i \in 1..(m + n) : ~(i <= m) => z[i] = y[i - m]
  BY ConcatProperties, LenProperties
<1> HIDE DEF z, m, n
<1>2. \A i \in 1..n : z[m + i] = y[i] /\ m + i \in 1..(m + n)
  <2> SUFFICES ASSUME NEW i \in 1..n PROVE z[m + i] = y[i] /\ m + i \in 1..(m + n)
    OBVIOUS
  <2>1. m + i \in 1..(m + n) /\ ~(m + i <= m) /\ (m + i) - m = i
    BY <1>1
  <2> QED
    BY <1>1, <2>1
<1>3. \A i \in 1..m : i \in 1..(m + n)
  BY <1>1
<1>4. Shifted(m, n, HeadsOf(x, Y), HeadsOf(y, Y), HeadsOf(z, Y))
  BY <1>1, <1>2, <1>3 DEF Shifted, HeadsOf, m, n
<1>5. Shifted(m, n, AsksOf(x, Y), AsksOf(y, Y), AsksOf(z, Y))
  BY <1>1, <1>2, <1>3 DEF Shifted, AsksOf, m, n
<1>6. /\ Heads(z, Y) = Heads(x, Y) + Heads(y, Y) /\ Heads(x, Y) \in Nat
      /\ Asks(z, Y) = Asks(x, Y) + Asks(y, Y) /\ Asks(x, Y) \in Nat
  BY <1>1, <1>4, <1>5, CountShifted DEF Heads, Asks
<1> QED
  BY <1>6 DEF z

LEMMA NoHeads ==
  ASSUME NEW x, NEW Y, \A i \in 1..Len(x) : x[i].part # "head" \/ x[i].pkt.type \notin Y
  PROVE  Heads(x, Y) = 0
<1>1. HeadsOf(x, Y) = {}
  BY DEF HeadsOf
<1> QED
  BY <1>1, FS_EmptySet DEF Heads

(* A packet, or the front of one. *)
LEMMA OneHead ==
  ASSUME NEW x, Len(x) \in Nat \ {0}, x[1].part = "head",
         \A i \in 2..Len(x) : x[i].part # "head", NEW Y
  PROVE  Heads(x, Y) = IF x[1].pkt.type \in Y THEN 1 ELSE 0
<1>1. \A i \in 1..Len(x) : i = 1 \/ i \in 2..Len(x)
  OBVIOUS
<1>2. 1 \in 1..Len(x)
  OBVIOUS
<1>3. CASE x[1].pkt.type \in Y
  <2>1. HeadsOf(x, Y) = {1}
    BY <1>1, <1>2, <1>3 DEF HeadsOf
  <2> QED
    BY <1>3, <2>1, FS_Singleton DEF Heads
<1>4. CASE x[1].pkt.type \notin Y
  <2>1. HeadsOf(x, Y) = {}
    BY <1>1, <1>4 DEF HeadsOf
  <2> QED
    BY <1>4, <2>1, FS_EmptySet DEF Heads
<1> QED
  BY <1>3, <1>4

LEMMA NoAsks ==
  ASSUME NEW q, NEW Y, \A i \in 1..Len(q) : q[i].type \notin Y
  PROVE  Asks(q, Y) = 0
<1>1. AsksOf(q, Y) = {}
  BY DEF AsksOf
<1> QED
  BY <1>1, FS_EmptySet DEF Asks

LEMMA AllAsks ==
  ASSUME NEW q, Len(q) \in Nat, NEW Y, \A i \in 1..Len(q) : q[i].type \in Y
  PROVE  Asks(q, Y) = Len(q)
<1>1. AsksOf(q, Y) = 1..Len(q)
  BY DEF AsksOf
<1>2. Cardinality(1..Len(q)) = IF 1 > Len(q) THEN 0 ELSE Len(q) - 1 + 1
  BY FS_Interval
<1> QED
  BY <1>1, <1>2 DEF Asks

(* The packet of one request; the oldest of several leaves.                *)
LEMMA OneAsk ==
  ASSUME NEW q \in Seq(Requests), q # <<>>, NEW Y
  PROVE  /\ Asks(q, Y) = Asks(Tail(q), Y) + IF Head(q).type \in Y THEN 1 ELSE 0
         /\ \A b \in Seq(Requests) :
              Asks(Append(b, Head(q)), Y) = Asks(b, Y) + IF Head(q).type \in Y THEN 1 ELSE 0
<1> DEFINE h == Head(q)
           t == Tail(q)
           o == <<h>>
<1>1. h \in Requests /\ t \in Seq(Requests) /\ q = o \o t
  BY HeadAndTail
<1> HIDE DEF h, t
<1>2. o \in Seq(Requests) /\ Len(o) = 1 /\ \A i \in 1..Len(o) : o[i] = h
  BY <1>1
<1> HIDE DEF o
<1>3. Asks(o, Y) = IF h.type \in Y THEN 1 ELSE 0
  <2>1. CASE h.type \in Y
    <3>1. Len(o) \in Nat /\ \A i \in 1..Len(o) : o[i].type \in Y
      BY <1>2, <2>1
    <3>2. Asks(o, Y) = Len(o)
      BY <3>1, AllAsks
    <3> QED
      BY <1>2, <2>1, <3>2
  <2>2. CASE h.type \notin Y
    BY <1>2, <2>2, NoAsks
  <2> QED
    BY <2>1, <2>2
<1>4. Asks(o \o t, Y) = Asks(o, Y) + Asks(t, Y) /\ Asks(o, Y) \in Nat
  BY <1>1, <1>2, CountJoin
<1>5. Asks(t, Y) \in Nat
  BY <1>1, CountJoin
<1>6. ASSUME NEW b \in Seq(Requests)
      PROVE  Asks(Append(b, h), Y) = Asks(b, Y) + IF h.type \in Y THEN 1 ELSE 0
  <2>1. Append(b, h) = b \o o
    BY <1>1, AppendIsConcat DEF o
  <2>2. Asks(b \o o, Y) = Asks(b, Y) + Asks(o, Y)
    BY <1>2, CountJoin
  <2> QED
    BY <1>3, <2>1, <2>2
<1>7. Asks(q, Y) = Asks(t, Y) + IF h.type \in Y THEN 1 ELSE 0
  <2>1. Asks(q, Y) = Asks(o, Y) + Asks(t, Y)
    BY <1>1, <1>4
  <2> HIDE DEF h, t
  <2>2. Asks(t, Y) \in Nat /\ Asks(o, Y) \in Nat
    BY <1>4, <1>5
  <2> QED
    BY <1>3, <2>1, <2>2
<1> QED
  BY <1>6, <1>7 DEF h, t

(* What a session s with the stream x and the requests b on their way has  *)
(* to come.                                                                *)
Due(s, x, b, Y) == Heads(x, Y) + Asks(b, Y) + Asks(s.send_buffer, Y)

(* The packet the fsm takes has one head; the screens it leaves have none. *)
LEMMA FrontHeads ==
  ASSUME Dumb = {}, NEW P, \A p \in P : PacketOK(p), NEW s, NEW buf \in Seq(UnitsOf(P)),
         buf # <<>>, Framed(buf), HoldsPacket(buf), NEW r, Handled(s, buf, r),
         NEW k \in 1..Len(buf), r.recv_buffer = Drop(buf, k), NEW Y
  PROVE  Heads(SubSeq(buf, 1, k), Y) = IF First(buf).type \in Y THEN 1 ELSE 0
<1> DEFINE p == First(buf)
           f == SubSeq(buf, 1, k)
<1>1. /\ p \in P /\ Len(buf) \in Nat /\ buf[1].part = "head" /\ p = buf[1].pkt
      /\ PacketUnits(p) <= Len(buf) /\ Screens(p) \in Nat
  <2>1. First(buf) \in P /\ Head(buf) = buf[1] /\ Len(buf) \in Nat
    BY FirstTyped, LenProperties
  <2>2. Screens(p) \in Nat
    BY <2>1, ScreensAreNat
  <2> QED
    BY <2>1, <2>2 DEF HoldsPacket, First
<1>2. f \in Seq(UnitsOf(P)) /\ Len(f) = k /\ \A i \in 1..k : f[i] = buf[i]
  <2>1. k \in 0..Len(buf)
    BY <1>1
  <2> QED
    BY <2>1, FrontProperties
<1>3. \/ r.recv_buffer = Drop(buf, 2) /\ p.type # "end"
      \/ r.recv_buffer = Drop(buf, 1)
  <2>1. ~HandledDumb(s, buf, r)
    BY NoneDumb
  <2> QED
    BY <2>1 DEF Handled, HandledAuth, HandledPart, HandledTer, HandledIPTerm, HandledEnd,
                TookTerminal, Leads
<1>4. k = 1 \/ (k = 2 /\ p.type # "end")
  <2>1. \A j \in {1, 2} : j <= Len(buf) /\ Drop(buf, k) = Drop(buf, j) => k = j
    <3> SUFFICES ASSUME NEW j \in {1, 2}, j <= Len(buf), Drop(buf, k) = Drop(buf, j) PROVE k = j
      OBVIOUS
    <3>1. k \in Nat /\ j \in Nat /\ k <= Len(buf)
      BY <1>1
    <3>2. Len(Drop(buf, k)) = Len(buf) - k /\ Len(Drop(buf, j)) = Len(buf) - j
      BY <3>1, DropProperties
    <3> QED
      BY <1>1, <3>1, <3>2
  <2>2. p.type # "end" => 2 <= Len(buf)
    BY <1>1 DEF PacketUnits, HasData
  <2> QED
    BY <1>1, <1>3, <2>1, <2>2
<1>5. ASSUME NEW i \in 2..k PROVE f[i].part # "head"
  <2>1. k = 2 /\ i = 2 /\ HasData(p)
    BY <1>4 DEF HasData
  <2>2. 1 \in 1..Len(buf) /\ 2 \in 1..Len(buf) /\ 1 < 2 /\ 2 < 1 + PacketUnits(p)
    BY <1>1, <2>1 DEF PacketUnits
  <2>3. buf[2] = Unit("body", p)
    BY <1>1, <2>2 DEF Framed
  <2> QED
    BY <1>2, <2>1, <2>3 DEF Unit
<1>6. f[1] = buf[1] /\ k \in Nat \ {0}
  BY <1>1, <1>2
<1> HIDE DEF f, p
<1>7. Len(f) \in Nat \ {0} /\ f[1].part = "head" /\ (\A i \in 2..Len(f) : f[i].part # "head")
  BY <1>1, <1>2, <1>5, <1>6
<1>8. Heads(f, Y) = IF f[1].pkt.type \in Y THEN 1 ELSE 0
  BY <1>7, OneHead
<1> QED
  BY <1>1, <1>6, <1>8 DEF f, p

LEMMA ReadsDue ==
  ASSUME Dumb = {}, NEW P, Typed(P), Typed(P)', NEW c \in Conn, Framed(Stream(c)), Reads(c), NEW Y
  PROVE  /\ Heads(Stream(c), Y) = Heads(Stream(c)', Y) + IF First(Received(c)).type \in Y THEN 1 ELSE 0
         /\ Heads(Stream(c)', Y) \in Nat
<1> DEFINE U == UnitsOf(P[c])
           buf == Received(c)
           y == Stream(c)'
<1>1. PICK k : TakesFront(c, k)
  BY DEF Reads
<1>2. k \in 1..Len(buf) /\ sess'[c].recv_buffer = Drop(buf, k) /\ Stream(c) = SubSeq(buf, 1, k) \o y
  BY <1>1 DEF TakesFront
<1>3. HoldsPacket(buf) /\ buf # <<>> /\ Handled(sess[c], buf, sess'[c])
  BY DEF Reads
<1>4. buf \in Seq(U) /\ Framed(buf) /\ \A p \in P[c] : PacketOK(p)
  BY ReceivedTyped, ReceivedFramed DEF Typed
<1>5. y \in Seq(U)
  BY NextStreamTyped
<1> HIDE DEF buf, y
<1>6. Heads(SubSeq(buf, 1, k), Y) = IF First(buf).type \in Y THEN 1 ELSE 0
  BY <1>2, <1>3, <1>4, FrontHeads
<1>7. SubSeq(buf, 1, k) \in Seq(U)
  <2>1. k \in 0..Len(buf)
    BY <1>2, <1>4, LenProperties
  <2> QED
    BY <1>4, <2>1, FrontProperties
<1> DEFINE f == SubSeq(buf, 1, k)
<1>8. f \in Seq(U) /\ Stream(c) = f \o y
  BY <1>2, <1>7
<1> HIDE DEF U, f
<1>9. Heads(f \o y, Y) = Heads(f, Y) + Heads(y, Y) /\ Heads(y, Y) \in Nat
  BY <1>5, <1>8, CountJoin
<1> QED
  BY <1>6, <1>8, <1>9 DEF buf, y, f

(* The screens of a terminal leave the buffer. *)
LEMMA TookFront ==
  ASSUME ~GarbageHeader, NEW P, Typed(P), NEW c \in Conn, TookScreens(sess[c], sess'[c]),
         UNCHANGED <<sock, wire>>, ScreensAt(sess[c])
  PROVE  \E f \in Seq(UnitsOf(P[c])) : /\ Len(f) = sess[c].scr_num
                                       /\ \A i \in 1..Len(f) : f[i].part # "head"
                                       /\ Stream(c) = f \o Stream(c)'
<1> DEFINE U == UnitsOf(P[c])
           b == sess[c].recv_buffer
           n == sess[c].scr_num
           v == sock[c] \o wire[c]
           f == SubSeq(b, 1, n)
           g == Drop(b, n)
           y == Stream(c)'
<1>1. b \in Seq(U) /\ n \in Nat /\ n <= Len(b) /\ v \in Seq(U)
  <2>1. b \in Seq(U) /\ n \in Nat /\ sock[c] \in Seq(U) /\ wire[c] \in Seq(U)
    BY DEF Typed, SessionTyped
  <2>2. v \in Seq(U)
    BY <2>1, ConcatProperties
  <2> QED
    BY <2>1, <2>2 DEF ScreensAt
<1>2. n \in 0..Len(b)
  BY <1>1, LenProperties
<1>3. f \in Seq(U) /\ Len(f) = n /\ (\A i \in 1..n : f[i] = b[i]) /\ b = f \o g
  BY <1>1, <1>2, FrontProperties, FrontAndRest
<1>4. g \in Seq(U)
  BY <1>1, DropProperties
<1>5. sess'[c].recv_buffer = g
  <2>1. \/ sess'[c].recv_buffer = Drop(b, n)
        \/ ~(n <= Len(b))
    BY DEF TookScreens, Leads
  <2> QED
    BY <1>1, <2>1
<1>6. Stream(c) = b \o v /\ y = g \o v
  BY <1>5 DEF Stream
<1>7. \A i \in 1..Len(f) : f[i].part # "head"
  BY <1>3 DEF ScreensAt
<1> HIDE DEF b, v, f, g, y, U, n
<1>8. Associate(f, g, v)
  BY <1>1, <1>3, <1>4, Associates, Zenon
<1>9. Stream(c) = f \o y
  BY <1>3, <1>6, <1>8, Zenon DEF Associate
<1> QED
  BY <1>3, <1>7, <1>9 DEF U, y, n

LEMMA TookDue ==
  ASSUME ~GarbageHeader, NEW P, Typed(P), NEW c \in Conn, TookScreens(sess[c], sess'[c]),
         UNCHANGED <<sock, wire>>, ScreensAt(sess[c]), Typed(P)', NEW Y
  PROVE  Heads(Stream(c), Y) = Heads(Stream(c)', Y)
<1> DEFINE U == UnitsOf(P[c])
           y == Stream(c)'
<1>1. PICK f \in Seq(U) : (\A i \in 1..Len(f) : f[i].part # "head") /\ Stream(c) = f \o y
  BY TookFront
<1>2. y \in Seq(U)
  BY NextStreamTyped
<1> HIDE DEF U, y
<1>3. Heads(f, Y) = 0
  BY <1>1, NoHeads
<1>4. Heads(f \o y, Y) = Heads(f, Y) + Heads(y, Y) /\ Heads(y, Y) \in Nat
  BY <1>2, CountJoin
<1> QED
  BY <1>1, <1>3, <1>4 DEF y

(* A request is answered: its packet is behind the others.                 *)
LEMMA AnswerDue ==
  ASSUME NEW P, Typed(P), NEW c \in Conn, sock' = sock, sess' = sess,
         NEW x \in P[c], wire'[c] = wire[c] \o Whole(x), NEW Y
  PROVE  /\ Heads(Stream(c)', Y) = Heads(Stream(c), Y) + IF x.type \in Y THEN 1 ELSE 0
         /\ Heads(Stream(c), Y) \in Nat
<1> DEFINE U == UnitsOf(P[c])
           b == sess[c].recv_buffer
           s == sock[c]
           w == wire[c]
           v == Whole(x)
           a == Stream(c)
<1>1. PacketOK(x)
  BY DEF Typed
<1>2. /\ v \in Seq(U) /\ Len(v) = PacketUnits(x) /\ v[1] = Unit("head", x)
      /\ \A i \in 2..PacketUnits(x) : v[i] = Unit(IF i = 2 THEN "body" ELSE "scr", x)
  BY <1>1, WholeUnits
<1>3. b \in Seq(U) /\ s \in Seq(U) /\ w \in Seq(U) /\ a \in Seq(U)
  BY StreamTyped DEF Typed, SessionTyped
<1>4. Stream(c)' = b \o (s \o (w \o v)) /\ a = b \o (s \o w)
  BY DEF Stream
<1>5. Heads(v, Y) = IF x.type \in Y THEN 1 ELSE 0
  <2>1. PacketUnits(x) \in Nat \ {0}
    BY <1>1, ScreensAreNat DEF PacketUnits
  <2>2. v[1].part = "head" /\ v[1].pkt = x
    BY <1>2 DEF Unit
  <2>3. ASSUME NEW i \in 2..Len(v) PROVE v[i].part # "head"
    <3>1. v[i] = Unit("body", x) \/ v[i] = Unit("scr", x)
      BY <1>2
    <3> QED
      BY <3>1 DEF Unit
  <2>4. Len(v) \in Nat \ {0}
    BY <1>2, <2>1
  <2> HIDE DEF v
  <2>5. Heads(v, Y) = IF v[1].pkt.type \in Y THEN 1 ELSE 0
    BY <2>2, <2>3, <2>4, OneHead
  <2> QED
    BY <2>2, <2>5
<1> HIDE DEF U, b, s, w, v, a
<1>6. Longer(b, s, w, v)
  BY <1>2, <1>3, StreamEnd, Zenon
<1>7. Stream(c)' = a \o v
  BY <1>4, <1>6, Zenon DEF Longer
<1>8. Heads(a \o v, Y) = Heads(a, Y) + Heads(v, Y) /\ Heads(a, Y) \in Nat
  BY <1>2, <1>3, CountJoin
<1> QED
  BY <1>5, <1>7, <1>8 DEF a

(* Nothing is to come. *)
LEMMA NothingDue ==
  ASSUME NEW x, NEW b, NEW q, Reach(UnitKeys(x), AskKeys(b), AskKeys(q)) = {},
         NEW m \in Nat, Len(x) = m, NEW n \in Nat, Len(b) = n, NEW l \in Nat, Len(q) = l
  PROVE  Heads(x, {"ipterm"}) = 0 /\ Asks(b, {"ipterm"}) = 0 /\ Asks(q, {"ipterm"}) = 0
<1>1. /\ Len(UnitKeys(x)) = m /\ \A i \in 1..m : UnitKeys(x)[i] = UnitKey(x[i])
      /\ Len(AskKeys(b)) = n /\ \A i \in 1..n : AskKeys(b)[i] = AskKey(b[i])
      /\ Len(AskKeys(q)) = l /\ \A i \in 1..l : AskKeys(q)[i] = AskKey(q[i])
  BY DEF UnitKeys, AskKeys
<1>2. All(UnitKeys(x)) = {} /\ All(AskKeys(b)) = {} /\ All(AskKeys(q)) = {}
  BY DEF Reach
<1>3. /\ \A i \in 1..m : UnitKey(x[i]) = {}
      /\ \A i \in 1..n : AskKey(b[i]) = {}
      /\ \A i \in 1..l : AskKey(q[i]) = {}
  BY <1>1, <1>2 DEF All
<1>4. \A i \in 1..m : x[i].part # "head" \/ x[i].pkt.type \notin {"ipterm"}
  BY <1>3 DEF UnitKey
<1>5. (\A i \in 1..n : b[i].type \notin {"ipterm"}) /\ (\A i \in 1..l : q[i].type \notin {"ipterm"})
  BY <1>3 DEF AskKey
<1> QED
  BY <1>4, <1>5, NoHeads, NoAsks

IPTerm == {"ipterm"}

(* The requests for the terminals of a device. *)
LEMMA TtyAsks ==
  ASSUME Dumb = {}, NEW ttys \in SUBSET Nat, IsFiniteSet(ttys)
  PROVE  /\ Asks(TtyRequests(ttys), IPTerm) = Cardinality(ttys)
         /\ \A i \in 1..Len(TtyRequests(ttys)) : TtyRequests(ttys)[i].type = "ipterm"
<1> DEFINE q == TtyRequests(ttys)
           s == Sorted(ttys)
           e == [i \in 1..Len(s) |-> RequestOf("ipterm", s[i])]
<1>1. /\ Len(s) \in Nat /\ Len(s) = Cardinality(ttys)
      /\ s \in [1..Len(s) -> ttys]
  BY SortedOrders
<1>2. q = e
  <2>1. ttys \cap Dumb = {} /\ ttys \ Dumb = ttys
    OBVIOUS
  <2>2. Len(Sorted({})) = 0
    <3>1. {} \in SUBSET Nat /\ IsFiniteSet({}) /\ Cardinality({}) = 0
      BY FS_EmptySet
    <3> QED
      BY <3>1, SortedOrders
  <2>3. [i \in 1..0 |-> RequestOf("dumbterm", Sorted({})[i])] = <<>>
    OBVIOUS
  <2>4. q = <<>> \o e
    BY <2>1, <2>2, <2>3 DEF TtyRequests
  <2>5. e \in Seq({e[i] : i \in 1..Len(s)})
    <3> HIDE DEF s
    <3> QED
      BY <1>1
  <2> HIDE DEF e
  <2> QED
    BY <2>4, <2>5, ConcatEmptySeq
<1>3. Len(q) = Len(s) /\ \A i \in 1..Len(q) : q[i].type = "ipterm"
  BY <1>1, <1>2 DEF RequestOf
<1> HIDE DEF q, s, e
<1>4. Len(q) \in Nat /\ \A i \in 1..Len(q) : q[i].type \in IPTerm
  BY <1>1, <1>3 DEF IPTerm
<1>5. Asks(q, IPTerm) = Len(q)
  BY <1>4, AllAsks
<1> QED
  BY <1>1, <1>3, <1>5 DEF q

(* While the device is there, no terminal is lost: every one is either     *)
(* counted or still to come.                                               *)
Settled(s, x, b, p) == s.state \in Late => Due(s, x, b, IPTerm) + s.tty_cnt = Cardinality(p.ttys)

Account == \A c \in Conn : peer[c] = "open" => Settled(sess[c], Stream(c), s2c[c], prof[c])

LEMMA SmallAsks ==
  ASSUME NEW Y
  PROVE  Asks(<<>>, Y) = 0 /\ \A r : Asks(<<r>>, Y) = IF r.type \in Y THEN 1 ELSE 0
<1>1. Asks(<<>>, Y) = 0
  <2>1. \A i \in 1..Len(<<>>) : <<>>[i].type \notin Y
    OBVIOUS
  <2> QED
    BY <2>1, NoAsks
<1>2. ASSUME NEW r PROVE Asks(<<r>>, Y) = IF r.type \in Y THEN 1 ELSE 0
  <2> DEFINE q == <<r>>
  <2>1. Len(q) = 1 /\ q[1] = r /\ \A i \in 1..Len(q) : q[i] = r
    OBVIOUS
  <2> HIDE DEF q
  <2>2. CASE r.type \in Y
    <3>1. Len(q) \in Nat /\ \A i \in 1..Len(q) : q[i].type \in Y
      BY <2>1, <2>2
    <3>2. Asks(q, Y) = Len(q)
      BY <3>1, AllAsks
    <3> QED
      BY <2>1, <2>2, <3>2 DEF q
  <2>3. CASE r.type \notin Y
    <3>1. \A i \in 1..Len(q) : q[i].type \notin Y
      BY <2>1, <2>3
    <3>2. Asks(q, Y) = 0
      BY <3>1, NoAsks
    <3> QED
      BY <2>3, <3>2 DEF q
  <2> QED
    BY <2>2, <2>3
<1> QED
  BY <1>1, <1>2

(* A handler asks for reqs. *)
LEMMA LeadsDue ==
  ASSUME NEW s, NEW r, NEW st, NEW rest, NEW reqs \in Seq(Requests), s.send_buffer \in Seq(Requests),
         Leads(s, r, st, rest, reqs), NEW Y
  PROVE  /\ Asks(r.send_buffer, Y) = Asks(s.send_buffer, Y) + Asks(reqs, Y)
         /\ Asks(s.send_buffer, Y) \in Nat /\ Asks(reqs, Y) \in Nat
<1> DEFINE q == s.send_buffer
<1>1. q \in Seq(Requests) /\ r.send_buffer = q \o reqs
  BY DEF Leads
<1> HIDE DEF q
<1>2. Asks(q \o reqs, Y) = Asks(q, Y) + Asks(reqs, Y) /\ Asks(q, Y) \in Nat
  BY <1>1, CountJoin
<1>3. Asks(reqs, Y) \in Nat
  BY CountJoin
<1> QED
  BY <1>1, <1>2, <1>3 DEF q

LEMMA LeadsSmall ==
  ASSUME NEW s, NEW r, NEW st, NEW rest, s.send_buffer \in Seq(Requests),
         NEW reqs \in {<<>>, <<Request("end")>>}, Leads(s, r, st, rest, reqs)
  PROVE  Asks(r.send_buffer, IPTerm) = Asks(s.send_buffer, IPTerm)
<1>1. reqs \in Seq(Requests)
  BY SmallRequests
<1>2. Asks(reqs, IPTerm) = 0
  <2>1. Asks(<<>>, IPTerm) = 0 /\ Asks(<<Request("end")>>, IPTerm) = 0
    BY SmallAsks DEF Request, IPTerm
  <2> QED
    BY <2>1
<1>3. /\ Asks(r.send_buffer, IPTerm) = Asks(s.send_buffer, IPTerm) + Asks(reqs, IPTerm)
      /\ Asks(s.send_buffer, IPTerm) \in Nat
  BY <1>1, LeadsDue
<1> QED
  BY <1>2, <1>3

LEMMA ReadsAccount ==
  ASSUME Dumb = {}, NEW P, Typed(P), Typed(P)', NEW c \in Conn, Framed(Stream(c)), Reads(c),
         NEW p \in Profiles, Ordered(c, p.ttys), Counting(sess[c], p), \A x \in P[c] : ReplyOf(x, p),
         Settled(sess[c], Stream(c), s2c[c], p)
  PROVE  Settled(sess'[c], Stream(c)', s2c'[c], p)
<1> DEFINE s == sess[c]
           r == sess'[c]
           buf == Received(c)
           x == Stream(c)
           y == Stream(c)'
           b == s2c[c]
           q == s.send_buffer
           t == First(buf).type
<1>1. /\ Heads(x, IPTerm) = Heads(y, IPTerm) + IF t \in IPTerm THEN 1 ELSE 0
      /\ Heads(y, IPTerm) \in Nat
  BY ReadsDue
<1>2. s2c'[c] = b /\ Handled(s, buf, r) /\ buf # <<>>
  BY DEF Reads
<1>3. b \in Seq(Requests) /\ q \in Seq(Requests) /\ buf \in Seq(UnitsOf(P[c])) /\ x \in Seq(UnitsOf(P[c]))
  BY ReceivedTyped, StreamTyped DEF Typed, SessionTyped
<1>4. First(buf) \in P[c]
  BY <1>2, <1>3, FirstTyped
<1>5. /\ Asks(b, IPTerm) \in Nat /\ Asks(q, IPTerm) \in Nat /\ s.tty_cnt \in Nat
      /\ Cardinality(p.ttys) \in Nat /\ IsFiniteSet(p.ttys) /\ p.ttys \in SUBSET Nat
  BY <1>3, CountJoin, ProfilesAssumption, FS_CardinalityType DEF Typed, SessionTyped
<1>6. Keyed(s, x, b, p.ttys) /\ Counting(s, p) /\ Settled(s, x, b, p)
  BY DEF Ordered
<1>7. Settled(r, y, b, p)
  <2> HIDE DEF s, r, buf, x, y, b, t
  <2>1. SUFFICES ASSUME r.state \in Late PROVE Due(r, y, b, IPTerm) + r.tty_cnt = Cardinality(p.ttys)
    BY DEF Settled
  <2>2. CASE HandledTer(s, buf, r)
    <3>1. /\ s.state = "WaitTermInfo" /\ t = "ter" /\ r.tty_cnt = s.tty_cnt
          /\ Leads(s, r, "WaitIPTermInfo", Drop(buf, 2), TtyRequests(p.ttys))
      BY <1>4, <2>2 DEF HandledTer, ReplyOf, t
    <3>2. s.tty_cnt = 0
      BY <1>6, <3>1 DEF Counting, Late
    <3>3. Reach(UnitKeys(x), AskKeys(b), AskKeys(q)) = {}
      BY <1>6, <3>1 DEF Keyed, Fits, q
    <3>4. Len(x) \in Nat /\ Len(b) \in Nat /\ Len(q) \in Nat
      BY <1>3, LenProperties
    <3>5. Heads(x, IPTerm) = 0 /\ Asks(b, IPTerm) = 0 /\ Asks(q, IPTerm) = 0
      <4> HIDE DEF q
      <4> QED
        BY <3>3, <3>4, NothingDue DEF IPTerm
    <3>6. TtyRequests(p.ttys) \in Seq(Requests) /\ Asks(TtyRequests(p.ttys), IPTerm) = Cardinality(p.ttys)
      BY <1>5, TtyRequestsTyped, TtyAsks
    <3>7. Asks(r.send_buffer, IPTerm) = Asks(q, IPTerm) + Asks(TtyRequests(p.ttys), IPTerm)
      BY <1>3, <3>1, <3>6, LeadsDue
    <3>8. Heads(y, IPTerm) = 0
      BY <1>1, <3>1, <3>5 DEF IPTerm
    <3> HIDE DEF q
    <3> QED
      BY <1>5, <3>1, <3>2, <3>5, <3>6, <3>7, <3>8 DEF Due
  <2>3. CASE HandledIPTerm(s, buf, r)
    <3>1. /\ s.state = "WaitIPTermInfo" /\ t = "ipterm" /\ r.tty_cnt = s.tty_cnt + 1
          /\ \E st : \E reqs \in {<<>>, <<Request("end")>>} : Leads(s, r, st, Drop(buf, 2), reqs)
      BY <2>3 DEF HandledIPTerm, TookTerminal, t
    <3>2. Asks(r.send_buffer, IPTerm) = Asks(q, IPTerm)
      BY <1>3, <3>1, LeadsSmall
    <3>3. Due(s, x, b, IPTerm) + s.tty_cnt = Cardinality(p.ttys)
      BY <1>6, <3>1 DEF Settled, Late
    <3>4. Heads(x, IPTerm) = Heads(y, IPTerm) + 1
      BY <1>1, <3>1 DEF IPTerm
    <3>5. Heads(x, IPTerm) + Asks(b, IPTerm) + Asks(q, IPTerm) + s.tty_cnt = Cardinality(p.ttys)
      BY <3>3 DEF Due
    <3>6. Heads(y, IPTerm) + Asks(b, IPTerm) + Asks(q, IPTerm) + (s.tty_cnt + 1) = Cardinality(p.ttys)
      <4> HIDE DEF q
      <4> QED
        BY <1>1, <1>5, <3>4, <3>5
    <3>7. Due(r, y, b, IPTerm) = Heads(y, IPTerm) + Asks(b, IPTerm) + Asks(q, IPTerm)
      BY <3>2 DEF Due
    <3> QED
      BY <3>1, <3>6, <3>7
  <2>4. CASE HandledEnd(s, buf, r)
    <3>1. /\ s.state = "End" /\ t = "end" /\ r.tty_cnt = s.tty_cnt
          /\ Leads(s, r, "End", Drop(buf, 1), <<>>)
      BY <2>4 DEF HandledEnd, SameCount, t
    <3>2. Asks(r.send_buffer, IPTerm) = Asks(q, IPTerm)
      BY <1>3, <3>1, LeadsSmall
    <3>3. Due(s, x, b, IPTerm) + s.tty_cnt = Cardinality(p.ttys)
      BY <1>6, <3>1 DEF Settled, Late
    <3>4. Heads(x, IPTerm) = Heads(y, IPTerm)
      BY <1>1, <3>1 DEF IPTerm
    <3> QED
      BY <1>1, <1>5, <3>1, <3>2, <3>3, <3>4 DEF Due
  <2>5. CASE HandledAuth(s, buf, r) \/ HandledPart(s, buf, r)
    <3>1. r.state \notin Late
      BY <2>5 DEF HandledAuth, HandledPart, Leads, EarlyNext, Late
    <3> QED
      BY <2>1, <3>1
  <2>6. ~HandledDumb(s, buf, r)
    BY <1>2, <1>3, NoneDumb DEF Typed
  <2> QED
    BY <1>2, <2>2, <2>3, <2>4, <2>5, <2>6 DEF Handled
<1> QED
  BY <1>2, <1>7

LEMMA WritesDue ==
  ASSUME NEW P, Typed(P), NEW c \in Conn, Writes(c), peer'[c] = "open", NEW Y
  PROVE  /\ UNCHANGED Stream(c)
         /\ Due(sess'[c], Stream(c)', s2c'[c], Y) = Due(sess[c], Stream(c), s2c[c], Y)
<1> DEFINE b == s2c[c]
           q == sess[c].send_buffer
           x == Stream(c)
<1>1. UNCHANGED Stream(c)
  BY DEF Writes, Stream
<1>2. /\ q # <<>> /\ sess'[c].send_buffer = Tail(q) /\ s2c'[c] = Append(b, Head(q))
  BY DEF Writes
<1>3. b \in Seq(Requests) /\ q \in Seq(Requests) /\ x \in Seq(UnitsOf(P[c]))
  BY StreamTyped DEF Typed, SessionTyped
<1> HIDE DEF b, q, x
<1>4. Tail(q) \in Seq(Requests)
  BY <1>2, <1>3, HeadAndTail
<1>5. Heads(x, Y) \in Nat /\ Asks(b, Y) \in Nat /\ Asks(q, Y) \in Nat /\ Asks(Tail(q), Y) \in Nat
  BY <1>3, <1>4, CountJoin
<1>6. /\ Asks(q, Y) = Asks(Tail(q), Y) + IF Head(q).type \in Y THEN 1 ELSE 0
      /\ Asks(Append(b, Head(q)), Y) = Asks(b, Y) + IF Head(q).type \in Y THEN 1 ELSE 0
  BY <1>2, <1>3, OneAsk
<1>7. Heads(x, Y) + Asks(Append(b, Head(q)), Y) + Asks(Tail(q), Y) = Heads(x, Y) + Asks(b, Y) + Asks(q, Y)
  BY <1>5, <1>6
<1> QED
  BY <1>1, <1>2, <1>7 DEF Due, b, q, x

LEMMA SettlesAccount ==
  ASSUME ~GarbageHeader, NEW P, Typed(P), Typed(P)', NEW c \in Conn, Settles(c),
         sess[c].is_scr => ScreensAt(sess[c]), sess[c].state = "WaitScrInfo" => sess[c].is_scr,
         NEW p \in Profiles, Settled(sess[c], Stream(c), s2c[c], p)
  PROVE  Settled(sess'[c], Stream(c)', s2c'[c], p)
<1> DEFINE s == sess[c]
           r == sess'[c]
           x == Stream(c)
           y == Stream(c)'
           b == s2c[c]
<1>1. s2c'[c] = b /\ (Greeted(s, r) \/ TookScreens(s, r))
  BY DEF Settles
<1>2. CASE Greeted(s, r)
  BY <1>1, <1>2 DEF Greeted, Leads, Settled, Late
<1>3. CASE TookScreens(s, r)
  <2>1. Heads(x, IPTerm) = Heads(y, IPTerm)
    BY <1>3, TookDue DEF TookScreens, Settles
  <2>2. s.send_buffer \in Seq(Requests)
    BY DEF Typed, SessionTyped
  <2>3. Settled(s, x, b, p)
    OBVIOUS
  <2> HIDE DEF s, r, x, y, b
  <2>4. /\ s.state = "WaitScrInfo" /\ r.tty_cnt = s.tty_cnt
        /\ \E st, rest : \E reqs \in {<<>>, <<Request("end")>>} : Leads(s, r, st, rest, reqs)
    BY <1>3 DEF TookScreens, SameCount
  <2>5. Asks(r.send_buffer, IPTerm) = Asks(s.send_buffer, IPTerm)
    BY <2>2, <2>4, LeadsSmall
  <2>6. Due(s, x, b, IPTerm) + s.tty_cnt = Cardinality(p.ttys)
    BY <2>3, <2>4 DEF Settled, Late
  <2>7. Settled(r, y, b, p)
    BY <2>1, <2>4, <2>5, <2>6 DEF Settled, Due
  <2> QED
    BY <1>1, <2>7 DEF r, y
<1> QED
  BY <1>1, <1>2, <1>3

(* A device does not report itself again. *)
LEMMA ReportedOnce ==
  ASSUME NEW P, Typed(P), NEW c \in Conn, NEW T, 0 \notin T, Ordered(c, T), sess[c].state \in Late,
         Received(c) # <<>>, HoldsPacket(Received(c))
  PROVE  First(Received(c)).type \notin {"auth", "version"}
<1> DEFINE U == UnitsOf(P[c])
           held == sess[c].recv_buffer
           here == sock[c]
           w == wire[c]
           k == Taken(c)
           buf == Received(c)
           f == SubSeq(buf, 1, 1)
           z == Drop(buf, 1) \o (Drop(here, k) \o w)
           x == Stream(c)
<1>1. held \in Seq(U) /\ here \in Seq(U) /\ w \in Seq(U) /\ k \in 0..Len(here) /\ buf \in Seq(U)
  BY ReceivedTyped DEF Typed, SessionTyped
<1>2. buf = held \o SubSeq(here, 1, k) /\ x = held \o (here \o w)
  BY DEF Received, Stream
<1>3. buf # <<>> /\ buf[1].part = "head"
  <2>1. Head(buf) = buf[1]
    OBVIOUS
  <2> QED
    BY <2>1 DEF HoldsPacket
<1>4. Fits(sess[c], Reach(UnitKeys(x), AskKeys(s2c[c]), AskKeys(sess[c].send_buffer)), T)
  BY DEF Ordered, Keyed
<1>5. All(UnitKeys(x)) \subseteq T
  BY <1>4 DEF Fits, Reach
<1> HIDE DEF U, held, here, w, k, buf, x
<1>6. Len(buf) \in Nat /\ 1 \in 0..Len(buf) /\ 1 \in Nat /\ Len(here) \in Nat
  BY <1>1, <1>3, LenProperties, EmptySeq
<1>7. x = f \o z
  <2>1. 1 \in 0..Len(held \o SubSeq(here, 1, k))
    BY <1>2, <1>6
  <2>2. CutAt(held, here, w, k, 1)
    BY <1>1, <2>1, ReadCut
  <2> QED
    BY <1>2, <2>2, Zenon DEF CutAt
<1>8. f \in Seq(U) /\ Len(f) = 1 /\ f[1] = buf[1]
  BY <1>1, <1>6, FrontProperties
<1>9. z \in Seq(U)
  <2>1. k \in Nat
    BY <1>1, <1>6
  <2>2. Drop(buf, 1) \in Seq(U) /\ Drop(here, k) \in Seq(U)
    BY <1>1, <1>6, <2>1, DropProperties
  <2> QED
    BY <1>1, <2>2, ConcatProperties
<1> HIDE DEF f, z
<1>10. Len(x) = 1 + Len(z) /\ Len(z) \in Nat /\ x[1] = buf[1]
  <2>1. Len(f \o z) = Len(f) + Len(z) /\ Len(z) \in Nat
    BY <1>8, <1>9, ConcatProperties, LenProperties
  <2>2. \A i \in 1..(Len(f) + Len(z)) : i <= Len(f) => (f \o z)[i] = f[i]
    BY <1>8, <1>9, ConcatProperties
  <2>3. 1 \in 1..(Len(f) + Len(z)) /\ 1 <= Len(f)
    BY <1>8, <2>1
  <2> QED
    BY <1>7, <1>8, <2>1, <2>2, <2>3
<1>11. UnitKeys(x)[1] \subseteq All(UnitKeys(x))
  <2>1. 1 \in 1..Len(x) /\ Len(UnitKeys(x)) = Len(x)
    BY <1>10 DEF UnitKeys
  <2> QED
    BY <2>1 DEF All
<1>12. UnitKeys(x)[1] = UnitKey(buf[1])
  BY <1>10 DEF UnitKeys
<1>13. 0 \notin UnitKey(buf[1])
  BY <1>5, <1>11, <1>12
<1>14. First(buf) = buf[1].pkt
  <2>1. Head(buf) = buf[1]
    OBVIOUS
  <2> QED
    BY <2>1 DEF First
<1> QED
  BY <1>3, <1>13, <1>14 DEF UnitKey, buf

LEMMA ServerAccounts ==
  ASSUME Dumb = {}, ~GarbageHeader, NEW P, Typed(P), Shape, Lists, ServerNext, ScreensWhole, NEW c \in Conn,
         Framed(Stream(c)), NEW p \in Profiles, \A x \in P[c] : ReplyOf(x, p) /\ x.type # "dumbterm",
         c \in Serving => Ordered(c, p.ttys), Counting(sess[c], p), peer'[c] = "open",
         Settled(sess[c], Stream(c), s2c[c], p)
  PROVE  Settled(sess'[c], Stream(c)', s2c'[c], p)
<1>1. Typed(P)'
  BY ServerTyped
<1>2. sess[c].state \in Late => c \in Serving
  BY DEF Late, Lists, Serving, NewClient
<1>3. CASE Reads(c)
  <2>1. CASE c \in Serving
    <3>1. Ordered(c, p.ttys)
      BY <2>1
    <3> QED
      BY <1>1, <1>3, <3>1, ReadsAccount
  <2>2. CASE c \notin Serving
    <3>1. sess[c] = NewClient /\ NewClient.state = "Acceptance"
      BY <2>2 DEF Lists, Serving, NewClient
    <3>2. sess[c].state = "Acceptance"
      BY <3>1
    <3>3. FALSE
      BY <1>3, <3>2 DEF Reads, Handled, HandledAuth, HandledPart, HandledTer, HandledIPTerm, HandledDumb, HandledEnd, EarlyStates
    <3> QED
      BY <3>3
  <2> QED
    BY <2>1, <2>2
<1>4. CASE Writes(c)
  <2>1. /\ sess'[c].state = sess[c].state /\ sess'[c].tty_cnt = sess[c].tty_cnt
    BY <1>4 DEF Writes, SameCount
  <2>2. Due(sess'[c], Stream(c)', s2c'[c], IPTerm) = Due(sess[c], Stream(c), s2c[c], IPTerm)
    BY <1>4, WritesDue
  <2> QED
    BY <2>1, <2>2 DEF Settled
<1>5. CASE Settles(c)
  <2>1. sess[c].is_scr => ScreensAt(sess[c])
    BY DEF ScreensWhole, ScreensAt
  <2>2. sess[c].state = "WaitScrInfo" => sess[c].is_scr
    BY DEF Shape, ClientOK
  <2> QED
    BY <1>1, <1>5, <2>1, <2>2, SettlesAccount
<1>6. CASE Removes(c)
  <2>1. sess'[c] = NewClient /\ NewClient.state = "Acceptance"
    BY <1>6 DEF Removes, NewClient
  <2> QED
    BY <2>1 DEF Settled, Late
<1>7. CASE UNCHANGED <<sess[c], s2c[c], sock[c], wire[c]>>
  <2>1. UNCHANGED Stream(c)
    BY <1>7 DEF Stream
  <2> QED
    BY <1>7, <2>1
<1>8. CASE Rests
  <2>1. CASE UNCHANGED <<sock, wire>>
    BY <1>7, <1>8, <2>1 DEF Rests
  <2>2. ASSUME NEW d \in Conn, OnWildPointer(d), d # c
        PROVE  UNCHANGED <<sock[c], wire[c]>>
    <3>1. /\ sock' = [sock EXCEPT ![d] = Drop(@, Taken(d))] /\ wire' = wire
      BY <2>2 DEF OnWildPointer, Receive
    <3>2. sock = [e \in Conn |-> sock[e]]
      BY DEF Typed
    <3> QED
      BY <2>2, <3>1, <3>2
  <2>3. CASE OnWildPointer(c)
    <3>1. /\ HoldsPacket(Received(c)) /\ ~RecvFails(c) /\ First(Received(c)).type \in Undecoded
          /\ sess' = sess
      BY <2>3 DEF OnWildPointer
    <3>2. Received(c) # <<>> /\ Received(c) \in Seq(UnitsOf(P[c]))
      BY <3>1, ReceivedTyped
    <3>3. First(Received(c)) \in P[c]
      BY <3>2, FirstTyped
    <3>4. First(Received(c)).type = "version"
      BY <3>1, <3>3 DEF Undecoded
    <3>5. 0 \notin p.ttys
      BY ProfilesAssumption
    <3>6. sess[c].state \notin Late
      BY <1>2, <3>1, <3>2, <3>4, <3>5, ReportedOnce
    <3> QED
      BY <3>1, <3>6 DEF Settled
  <2> QED
    BY <1>7, <1>8, <2>1, <2>2, <2>3 DEF Rests
<1>9. ASSUME NEW d \in Conn, d # c, Reads(d) \/ Writes(d) \/ Settles(d) \/ Removes(d)
      PROVE  UNCHANGED <<sess[c], s2c[c], sock[c], wire[c]>>
  BY <1>9 DEF Reads, Writes, Settles, Removes, Others, Apart
<1> QED
  BY <1>3, <1>4, <1>5, <1>6, <1>7, <1>8, <1>9, ServerDoes

(* The answer to a request takes its place. *)
LEMMA AnswerAccount ==
  ASSUME NEW P, NEW D, Devices(P, D), Distinct, Typed(P), NEW c \in Conn, Answer(c),
         Settled(sess[c], Stream(c), s2c[c], prof[c])
  PROVE  Settled(sess[c], Stream(c)', s2c'[c], prof[c])
<1>1. PICK r \in RandomNums :
        wire' = [wire EXCEPT ![c] = wire[c] \o Blocks(Reply(prof[c], Head(s2c[c]), r))]
  BY DEF Answer
<1> DEFINE b == s2c[c]
           q == Head(b)
           x == Reply(prof[c], q, r)
           s == sess[c]
<1>2. /\ b \in Seq(Requests) /\ b # <<>> /\ q \in Requests /\ s.send_buffer \in Seq(Requests)
      /\ s2c' = [s2c EXCEPT ![c] = Tail(b)] /\ s2c = [e \in Conn |-> s2c[e]]
      /\ wire = [e \in Conn |-> wire[e]] /\ sock' = sock /\ sess' = sess
  BY DEF Answer, Typed, SessionTyped, serverVars
<1>3. x \in P[c] /\ prof[c] \in Profiles
  BY <1>2 DEF Devices, PacketsOf, Distinct
<1>4. x.type \in {q.type, "version"} /\ (q.type # "auth" => x.type = q.type)
  BY <1>2, <1>3, ReplyKey
<1>5. x.type = "ipterm" <=> q.type = "ipterm"
  BY <1>4
<1>6. wire'[c] = wire[c] \o Whole(x)
  <2>1. Blocks(x) = Whole(x)
    BY DEF Blocks, Whole
  <2>2. wire' = [wire EXCEPT ![c] = wire[c] \o Whole(x)]
    BY <1>1, <2>1
  <2> QED
    BY <1>2, <2>2, Exchanged, Zenon
<1>7. s2c'[c] = Tail(b)
  BY <1>2, Exchanged, Zenon
<1> HIDE DEF x
<1>8. /\ Heads(Stream(c)', IPTerm) = Heads(Stream(c), IPTerm) + IF x.type \in IPTerm THEN 1 ELSE 0
      /\ Heads(Stream(c), IPTerm) \in Nat
  BY <1>2, <1>3, <1>6, AnswerDue
<1> HIDE DEF b, s, q
<1>9. Asks(b, IPTerm) = Asks(Tail(b), IPTerm) + IF Head(b).type \in IPTerm THEN 1 ELSE 0
  BY <1>2, OneAsk
<1>10. Asks(Tail(b), IPTerm) \in Nat
  <2>1. Tail(b) \in Seq(Requests)
    BY <1>2, HeadTailProperties
  <2> QED
    BY <2>1, CountJoin
<1>11. Asks(s.send_buffer, IPTerm) \in Nat
  BY <1>2, CountJoin
<1>12. Due(s, Stream(c)', Tail(b), IPTerm) = Due(s, Stream(c), b, IPTerm)
  BY <1>5, <1>8, <1>9, <1>10, <1>11 DEF Due, IPTerm, q
<1> QED
  BY <1>7, <1>12 DEF Settled, s, b

LEMMA AccountKept ==
  ASSUME NEW c \in Conn, UNCHANGED <<sess[c], s2c[c], prof[c], Stream(c)>>,
         Settled(sess[c], Stream(c), s2c[c], prof[c])
  PROVE  Settled(sess[c], Stream(c), s2c[c], prof[c])'
BY DEF Settled, Due

LEMMA AccountStep ==
  ASSUME Dumb = {}, ~GarbageHeader
  PROVE  Sound /\ Streams /\ ScreensWhole /\ Order /\ Recording /\ Account /\ [Next]_vars => Account'
<1> SUFFICES ASSUME Sound, Streams, ScreensWhole, Order, Recording, Account, [Next]_vars,
                    NEW c \in Conn, peer'[c] = "open"
             PROVE  Settled(sess[c], Stream(c), s2c[c], prof[c])'
  BY DEF Account
<1>1. PICK P, D : Devices(P, D) /\ Typed(P)
  BY DEF Sound
<1>2. Distinct /\ Shape /\ Lists /\ Quiet
  BY DEF Sound, Owing
<1>3. prof' = prof /\ peer = [e \in Conn |-> peer[e]]
  BY <1>1 DEF Next, DeviceNext, Connect, Answer, Leave, Die, Arrive, vars, Typed
<1>4. CASE ServerNext
  <2>1. status = "up"
    BY <1>4, ServerStatus
  <2>2. peer[c] = "open"
    BY <1>1, <1>2, <1>4, ServerStream
  <2>3. Framed(Stream(c)) /\ (c \in Serving => Ordered(c, prof[c].ttys))
    BY <2>1 DEF Streams, Order
  <2>4. Counting(sess[c], prof[c]) /\ Settled(sess[c], Stream(c), s2c[c], prof[c]) /\ prof[c] \in Profiles
    BY <1>2, <2>2 DEF Recording, Account, Distinct
  <2>5. ASSUME NEW x \in P[c] PROVE ReplyOf(x, prof[c]) /\ x.type # "dumbterm"
    <3>1. PICK q \in Requests, r \in RandomNums : x = Reply(prof[c], q, r)
      BY <1>1 DEF Devices, PacketsOf
    <3>2. /\ x.type = "ipterm" => x.tty = q.no /\ x.screen_num = ScreensOf(prof[c], q.no)
          /\ x.type = "ter" => x.term_num = prof[c].term_num /\ x.ttys = prof[c].ttys
          /\ x.type \in {q.type, "version"}
      BY <2>4, <3>1, ReplyKey
    <3> QED
      BY <3>2 DEF ReplyOf, Requests, RequestTypes
  <2>6. PICK p : p = prof[c]
    OBVIOUS
  <2>7. Settled(sess'[c], Stream(c)', s2c'[c], p)
    BY <1>1, <1>2, <1>4, <2>3, <2>4, <2>5, <2>6, ServerAccounts
  <2> QED
    BY <1>3, <2>6, <2>7 DEF Settled, Due
<1>5. CASE DeviceNext
  <2>1. PICK d \in Conn : Connect(d) \/ Answer(d) \/ Leave(d) \/ Die(d)
    BY <1>5 DEF DeviceNext
  <2>2. CASE Connect(d)
    <3>1. peer[d] = "idle" /\ \A e \in Conn : e # d => peer'[e] = peer[e]
      BY <1>3, <2>2, Exchanged, Zenon DEF Connect
    <3>2. UNCHANGED <<Stream(c), s2c[c], sess[c]>>
      BY <2>2 DEF Connect, serverVars, Stream
    <3>3. CASE c = d
      <4>1. sess[c] = NewClient /\ NewClient.state = "Acceptance"
        BY <1>2, <3>1, <3>3 DEF Quiet, Lists, Serving, NewClient
      <4>2. Settled(sess[c], Stream(c), s2c[c], prof[c])
        BY <4>1 DEF Settled, Late
      <4> QED
        BY <1>3, <3>2, <4>2, AccountKept
    <3>4. CASE c # d
      <4>1. Settled(sess[c], Stream(c), s2c[c], prof[c])
        BY <3>1, <3>4 DEF Account
      <4> QED
        BY <1>3, <3>2, <4>1, AccountKept
    <3> QED
      BY <3>3, <3>4
  <2>3. CASE Answer(d)
    <3>1. /\ peer' = peer /\ sess' = sess /\ sock' = sock
          /\ s2c' = [s2c EXCEPT ![d] = Tail(s2c[d])] /\ s2c = [e \in Conn |-> s2c[e]]
      BY <1>1, <2>3 DEF Answer, serverVars, Typed
    <3>2. Settled(sess[c], Stream(c), s2c[c], prof[c])
      BY <3>1 DEF Account
    <3>3. CASE c = d
      <4>1. Settled(sess[c], Stream(c)', s2c'[c], prof[c])
        BY <1>1, <1>2, <2>3, <3>2, <3>3, AnswerAccount
      <4> QED
        BY <1>3, <3>1, <4>1 DEF Settled, Due
    <3>4. CASE c # d
      <4>1. wire'[c] = wire[c]
        BY <1>1, <1>2, <2>3, <3>4, AnswerDoes
      <4>2. s2c'[c] = s2c[c]
        BY <3>1, <3>4, Exchanged, Zenon
      <4>3. UNCHANGED <<Stream(c), s2c[c], sess[c], prof[c]>>
        BY <1>3, <3>1, <4>1, <4>2 DEF Stream
      <4> QED
        BY <3>2, <4>3, AccountKept
    <3> QED
      BY <3>3, <3>4
  <2>4. CASE Leave(d) \/ Die(d)
    <3>1. /\ peer'[d] \in {"closed", "reset"} /\ UNCHANGED <<sock, serverVars>>
          /\ \A e \in Conn : e # d => wire'[e] = wire[e] /\ peer'[e] = peer[e]
      BY <1>1, <2>4, GoneDoes
    <3>2. c # d /\ s2c' = s2c
      BY <2>4, <3>1 DEF Leave, Die
    <3>3. UNCHANGED <<Stream(c), s2c[c], sess[c], prof[c], peer[c]>>
      BY <1>3, <3>1, <3>2 DEF Stream, serverVars
    <3>4. Settled(sess[c], Stream(c), s2c[c], prof[c])
      BY <3>3 DEF Account
    <3> QED
      BY <3>3, <3>4, AccountKept
  <2> QED
    BY <2>1, <2>2, <2>3, <2>4
<1>6. CASE Arrive
  <2>1. PICK d \in Conn : Deliver(d) /\ UNCHANGED serverVars
    BY <1>6 DEF Arrive
  <2>2. UNCHANGED <<Stream(c), peer, s2c, sess>>
    BY <1>1, <2>1, DeliverDoes DEF Deliver, serverVars
  <2>3. Settled(sess[c], Stream(c), s2c[c], prof[c])
    BY <2>2 DEF Account
  <2> QED
    BY <1>3, <2>2, <2>3, AccountKept
<1>7. CASE UNCHANGED vars
  <2>1. UNCHANGED <<Stream(c), peer, s2c, sess>>
    BY <1>7 DEF vars, netVars, serverVars, Stream
  <2>2. Settled(sess[c], Stream(c), s2c[c], prof[c])
    BY <2>1 DEF Account
  <2> QED
    BY <1>3, <2>1, <2>2, AccountKept
<1> QED
  BY <1>4, <1>5, <1>6, <1>7 DEF Next

LEMMA AccountInit == Init => Account
<1> SUFFICES ASSUME Init, NEW c \in Conn PROVE sess[c].state \notin Late
  BY DEF Account, Settled
<1> QED
  BY DEF Init, ServerInit, NewClient, Late

(* The stretches of a stream, counted one by one. *)
LEMMA TallyDue ==
  ASSUME NEW P, Typed(P), NEW c \in Conn
  PROVE  Tally(c) = Due(sess[c], Stream(c), s2c[c], IPTerm) + sess[c].tty_cnt
<1> DEFINE U == UnitsOf(P[c])
           a == sess[c].recv_buffer
           b == sock[c]
           w == wire[c]
           q == sess[c].send_buffer
           r == s2c[c]
           n == sess[c].tty_cnt
           heads(z) == Cardinality({i \in DOMAIN z : z[i].part = "head" /\ z[i].pkt.type = "ipterm"})
           asked(z) == Cardinality({i \in DOMAIN z : z[i].type = "ipterm"})
<1>1. /\ a \in Seq(U) /\ b \in Seq(U) /\ w \in Seq(U) /\ q \in Seq(Requests) /\ r \in Seq(Requests)
      /\ n \in Nat
  BY DEF Typed, SessionTyped
<1>2. Tally(c) = asked(q) + asked(r) + heads(w) + heads(b) + heads(a) + n
  BY DEF Tally
<1>3. ASSUME NEW S, NEW z \in Seq(S) PROVE heads(z) = Heads(z, IPTerm) /\ asked(z) = Asks(z, IPTerm)
  <2>1. DOMAIN z = 1..Len(z)
    BY LenProperties
  <2>2. {i \in DOMAIN z : z[i].part = "head" /\ z[i].pkt.type = "ipterm"} = HeadsOf(z, IPTerm)
    BY <2>1 DEF HeadsOf, IPTerm
  <2>3. {i \in DOMAIN z : z[i].type = "ipterm"} = AsksOf(z, IPTerm)
    BY <2>1 DEF AsksOf, IPTerm
  <2> QED
    BY <2>2, <2>3 DEF Heads, Asks
<1>4. heads(a) = Heads(a, IPTerm) /\ heads(b) = Heads(b, IPTerm) /\ heads(w) = Heads(w, IPTerm)
  BY <1>1, <1>3
<1>5. asked(q) = Asks(q, IPTerm) /\ asked(r) = Asks(r, IPTerm)
  BY <1>1, <1>3
<1>6. Stream(c) = a \o (b \o w)
  BY DEF Stream
<1> HIDE DEF a, b, w, q, r, n, U, heads, asked
<1> DEFINE x == b \o w
<1>7. x \in Seq(U) /\ Heads(x, IPTerm) = Heads(b, IPTerm) + Heads(w, IPTerm)
  BY <1>1, ConcatProperties, CountJoin
<1> HIDE DEF x
<1>8. Heads(a \o x, IPTerm) = Heads(a, IPTerm) + Heads(x, IPTerm)
  BY <1>1, <1>7, CountJoin
<1>9. /\ Heads(a, IPTerm) \in Nat /\ Heads(b, IPTerm) \in Nat /\ Heads(w, IPTerm) \in Nat
      /\ Asks(q, IPTerm) \in Nat /\ Asks(r, IPTerm) \in Nat
  BY <1>1, CountJoin
<1>10. Heads(Stream(c), IPTerm) = Heads(a, IPTerm) + (Heads(b, IPTerm) + Heads(w, IPTerm))
  BY <1>6, <1>7, <1>8 DEF x
<1>11. Due(sess[c], Stream(c), s2c[c], IPTerm) = Heads(Stream(c), IPTerm) + Asks(r, IPTerm) + Asks(q, IPTerm)
  BY DEF Due, q, r
<1>12. Tally(c) = Heads(Stream(c), IPTerm) + Asks(r, IPTerm) + Asks(q, IPTerm) + n
  BY <1>1, <1>2, <1>4, <1>5, <1>9, <1>10
<1> QED
  BY <1>11, <1>12 DEF n

(* Where no terminal is dumb and the header of the screens is harmless:    *)
(* while a device is there, every terminal it reported is in one place -   *)
(* still to be asked about, asked about, on its way, received, or counted  *)
(* in tty_cnt.  No request and no answer is lost, or made twice, on the    *)
(* way through the buffers of both sides.                                  *)
THEOREM SessionsNoneLost ==
  ASSUME Dumb = {}, ~GarbageHeader
  PROVE  Spec => []NoneLost
<1> DEFINE Inv == Sound /\ Streams /\ ScreensWhole /\ Order /\ Recording
<1>1. Init => Account
  BY AccountInit
<1>2. Inv /\ Account /\ [Next]_vars => Account'
  BY AccountStep
<1>3. Sound /\ Account => NoneLost
  <2> SUFFICES ASSUME Sound, Account, NEW c \in Conn, peer[c] = "open",
                      sess[c].state \in {"WaitIPTermInfo", "WaitScrInfo", "End"}
               PROVE  Tally(c) = Cardinality(prof[c].ttys)
    BY DEF NoneLost
  <2>1. PICK P : Typed(P)
    BY DEF Sound
  <2>2. Due(sess[c], Stream(c), s2c[c], IPTerm) + sess[c].tty_cnt = Cardinality(prof[c].ttys)
    BY DEF Account, Settled, Late
  <2> QED
    BY <2>1, <2>2, TallyDue
<1>4. Spec => []Inv
  BY RecordingAlways
<1> HIDE DEF Inv
<1> QED
  BY <1>1, <1>2, <1>3, <1>4, PTL DEF Spec, Inv

-----------------------------------------------------------------------------
(* Sessions that are kept.  Behind its first k units a stream is packets   *)
(* that begin with their heads; the last one may not be all there.         *)
Led(x, k) == \A j \in (k + 1)..Len(x) : x[j].part # "head" =>
  \E i \in (k + 1)..(j - 1) : x[i].part = "head" /\ j < i + PacketUnits(x[i].pkt)

\* Positions moved by n: where a position between k and j of the rest lies in the whole.
LEMMA MovedIndex ==
  ASSUME NEW n \in Nat, NEW k \in Nat, NEW l \in Nat, NEW j \in (k + 1)..l,
         NEW i \in ((n + k) + 1)..((n + j) - 1)
  PROVE  i \in 1..(n + l) /\ ~(i <= n) /\ i - n \in (k + 1)..(j - 1)
OBVIOUS

LEMMA LedRest ==
  ASSUME NEW P, \A p \in P : PacketOK(p),
         NEW a \in Seq(UnitsOf(P)), NEW y \in Seq(UnitsOf(P)), NEW k \in Nat, Led(a \o y, Len(a) + k)
  PROVE  Led(y, k)
<1> DEFINE x == a \o y
           n == Len(a)
<1>1. /\ n \in Nat /\ Len(y) \in Nat /\ Len(x) = n + Len(y)
      /\ \A i \in 1..(n + Len(y)) : x[i] = IF i <= n THEN a[i] ELSE y[i - n]
  BY ConcatProperties, LenProperties
<1>2. Led(x, n + k)
  OBVIOUS
<1> HIDE DEF x, n
<1> SUFFICES ASSUME NEW j \in (k + 1)..Len(y), y[j].part # "head"
             PROVE  \E i \in (k + 1)..(j - 1) : y[i].part = "head" /\ j < i + PacketUnits(y[i].pkt)
  BY DEF Led
<1>3. n + j \in ((n + k) + 1)..Len(x) /\ x[n + j] = y[j]
  <2>1. n + j \in 1..(n + Len(y)) /\ ~(n + j <= n) /\ (n + j) - n = j
    BY <1>1
  <2> QED
    BY <1>1, <2>1
<1>4. PICK i \in ((n + k) + 1)..((n + j) - 1) : x[i].part = "head" /\ n + j < i + PacketUnits(x[i].pkt)
  BY <1>2, <1>3 DEF Led
<1>5. i - n \in (k + 1)..(j - 1) /\ x[i] = y[i - n]
  <2>1. i \in 1..(n + Len(y)) /\ ~(i <= n) /\ i - n \in (k + 1)..(j - 1)
    <3>1. n \in Nat /\ Len(y) \in Nat
      BY <1>1
    <3> QED
      BY <3>1, MovedIndex, Zenon
  <2>2. x[i] = IF i <= n THEN a[i] ELSE y[i - n]
    BY <1>1, <2>1, Zenon
  <2> QED
    BY <2>1, <2>2, Zenon
<1>6. PacketUnits(y[i - n].pkt) \in Nat
  <2> DEFINE e == i - n
  <2>1. e \in (k + 1)..(j - 1) /\ Len(y) \in Nat
    BY <1>1, <1>5
  <2> HIDE DEF e
  <2>2. e \in 1..Len(y)
    BY <2>1
  <2> QED
    BY <2>2, UnitsAreNat DEF e
<1>7. j < (i - n) + PacketUnits(y[i - n].pkt)
  BY <1>1, <1>4, <1>5, <1>6
<1> QED
  BY <1>4, <1>5, <1>7

(* The packet at the front can be taken. *)
LEMMA LedSkip ==
  ASSUME NEW P, \A p \in P : PacketOK(p), NEW x \in Seq(UnitsOf(P)), x # <<>>,
         Led(x, 0), Framed(x)
  PROVE  x[1].part = "head" /\ Led(x, PacketUnits(x[1].pkt))
<1>1. Len(x) \in Nat \ {0} /\ 1 \in 1..Len(x)
  BY LenProperties, EmptySeq
<1>2. x[1].part = "head"
  <2> SUFFICES ASSUME x[1].part # "head" PROVE FALSE
    OBVIOUS
  <2>1. PICK i \in (0 + 1)..(1 - 1) : x[i].part = "head"
    BY <1>1 DEF Led
  <2> QED
    BY <2>1
<1> DEFINE n == PacketUnits(x[1].pkt)
<1>3. n \in Nat
  BY <1>1, UnitsAreNat
<1>4. \A i \in 2..n : i \in 1..Len(x) => x[i].part # "head"
  <2> SUFFICES ASSUME NEW i \in 2..n, i \in 1..Len(x) PROVE x[i].part # "head"
    OBVIOUS
  <2>1. 1 < i /\ i < 1 + n
    BY <1>3
  <2>2. x[i] = Unit(IF i = 1 + 1 THEN "body" ELSE "scr", x[1].pkt)
    BY <1>1, <1>2, <2>1 DEF Framed
  <2> QED
    BY <2>2 DEF Unit
<1>5. PacketUnits(x[1].pkt) = n
  OBVIOUS
<1> HIDE DEF n
<1>6. Led(x, n)
  <2> SUFFICES ASSUME NEW j \in (n + 1)..Len(x), x[j].part # "head"
               PROVE  \E i \in (n + 1)..(j - 1) : x[i].part = "head" /\ j < i + PacketUnits(x[i].pkt)
    BY DEF Led
  <2>1. j \in (0 + 1)..Len(x)
    BY <1>3
  <2>2. PICK i \in (0 + 1)..(j - 1) : x[i].part = "head" /\ j < i + PacketUnits(x[i].pkt)
    BY <2>1 DEF Led
  <2>3. i # 1
    BY <1>3, <1>5, <2>2
  <2>4. i \in 1..Len(x)
    BY <1>1, <1>3
  <2>5. ~(i \in 2..n)
    BY <1>4, <2>2, <2>4
  <2>6. i \in (n + 1)..(j - 1)
    BY <1>3, <2>3, <2>5
  <2> QED
    BY <2>2, <2>6
<1> QED
  BY <1>2, <1>5, <1>6

LEMMA LedAppend ==
  ASSUME NEW P, \A p \in P : PacketOK(p), NEW x \in Seq(UnitsOf(P)), NEW y \in Seq(UnitsOf(P)),
         NEW k \in 0..Len(x), Led(x, k), Led(y, 0)
  PROVE  Led(x \o y, k)
<1> DEFINE z == x \o y
           n == Len(x)
<1>1. /\ n \in Nat /\ Len(y) \in Nat /\ Len(z) = n + Len(y)
      /\ \A i \in 1..(n + Len(y)) : z[i] = IF i <= n THEN x[i] ELSE y[i - n]
  BY ConcatProperties, LenProperties
<1>2. k \in 0..n
  OBVIOUS
<1> HIDE DEF z, n
<1>3. \A i \in 1..n : z[i] = x[i]
  BY <1>1
<1> SUFFICES ASSUME NEW j \in (k + 1)..Len(z), z[j].part # "head"
             PROVE  \E i \in (k + 1)..(j - 1) : z[i].part = "head" /\ j < i + PacketUnits(z[i].pkt)
  BY DEF Led, z
<1>4. CASE j <= n
  <2>1. j \in (k + 1)..Len(x) /\ x[j].part # "head"
    BY <1>1, <1>2, <1>3, <1>4 DEF n
  <2>2. PICK i \in (k + 1)..(j - 1) : x[i].part = "head" /\ j < i + PacketUnits(x[i].pkt)
    BY <2>1 DEF Led
  <2>3. z[i] = x[i]
    BY <1>1, <1>2, <1>3, <1>4
  <2> QED
    BY <2>2, <2>3
<1>5. CASE ~(j <= n)
  <2>1. j - n \in (0 + 1)..Len(y) /\ z[j] = y[j - n]
    BY <1>1, <1>2, <1>5
  <2>2. PICK i \in (0 + 1)..((j - n) - 1) : y[i].part = "head" /\ j - n < i + PacketUnits(y[i].pkt)
    BY <2>1 DEF Led
  <2>3. n + i \in (k + 1)..(j - 1) /\ z[n + i] = y[i]
    <3>1. n + i \in 1..(n + Len(y)) /\ ~(n + i <= n) /\ (n + i) - n = i
      BY <1>1, <2>1
    <3> QED
      BY <1>1, <1>2, <2>1, <3>1
  <2>4. i \in 1..Len(y)
    BY <1>1, <2>1
  <2>5. PacketUnits(y[i].pkt) \in Nat
    BY <2>4, UnitsAreNat
  <2>6. j < (n + i) + PacketUnits(y[i].pkt)
    BY <1>1, <2>2, <2>5
  <2> QED
    BY <2>2, <2>3, <2>6
<1> QED
  BY <1>4, <1>5

LEMMA LedWhole ==
  ASSUME NEW P, NEW p \in P, PacketOK(p)
  PROVE  Led(Whole(p), 0)
<1> DEFINE w == Whole(p)
           n == PacketUnits(p)
<1>1. Len(w) = n /\ w[1] = Unit("head", p) /\ n \in Nat
  BY WholeUnits, ScreensAreNat
<1> HIDE DEF w, n
<1>2. w[1].part = "head" /\ PacketUnits(w[1].pkt) = n
  BY <1>1 DEF Unit, n
<1> SUFFICES ASSUME NEW j \in (0 + 1)..Len(w), w[j].part # "head"
             PROVE  \E i \in (0 + 1)..(j - 1) : w[i].part = "head" /\ j < i + PacketUnits(w[i].pkt)
  BY DEF Led, w
<1>3. j # 1
  BY <1>2
<1>4. 1 \in (0 + 1)..(j - 1) /\ j < 1 + n
  BY <1>1, <1>3
<1> QED
  BY <1>2, <1>4

(* The units of a packet the fsm has taken that are left to the second     *)
(* loop.                                                                   *)
Skip(s) == IF s.is_scr THEN s.scr_num ELSE 0

LEMMA SkipsRest ==
  ASSUME Dumb = {}, NEW P, \A p \in P : PacketOK(p), NEW s, ClientOK(s), NEW buf \in Seq(UnitsOf(P)),
         buf # <<>>, HoldsPacket(buf), NEW r, ClientOK(r), Handled(s, buf, r),
         NEW k \in 1..Len(buf), r.recv_buffer = Drop(buf, k)
  PROVE  Skip(s) = 0 /\ Skip(r) \in Nat /\ k + Skip(r) = PacketUnits(First(buf))
<1> DEFINE p == First(buf)
<1>1. p \in P /\ Len(buf) \in Nat /\ PacketUnits(p) <= Len(buf)
  <2>1. First(buf) \in P /\ Len(buf) \in Nat
    BY FirstTyped, LenProperties
  <2> QED
    BY <2>1 DEF HoldsPacket
<1>2. s.state # "WaitScrInfo"
  BY DEF Handled, HandledAuth, HandledPart, HandledTer, HandledIPTerm, HandledDumb, HandledEnd, EarlyStates
<1>3. ASSUME NEW m \in Nat, r.recv_buffer = Drop(buf, m), m <= Len(buf) PROVE k = m
  <2>1. k \in Nat /\ k <= Len(buf)
    BY <1>1
  <2>2. Len(Drop(buf, k)) = Len(buf) - k /\ Len(Drop(buf, m)) = Len(buf) - m
    BY <1>3, <2>1, DropProperties
  <2> QED
    BY <1>1, <1>3, <2>1, <2>2
<1>4. PacketOK(p)
  BY <1>1
<1> HIDE DEF p
<1>5. CASE HandledIPTerm(s, buf, r)
  <2>1. /\ p.type = "ipterm" /\ r.recv_buffer = Drop(buf, 2) /\ r.scr_num = p.screen_num
        /\ \/ p.screen_num # 0 /\ r.state = "WaitScrInfo"
           \/ p.screen_num = 0 /\ r.state # "WaitScrInfo"
    BY <1>5 DEF HandledIPTerm, TookTerminal, Leads, p
  <2>2. p.screen_num \in Nat /\ PacketUnits(p) = 2 + p.screen_num
    BY <1>4, <2>1 DEF PacketOK, TtyTypes, PacketUnits, HasData, Screens
  <2>3. k = 2
    BY <1>1, <1>3, <2>1, <2>2
  <2>4. Skip(r) = p.screen_num
    BY <2>1 DEF Skip, ClientOK
  <2> QED
    BY <1>2, <2>2, <2>3, <2>4 DEF Skip, ClientOK, p
<1>6. CASE HandledAuth(s, buf, r) \/ HandledPart(s, buf, r) \/ HandledTer(s, buf, r)
  <2>1. /\ p.type \in {"auth", "sys", "conf", "proc", "ether", "ter"} /\ r.recv_buffer = Drop(buf, 2)
        /\ r.state # "WaitScrInfo"
    BY <1>6 DEF HandledAuth, HandledPart, HandledTer, Leads, EarlyNext, p
  <2>2. PacketUnits(p) = 2
    BY <2>1 DEF PacketUnits, HasData, Screens
  <2>3. k = 2
    BY <1>1, <1>3, <2>1, <2>2
  <2> QED
    BY <1>2, <2>1, <2>2, <2>3 DEF Skip, ClientOK, p
<1>7. CASE HandledEnd(s, buf, r)
  <2>1. p.type = "end" /\ r.recv_buffer = Drop(buf, 1) /\ r.state # "WaitScrInfo"
    BY <1>7 DEF HandledEnd, Leads, p
  <2>2. PacketUnits(p) = 1
    BY <2>1 DEF PacketUnits, HasData
  <2>3. k = 1
    BY <1>1, <1>3, <2>1, <2>2
  <2> QED
    BY <1>2, <2>1, <2>2, <2>3 DEF Skip, ClientOK, p
<1>8. ~HandledDumb(s, buf, r)
  BY NoneDumb
<1> QED
  BY <1>5, <1>6, <1>7, <1>8 DEF Handled

(* A packet is taken: what follows begins with a head.                     *)
LEMMA ReadsLed ==
  ASSUME Dumb = {}, NEW P, Typed(P), Typed(P)', Shape, NEW c \in Conn, Framed(Stream(c)), Reads(c),
         Led(Stream(c), Skip(sess[c]))
  PROVE  Led(Stream(c)', Skip(sess'[c]))
<1> DEFINE U == UnitsOf(P[c])
           buf == Received(c)
           x == Stream(c)
           y == Stream(c)'
           r == sess'[c]
           s == sess[c]
<1>1. PICK k : TakesFront(c, k)
  BY DEF Reads
<1>2. k \in 1..Len(buf) /\ r.recv_buffer = Drop(buf, k) /\ x = SubSeq(buf, 1, k) \o y
  BY <1>1 DEF TakesFront
<1>3. /\ HoldsPacket(buf) /\ buf # <<>> /\ Handled(s, buf, r) /\ ClientOK(r) /\ ClientOK(s)
      /\ Led(x, Skip(s)) /\ Framed(x)
  BY DEF Reads, Shape
<1>4. buf \in Seq(U) /\ (\A p \in P[c] : PacketOK(p)) /\ y \in Seq(U) /\ x \in Seq(U)
  BY ReceivedTyped, NextStreamTyped, StreamTyped DEF Typed
<1> HIDE DEF buf, x, y, r, s
<1>5. Skip(s) = 0 /\ Skip(r) \in Nat /\ k + Skip(r) = PacketUnits(First(buf))
  BY <1>2, <1>3, <1>4, SkipsRest
<1> DEFINE f == SubSeq(buf, 1, k)
<1>6. f \in Seq(U) /\ Len(f) = k /\ f[1] = buf[1] /\ k \in Nat
  <2>1. k \in 0..Len(buf) /\ Len(buf) \in Nat
    BY <1>2, <1>4, LenProperties
  <2>2. 1 \in 1..k
    BY <1>2, <2>1
  <2> QED
    BY <1>4, <2>1, <2>2, FrontProperties
<1>7. x = f \o y
  BY <1>2
<1> HIDE DEF U, f
<1>8. x # <<>> /\ x[1] = f[1]
  <2>1. Len(f \o y) = Len(f) + Len(y) /\ Len(y) \in Nat
    BY <1>4, <1>6, ConcatProperties, LenProperties
  <2>2. \A i \in 1..(Len(f) + Len(y)) : i <= Len(f) => (f \o y)[i] = f[i]
    BY <1>4, <1>6, ConcatProperties
  <2>3. 1 \in 1..(Len(f) + Len(y)) /\ 1 <= Len(f)
    BY <1>2, <1>6, <2>1
  <2>4. Len(<<>>) = 0
    OBVIOUS
  <2> QED
    BY <1>7, <2>1, <2>2, <2>3, <2>4
<1>9. First(buf) = buf[1].pkt
  <2>1. Head(buf) = buf[1]
    OBVIOUS
  <2> QED
    BY <2>1 DEF First
<1>10. Led(x, PacketUnits(x[1].pkt))
  BY <1>3, <1>4, <1>5, <1>8, LedSkip DEF U
<1>11. Led(f \o y, Len(f) + Skip(r))
  BY <1>5, <1>6, <1>7, <1>8, <1>9, <1>10
<1>12. Led(y, Skip(r))
  BY <1>4, <1>5, <1>6, <1>11, LedRest DEF U
<1> QED
  BY <1>12 DEF y, r

(* The screens are taken.                                                  *)
LEMMA TookLed ==
  ASSUME ~GarbageHeader, NEW P, Typed(P), Typed(P)', Shape, NEW c \in Conn,
         TookScreens(sess[c], sess'[c]), UNCHANGED <<sock, wire>>, ScreensAt(sess[c]),
         Led(Stream(c), Skip(sess[c]))
  PROVE  Led(Stream(c)', Skip(sess'[c]))
<1> DEFINE U == UnitsOf(P[c])
           x == Stream(c)
           y == Stream(c)'
<1>1. PICK f \in Seq(U) : Len(f) = sess[c].scr_num /\ x = f \o y
  BY TookFront
<1>2. y \in Seq(U) /\ \A p \in P[c] : PacketOK(p)
  BY NextStreamTyped DEF Typed
<1>3. Skip(sess[c]) = Len(f) /\ Skip(sess'[c]) = 0 /\ Len(f) \in Nat
  <2>1. sess[c].is_scr /\ sess'[c].is_scr = FALSE
    BY DEF TookScreens, Shape, ClientOK
  <2> QED
    BY <1>1, <2>1, LenProperties DEF Skip
<1>4. Led(f \o y, Len(f) + 0)
  BY <1>1, <1>3
<1> HIDE DEF U, y
<1>5. Led(y, 0)
  BY <1>1, <1>2, <1>4, LedRest DEF U
<1> QED
  BY <1>3, <1>5 DEF y

LEMMA ServerLed ==
  ASSUME Dumb = {}, ~GarbageHeader, NEW P, Typed(P), Shape, Lists, ServerNext, status' = "up",
         ScreensWhole, NEW c \in Conn, Framed(Stream(c)), c \in Serving => c \in Serving',
         Led(Stream(c), Skip(sess[c]))
  PROVE  Led(Stream(c)', Skip(sess'[c]))
<1>1. Typed(P)'
  BY ServerTyped
<1>2. CASE Reads(c)
  BY <1>1, <1>2, ReadsLed
<1>3. ASSUME UNCHANGED <<sock[c], wire[c]>>, sess'[c].recv_buffer = sess[c].recv_buffer,
             SameScreens(sess[c], sess'[c])
      PROVE  Led(Stream(c)', Skip(sess'[c]))
  <2>1. Stream(c)' = Stream(c) /\ Skip(sess'[c]) = Skip(sess[c])
    BY <1>3 DEF Stream, Skip, SameScreens
  <2> QED
    BY <2>1
<1>4. CASE Writes(c)
  BY <1>3, <1>4 DEF Writes
<1>5. CASE Settles(c)
  <2>1. UNCHANGED <<sock, wire>> /\ (Greeted(sess[c], sess'[c]) \/ TookScreens(sess[c], sess'[c]))
    BY <1>5 DEF Settles
  <2>2. CASE Greeted(sess[c], sess'[c])
    BY <1>3, <2>1, <2>2 DEF Greeted, Leads
  <2>3. CASE TookScreens(sess[c], sess'[c])
    <3>1. ScreensAt(sess[c])
      <4>1. sess[c].is_scr
        BY <2>3 DEF TookScreens, Shape, ClientOK
      <4> QED
        BY <4>1 DEF ScreensWhole, ScreensAt
    <3> QED
      BY <1>1, <2>1, <2>3, <3>1, TookLed
  <2> QED
    BY <2>1, <2>2, <2>3
<1>6. CASE Removes(c)
  BY <1>6 DEF Removes
<1>7. CASE UNCHANGED <<sess[c], sock[c], wire[c]>>
  <2>1. Stream(c)' = Stream(c)
    BY <1>7 DEF Stream
  <2> QED
    BY <1>7, <2>1
<1>8. CASE Rests
  <2>1. \A d \in Conn : ~OnWildPointer(d)
    BY DEF OnWildPointer
  <2> QED
    BY <1>7, <1>8, <2>1 DEF Rests
<1>9. ASSUME NEW d \in Conn, d # c, Reads(d) \/ Writes(d) \/ Settles(d) \/ Removes(d)
      PROVE  UNCHANGED <<sess[c], sock[c], wire[c]>>
  BY <1>9 DEF Reads, Writes, Settles, Removes, Others, Apart
<1> QED
  BY <1>2, <1>4, <1>5, <1>6, <1>7, <1>8, <1>9, ServerDoes

LEMMA AnswerLed ==
  ASSUME NEW P, NEW D, Devices(P, D), Distinct, Typed(P), ScreensWhole, NEW c \in Conn, Answer(c),
         Led(Stream(c), Skip(sess[c]))
  PROVE  Led(Stream(c)', Skip(sess'[c]))
<1>1. PICK x \in P[c] : wire'[c] = wire[c] \o Whole(x)
  BY AnswerDoes
<1>2. sock' = sock /\ sess' = sess
  BY DEF Answer, serverVars
<1> DEFINE U == UnitsOf(P[c])
           a == Stream(c)
           v == Whole(x)
           b == sess[c].recv_buffer
           s == sock[c]
           w == wire[c]
           k == Skip(sess[c])
<1>3. \A p \in P[c] : PacketOK(p)
  BY DEF Typed
<1>4. a \in Seq(U) /\ v \in Seq(U) /\ Led(v, 0)
  BY <1>3, StreamTyped, WholeUnits, LedWhole
<1>5. b \in Seq(U) /\ s \in Seq(U) /\ w \in Seq(U) /\ sess[c].scr_num \in Nat
  BY DEF Typed, SessionTyped
<1>6. Stream(c)' = a \o v
  <2>1. Stream(c)' = b \o (s \o (w \o v)) /\ a = b \o (s \o w)
    BY <1>1, <1>2 DEF Stream
  <2>2. v \in Seq(U)
    BY <1>4
  <2> HIDE DEF a, v, b, s, w, U
  <2>3. Longer(b, s, w, v)
    BY <1>5, <2>2, StreamEnd, Zenon
  <2> QED
    BY <2>1, <2>3, Zenon DEF Longer
<1>7. k \in 0..Len(a)
  <2>1. sess[c].is_scr => sess[c].scr_num <= Len(b)
    BY DEF ScreensWhole
  <2>2. k \in Nat /\ k <= Len(b)
    BY <1>5, <2>1, LenProperties DEF Skip
  <2> DEFINE t == s \o w
  <2>3. t \in Seq(U) /\ a = b \o t
    BY <1>5, ConcatProperties DEF Stream
  <2> HIDE DEF t, a, b, s, w, U, k
  <2>4. Len(a) = Len(b) + Len(t) /\ Len(b) \in Nat /\ Len(t) \in Nat
    BY <1>5, <2>3, ConcatProperties, LenProperties
  <2> QED
    BY <2>2, <2>4
<1>8. Led(a, k)
  OBVIOUS
<1> HIDE DEF a, v, w, U, k
<1>9. Led(a \o v, k)
  BY <1>3, <1>4, <1>7, <1>8, LedAppend DEF U
<1>10. Skip(sess'[c]) = k
  BY <1>2 DEF k
<1> QED
  BY <1>6, <1>9, <1>10

(* The connections whose client is there, or is still to come, and that    *)
(* the server has not dropped.                                             *)
Served(c) == peer[c] = "idle" \/ (peer[c] = "open" /\ c \in Serving)

(* All that is to come from them begins with heads. *)
Steady == status = "up" => \A c \in Conn : Served(c) => Led(Stream(c), Skip(sess[c]))

LEMMA SteadyInit == Init => Steady
<1> SUFFICES ASSUME Init, NEW c \in Conn PROVE Led(Stream(c), Skip(sess[c]))
  BY DEF Steady
<1>1. /\ sess[c].recv_buffer = <<>> /\ sock[c] = <<>> /\ wire[c] = <<>> /\ Skip(sess[c]) = 0
  BY DEF Init, NetInit, ServerInit, NewClient, Skip
<1>2. <<>> \o (<<>> \o <<>>) = <<>>
  OBVIOUS
<1>3. Stream(c) = <<>>
  BY <1>1, <1>2 DEF Stream
<1>4. Len(<<>>) = 0
  OBVIOUS
<1> QED
  BY <1>1, <1>3, <1>4 DEF Led

(* A connection that is served has been, and what it was is still there.   *)
LEMMA ServedStep ==
  ASSUME Sound, [Next]_vars, NEW c \in Conn, Served(c)'
  PROVE  Served(c)
<1>1. PICK P, D : Devices(P, D) /\ Typed(P)
  BY DEF Sound
<1>2. Shape /\ Lists /\ Quiet /\ peer = [e \in Conn |-> peer[e]]
  BY <1>1 DEF Sound, Owing, Typed
<1>3. CASE ServerNext
  <2>1. peer'[c] \in {"idle", "open"} => peer'[c] = peer[c]
    BY <1>1, <1>2, <1>3, ServerStream
  <2>2. Serving' \subseteq Serving
    BY <1>2, <1>3, ServerLists
  <2> QED
    BY <2>1, <2>2 DEF Served
<1>4. CASE DeviceNext
  <2>1. PICK d \in Conn : Connect(d) \/ Answer(d) \/ Leave(d) \/ Die(d)
    BY <1>4 DEF DeviceNext
  <2>2. Held' = Held
    BY <2>1 DEF Connect, Answer, Leave, Die, serverVars, Held
  <2>3. CASE Connect(d)
    <3>1. peer[d] = "idle" /\ \A e \in Conn : e # d => peer'[e] = peer[e]
      BY <1>2, <2>3, Exchanged, Zenon DEF Connect
    <3>2. ToSet(backlog') = ToSet(backlog) \cup {d}
      BY <1>2, <2>3, ConnectListed
    <3> QED
      BY <2>2, <3>1, <3>2 DEF Served, Serving
  <2>4. CASE Answer(d)
    BY <2>2, <2>4 DEF Answer, Served, Serving
  <2>5. CASE Leave(d) \/ Die(d)
    <3>1. peer'[d] \in {"closed", "reset"} /\ \A e \in Conn : e # d => peer'[e] = peer[e]
      BY <1>1, <2>5, GoneDoes
    <3>2. backlog' = backlog
      BY <2>5 DEF Leave, Die
    <3>3. c # d
      BY <3>1 DEF Served
    <3> QED
      BY <2>2, <3>1, <3>2, <3>3 DEF Served, Serving
  <2> QED
    BY <2>1, <2>3, <2>4, <2>5
<1>5. CASE Arrive
  BY <1>5 DEF Arrive, Deliver, serverVars, Served, Serving, Held
<1>6. CASE UNCHANGED vars
  BY <1>6 DEF vars, netVars, serverVars, Served, Serving, Held
<1> QED
  BY <1>3, <1>4, <1>5, <1>6 DEF Next

LEMMA SteadyStep ==
  ASSUME Dumb = {}, ~GarbageHeader
  PROVE  Sound /\ Streams /\ ScreensWhole /\ Steady /\ [Next]_vars => Steady'
<1> SUFFICES ASSUME Sound, Streams, ScreensWhole, Steady, [Next]_vars, status' = "up",
                    NEW c \in Conn, Served(c)'
             PROVE  Led(Stream(c)', Skip(sess'[c]))
  BY DEF Steady, Led, Skip
<1>1. PICK P, D : Devices(P, D) /\ Typed(P)
  BY DEF Sound
<1>2. Distinct /\ Shape /\ Lists /\ Quiet
  BY DEF Sound, Owing
<1>3. Served(c)
  BY ServedStep
<1>4. status = "up"
  BY ServerStatus DEF Next, DeviceNext, Connect, Answer, Leave, Die, Arrive, serverVars, vars
<1>5. Led(Stream(c), Skip(sess[c])) /\ Framed(Stream(c))
  BY <1>3, <1>4 DEF Steady, Streams
<1>6. CASE ServerNext
  <2>1. peer'[c] \in {"idle", "open"} => peer'[c] = peer[c]
    BY <1>1, <1>2, <1>6, ServerStream
  <2>2. c \in Serving => c \in Serving'
    BY <1>2, <2>1 DEF Served, Quiet
  <2> QED
    BY <1>1, <1>2, <1>5, <1>6, <2>2, ServerLed
<1>7. CASE UNCHANGED <<Stream(c), sess[c]>>
  <2>1. Stream(c)' = Stream(c)
    BY <1>7
  <2> QED
    BY <1>5, <1>7, <2>1
<1>8. CASE DeviceNext
  <2>1. PICK d \in Conn : Connect(d) \/ Answer(d) \/ Leave(d) \/ Die(d)
    BY <1>8 DEF DeviceNext
  <2>2. sock' = sock /\ sess' = sess
    BY <2>1 DEF Connect, Answer, Leave, Die, serverVars
  <2>3. CASE wire'[c] = wire[c]
    BY <1>7, <2>2, <2>3 DEF Stream
  <2>4. CASE Connect(d)
    BY <2>3, <2>4 DEF Connect
  <2>5. CASE Answer(d)
    <3>1. CASE c = d
      BY <1>1, <1>2, <1>5, <2>5, <3>1, AnswerLed
    <3>2. CASE c # d
      BY <1>1, <1>2, <2>3, <2>5, <3>2, AnswerDoes
    <3> QED
      BY <3>1, <3>2
  <2>6. CASE Leave(d) \/ Die(d)
    <3>1. peer'[d] \in {"closed", "reset"} /\ \A e \in Conn : e # d => wire'[e] = wire[e]
      BY <1>1, <2>6, GoneDoes
    <3>2. c # d
      BY <3>1 DEF Served
    <3> QED
      BY <2>3, <3>1, <3>2
  <2> QED
    BY <2>1, <2>4, <2>5, <2>6
<1>9. CASE Arrive
  <2>1. PICK d \in Conn : Deliver(d) /\ UNCHANGED serverVars
    BY <1>9 DEF Arrive
  <2>2. UNCHANGED Stream(c) /\ sess' = sess
    BY <1>1, <2>1, DeliverDoes DEF serverVars
  <2> QED
    BY <1>7, <2>2
<1>10. CASE UNCHANGED vars
  <2>1. UNCHANGED <<Stream(c), sess[c]>>
    BY <1>10 DEF vars, netVars, serverVars, Stream
  <2> QED
    BY <1>7, <2>1
<1> QED
  BY <1>6, <1>8, <1>9, <1>10 DEF Next

-----------------------------------------------------------------------------
(* A device sends only what the server waits for.                          *)

Buffered(U, s, x, b) == x \in Seq(U) /\ b \in Seq(Requests) /\ s.send_buffer \in Seq(Requests)

(* Nothing of the types Y is to come. *)
LEMMA NoneDue ==
  ASSUME NEW U, NEW s, NEW x, NEW b, Buffered(U, s, x, b), NEW Y
  PROVE  /\ Due(s, x, b, Y) \in Nat
         /\ Due(s, x, b, Y) = 0 <=> /\ HeadsOf(x, Y) = {} /\ AsksOf(b, Y) = {}
                                    /\ AsksOf(s.send_buffer, Y) = {}
<1> DEFINE q == s.send_buffer
<1>1. x \in Seq(U) /\ b \in Seq(Requests) /\ q \in Seq(Requests)
  BY DEF Buffered
<1> HIDE DEF q
<1>2. Heads(x, Y) \in Nat /\ Asks(b, Y) \in Nat /\ Asks(q, Y) \in Nat
  BY <1>1, CountJoin
<1>3. Len(x) \in Nat /\ Len(b) \in Nat /\ Len(q) \in Nat
  BY <1>1, LenProperties
<1>4. \A n \in Nat : IsFiniteSet(1..n)
  <2> SUFFICES ASSUME NEW n \in Nat PROVE IsFiniteSet(1..n)
    OBVIOUS
  <2> QED
    BY FS_Interval
<1>5. IsFiniteSet(HeadsOf(x, Y)) /\ IsFiniteSet(AsksOf(b, Y)) /\ IsFiniteSet(AsksOf(q, Y))
  <2>1. /\ HeadsOf(x, Y) \subseteq 1..Len(x) /\ AsksOf(b, Y) \subseteq 1..Len(b)
        /\ AsksOf(q, Y) \subseteq 1..Len(q)
    BY DEF HeadsOf, AsksOf
  <2> QED
    BY <1>3, <1>4, <2>1, FS_Subset
<1>6. /\ Heads(x, Y) = 0 <=> HeadsOf(x, Y) = {}
      /\ Asks(b, Y) = 0 <=> AsksOf(b, Y) = {}
      /\ Asks(q, Y) = 0 <=> AsksOf(q, Y) = {}
  BY <1>5, FS_EmptySet DEF Heads, Asks
<1>7. Due(s, x, b, Y) = Heads(x, Y) + Asks(b, Y) + Asks(q, Y)
  BY DEF Due, q
<1>8. Due(s, x, b, Y) = 0 <=> Heads(x, Y) = 0 /\ Asks(b, Y) = 0 /\ Asks(q, Y) = 0
  <2> DEFINE h == Heads(x, Y)
             i == Asks(b, Y)
             j == Asks(q, Y)
  <2>1. h \in Nat /\ i \in Nat /\ j \in Nat /\ Due(s, x, b, Y) = h + i + j
    BY <1>2, <1>7
  <2> HIDE DEF h, i, j
  <2>2. Due(s, x, b, Y) = 0 <=> h = 0 /\ i = 0 /\ j = 0
    BY <2>1
  <2> QED
    BY <2>2, Zenon DEF h, i, j
<1>9. Due(s, x, b, Y) \in Nat
  BY <1>2, <1>7
<1> QED
  BY <1>6, <1>8, <1>9, Zenon DEF q

LEMMA CoverDue ==
  ASSUME NEW U, NEW s, NEW x, NEW b, Buffered(U, s, x, b), NEW A, NEW B, NEW Y,
         Due(s, x, b, A) = 0, Due(s, x, b, B) = 0, Y \subseteq A \cup B
  PROVE  Due(s, x, b, Y) = 0
<1>1. /\ HeadsOf(x, A) = {} /\ AsksOf(b, A) = {} /\ AsksOf(s.send_buffer, A) = {}
      /\ HeadsOf(x, B) = {} /\ AsksOf(b, B) = {} /\ AsksOf(s.send_buffer, B) = {}
  BY NoneDue
<1>2. HeadsOf(x, Y) = {} /\ AsksOf(b, Y) = {} /\ AsksOf(s.send_buffer, Y) = {}
  BY <1>1 DEF HeadsOf, AsksOf
<1> QED
  BY <1>2, NoneDue

LEMMA LessDue ==
  ASSUME NEW U, NEW s, NEW x, NEW b, Buffered(U, s, x, b), NEW A, NEW Y,
         Due(s, x, b, A) = 0, Y \subseteq A
  PROVE  Due(s, x, b, Y) = 0
BY CoverDue

(* The packet the fsm takes is one that was to come.                       *)
LEMMA TakenDue ==
  ASSUME Dumb = {}, NEW P, Typed(P), Typed(P)', NEW c \in Conn, Framed(Stream(c)), Reads(c), NEW Y
  PROVE  /\ Buffered(UnitsOf(P[c]), sess[c], Stream(c)', s2c[c])
         /\ Due(sess[c], Stream(c), s2c[c], Y) = Due(sess[c], Stream(c)', s2c[c], Y)
                                      + IF First(Received(c)).type \in Y THEN 1 ELSE 0
<1> DEFINE x == Stream(c)
           y == Stream(c)'
           b == s2c[c]
           q == sess[c].send_buffer
           t == First(Received(c)).type
<1>1. Heads(x, Y) = Heads(y, Y) + (IF t \in Y THEN 1 ELSE 0) /\ Heads(y, Y) \in Nat
  BY ReadsDue
<1>2. b \in Seq(Requests) /\ q \in Seq(Requests) /\ y \in Seq(UnitsOf(P[c]))
  BY NextStreamTyped DEF Typed, SessionTyped
<1>3. Asks(b, Y) \in Nat /\ Asks(q, Y) \in Nat
  BY <1>2, CountJoin
<1>4. Buffered(UnitsOf(P[c]), sess[c], y, b)
  BY <1>2 DEF Buffered
<1>5. /\ Due(sess[c], x, b, Y) = Heads(x, Y) + Asks(b, Y) + Asks(q, Y)
      /\ Due(sess[c], y, b, Y) = Heads(y, Y) + Asks(b, Y) + Asks(q, Y)
  BY DEF Due
<1> HIDE DEF x, y, b, q, t
<1>6. Due(sess[c], x, b, Y) = Due(sess[c], y, b, Y) + (IF t \in Y THEN 1 ELSE 0)
  <2>1. CASE t \in Y
    BY <1>1, <1>3, <1>5, <2>1
  <2>2. CASE t \notin Y
    BY <1>1, <1>3, <1>5, <2>2
  <2> QED
    BY <2>1, <2>2
<1> QED
  BY <1>4, <1>6 DEF x, y, b, t

(* A handler adds its requests to what is to come.                         *)
LEMMA AskedDue ==
  ASSUME NEW U, NEW s, NEW x, NEW b, Buffered(U, s, x, b), NEW r, NEW st, NEW rest,
         NEW reqs \in Seq(Requests), Leads(s, r, st, rest, reqs), NEW Y
  PROVE  Due(r, x, b, Y) = Due(s, x, b, Y) + Asks(reqs, Y) /\ Asks(reqs, Y) \in Nat
<1>1. /\ Asks(r.send_buffer, Y) = Asks(s.send_buffer, Y) + Asks(reqs, Y)
      /\ Asks(s.send_buffer, Y) \in Nat /\ Asks(reqs, Y) \in Nat
  BY LeadsDue DEF Buffered
<1>2. Heads(x, Y) \in Nat /\ Asks(b, Y) \in Nat
  BY CountJoin DEF Buffered
<1> QED
  BY <1>1, <1>2 DEF Due

(* What a session in a state waits for; as long as the second loop owes it *)
(* the screens, what it waits for after them.                              *)
Wanted(state) == CASE state = "Acceptance"  -> {}
                   [] state = "WaitScrInfo" -> Expects("WaitIPTermInfo")
                   [] OTHER                 -> Expects(state)

Quota(s) == IF s.state = "WaitEtheInfo" THEN s.ethnum ELSE 1

(* Of a device: only what is waited for is to come, and until the          *)
(* terminals are asked about no more packets than that takes.              *)
Agenda(s, x, b) == /\ Due(s, x, b, RequestTypes \ Wanted(s.state)) = 0
                   /\ s.state \notin Late => Due(s, x, b, RequestTypes) <= Quota(s)
                   /\ s.state = "WaitEtheInfo" => s.ethnum \in Nat

(* Nothing was to come any more: the requests are all there is.            *)
LEMMA FreshAgenda ==
  ASSUME NEW U, NEW s, NEW x, NEW b, Buffered(U, s, x, b), Due(s, x, b, RequestTypes) = 0,
         NEW r, NEW st, NEW rest, NEW reqs \in Seq(Requests), Leads(s, r, st, rest, reqs),
         \A i \in 1..Len(reqs) : reqs[i].type \in Wanted(st),
         st \notin Late => Asks(reqs, RequestTypes) <= Quota(r),
         st = "WaitEtheInfo" => r.ethnum \in Nat
  PROVE  Agenda(r, x, b)
<1> DEFINE V == RequestTypes \ Wanted(st)
<1>1. r.state = st
  BY DEF Leads
<1>2. \A i \in 1..Len(reqs) : reqs[i].type \notin V
  OBVIOUS
<1>3. V \subseteq RequestTypes
  OBVIOUS
<1> HIDE DEF V
<1>4. Due(s, x, b, V) = 0 /\ Asks(reqs, V) = 0
  BY <1>2, <1>3, LessDue, NoAsks
<1>5. Due(r, x, b, V) = 0
  BY <1>4, AskedDue
<1>6. Due(r, x, b, RequestTypes) = Asks(reqs, RequestTypes)
  <2>1. Due(r, x, b, RequestTypes) = Due(s, x, b, RequestTypes) + Asks(reqs, RequestTypes)
        /\ Asks(reqs, RequestTypes) \in Nat
    BY AskedDue
  <2> QED
    BY <2>1
<1> QED
  BY <1>1, <1>5, <1>6 DEF Agenda, V

(* The terminals are answered one by one, and then the end.                *)
LEMMA LateAgenda ==
  ASSUME Dumb = {}, NEW U, NEW s, NEW x, NEW b, Buffered(U, s, x, b),
         Due(s, x, b, RequestTypes \ Expects("WaitIPTermInfo")) = 0,
         NEW r, NEW st, NEW rest, NEW reqs, Leads(s, r, st, rest, reqs),
         \/ st \in {"WaitIPTermInfo", "WaitScrInfo"} /\ reqs = <<>>
         \/ st = "End" /\ reqs = <<Request("end")>> /\ Due(r, x, b, IPTerm) = 0
  PROVE  Agenda(r, x, b)
<1>1. r.state = st /\ reqs \in Seq(Requests) /\ st \in Late /\ st # "WaitEtheInfo"
  <2>1. <<>> \in Seq(Requests) /\ <<Request("end")>> \in Seq(Requests)
    BY SmallRequests
  <2> QED
    BY <2>1 DEF Leads, Late
<1> SUFFICES Due(r, x, b, RequestTypes \ Wanted(st)) = 0
  BY <1>1 DEF Agenda
<1>2. CASE st \in {"WaitIPTermInfo", "WaitScrInfo"} /\ reqs = <<>>
  <2>1. Wanted(st) = Expects("WaitIPTermInfo")
    BY <1>2 DEF Wanted
  <2>2. Asks(reqs, RequestTypes \ Wanted(st)) = 0
    BY <1>2, SmallAsks
  <2>3. Due(r, x, b, RequestTypes \ Wanted(st))
          = Due(s, x, b, RequestTypes \ Wanted(st)) + Asks(reqs, RequestTypes \ Wanted(st))
    BY <1>1, AskedDue
  <2> QED
    BY <2>1, <2>2, <2>3
<1>3. CASE st = "End" /\ reqs = <<Request("end")>> /\ Due(r, x, b, IPTerm) = 0
  <2> DEFINE V == RequestTypes \ {"end"}
             W == RequestTypes \ Expects("WaitIPTermInfo")
  <2>1. Wanted(st) = {"end"}
    BY <1>3 DEF Wanted, Expects
  <2>2. V \subseteq W \cup IPTerm
    BY DEF RequestTypes, Expects, IPTerm
  <2>3. Asks(reqs, V) = 0 /\ Asks(reqs, IPTerm) = 0
    BY <1>3, SmallAsks DEF Request, IPTerm
  <2>4. Due(s, x, b, W) = 0
    OBVIOUS
  <2> HIDE DEF V, W
  <2>5. /\ Due(r, x, b, V) = Due(s, x, b, V) + Asks(reqs, V)
        /\ Due(r, x, b, IPTerm) = Due(s, x, b, IPTerm) + Asks(reqs, IPTerm)
    BY <1>1, AskedDue
  <2>6. Due(s, x, b, IPTerm) = 0
    BY <1>3, <2>3, <2>5, NoneDue
  <2>7. Due(s, x, b, V) = 0
    BY <2>2, <2>4, <2>6, CoverDue
  <2> QED
    BY <2>1, <2>3, <2>5, <2>7 DEF V
<1> QED
  BY <1>2, <1>3

LEMMA OneAgenda ==
  ASSUME NEW U, NEW s, NEW x, NEW b, Buffered(U, s, x, b), Due(s, x, b, RequestTypes) = 0,
         NEW r, NEW st, NEW rest, NEW q \in Requests, Leads(s, r, st, rest, <<q>>),
         q.type \in Wanted(st), st = "WaitEtheInfo" => r.ethnum = 1
  PROVE  Agenda(r, x, b)
<1> DEFINE reqs == <<q>>
<1>1. reqs \in Seq(Requests) /\ \A i \in 1..Len(reqs) : reqs[i] = q
  OBVIOUS
<1>2. Asks(reqs, RequestTypes) <= 1
  BY SmallAsks
<1>3. Leads(s, r, st, rest, reqs) /\ r.state = st
  BY DEF Leads
<1> HIDE DEF reqs
<1>4. \A i \in 1..Len(reqs) : reqs[i].type \in Wanted(st)
  BY <1>1
<1>5. Asks(reqs, RequestTypes) <= Quota(r)
  <2>1. Quota(r) = 1
    BY <1>3 DEF Quota
  <2> QED
    BY <1>2, <2>1
<1>6. st = "WaitEtheInfo" => r.ethnum \in Nat
  OBVIOUS
<1> QED
  BY <1>1, <1>3, <1>4, <1>5, <1>6, FreshAgenda

(* The next part is asked for, or the ports.                               *)
LEMMA PartAgenda ==
  ASSUME NEW U, NEW s, NEW y, NEW b, Buffered(U, s, y, b), NEW t, NEW r, NEW st, NEW rest,
         NEW reqs \in Seq(Requests), Leads(s, r, st, rest, reqs), Routed(s, t, r, reqs),
         s.state # "WaitEtheInfo" => Due(s, y, b, RequestTypes) = 0,
         s.state = "WaitEtheInfo" => /\ s.ethnum \in Nat
                                     /\ Due(s, y, b, RequestTypes) + 1 <= s.ethnum
                                     /\ Due(s, y, b, RequestTypes \ {"ether"}) = 0
  PROVE  Agenda(r, y, b)
<1>1. r.state = st
  BY DEF Leads
<1>2. /\ Request("conf") \in Requests /\ Request("proc") \in Requests /\ Request("ter") \in Requests
      /\ RequestOf("ether", 0) \in Requests /\ RequestOf("ether", 1) \in Requests
  BY DEF Request, RequestOf, Requests, RequestTypes
<1>3. ASSUME Due(s, y, b, RequestTypes) = 0, NEW q \in Requests, reqs = <<q>>, q.type \in Wanted(st),
             st = "WaitEtheInfo" => r.ethnum = 1
      PROVE  Agenda(r, y, b)
  BY <1>3, OneAgenda
<1>4. /\ "conf" \in Wanted("WaitConfigInfo") /\ "proc" \in Wanted("WaitProcInfo")
      /\ "ter" \in Wanted("WaitTermInfo") /\ "ether" \in Wanted("WaitEtheInfo")
  BY DEF Wanted, Expects
<1>5. CASE \/ s.state = "WaitSysInfo" /\ st = "WaitConfigInfo" /\ reqs = <<Request("conf")>>
           \/ s.state = "WaitConfigInfo" /\ st = "WaitProcInfo" /\ reqs = <<Request("proc")>>
           \/ s.state = "WaitProcInfo" /\ st = "WaitTermInfo" /\ reqs = <<Request("ter")>>
           \/ /\ s.state = "WaitProcInfo" /\ st = "WaitEtheInfo" /\ r.ethnum = 1
              /\ reqs = <<RequestOf("ether", 0)>>
  <2>1. Due(s, y, b, RequestTypes) = 0
    BY <1>5
  <2>2. /\ Request("conf").type = "conf" /\ Request("proc").type = "proc"
        /\ Request("ter").type = "ter" /\ RequestOf("ether", 0).type = "ether"
    BY DEF Request, RequestOf
  <2> QED
    BY <1>2, <1>3, <1>4, <1>5, <2>1, <2>2
<1>6. CASE /\ s.state = "WaitProcInfo" /\ st = "WaitEtheInfo" /\ r.ethnum = 2
           /\ reqs = <<RequestOf("ether", 1), RequestOf("ether", 0)>>
  <2>1. Due(s, y, b, RequestTypes) = 0
    BY <1>6
  <2>2. Len(reqs) = 2 /\ \A i \in 1..Len(reqs) : reqs[i].type = "ether"
    BY <1>6 DEF RequestOf
  <2>3. /\ \A i \in 1..Len(reqs) : reqs[i].type \in RequestTypes
        /\ Len(reqs) \in Nat
    BY <1>4, <1>6, <2>2 DEF RequestTypes
  <2>4. \A i \in 1..Len(reqs) : reqs[i].type \in Wanted(st)
    BY <1>4, <1>6, <2>2
  <2>5. Asks(reqs, RequestTypes) = 2
    <3>1. Asks(reqs, RequestTypes) = Len(reqs)
      BY <2>3, AllAsks
    <3> QED
      BY <2>2, <3>1
  <2>6. Quota(r) = 2
    BY <1>1, <1>6 DEF Quota
  <2>7. st \notin Late => Asks(reqs, RequestTypes) <= Quota(r)
    BY <2>5, <2>6
  <2>8. st = "WaitEtheInfo" => r.ethnum \in Nat
    BY <1>6
  <2> QED
    BY <2>1, <2>4, <2>7, <2>8, FreshAgenda
<1>7. CASE s.state = "WaitProcInfo" /\ st = "WaitProcInfo" /\ reqs = <<>>
  <2>1. Due(s, y, b, RequestTypes) = 0
    BY <1>7
  <2>2. Asks(reqs, RequestTypes) = 0
    <3>1. Asks(<<>>, RequestTypes) = 0
      BY SmallAsks
    <3> QED
      BY <1>7, <3>1
  <2>3. \A i \in 1..Len(reqs) : reqs[i].type \in Wanted(st)
    BY <1>7
  <2>4. Quota(r) = 1
    BY <1>1, <1>7 DEF Quota
  <2>5. st \notin Late => Asks(reqs, RequestTypes) <= Quota(r)
    BY <2>2, <2>4
  <2>6. st = "WaitEtheInfo" => r.ethnum \in Nat
    BY <1>7
  <2> QED
    BY <2>1, <2>3, <2>5, <2>6, FreshAgenda
<1>8. CASE s.state = "WaitEtheInfo" /\ r.ethnum = s.ethnum - 1
  <2>1. /\ s.ethnum \in Nat /\ Due(s, y, b, RequestTypes) + 1 <= s.ethnum
        /\ Due(s, y, b, RequestTypes \ {"ether"}) = 0 /\ Due(s, y, b, RequestTypes) \in Nat
    BY <1>8, NoneDue
  <2>2. CASE st = "WaitEtheInfo" /\ r.ethnum > 0 /\ reqs = <<>>
    <3>1. r.ethnum \in Nat /\ Due(s, y, b, RequestTypes) <= r.ethnum
      BY <1>8, <2>1, <2>2
    <3>2. Wanted(st) = {"ether"} /\ Quota(r) = r.ethnum
      BY <1>1, <2>2 DEF Wanted, Expects, Quota
    <3>3. \A Y : Due(r, y, b, Y) = Due(s, y, b, Y)
      <4> SUFFICES ASSUME NEW Y PROVE Due(r, y, b, Y) = Due(s, y, b, Y)
        OBVIOUS
      <4>0. Asks(<<>>, Y) = 0
        BY SmallAsks
      <4>3. Asks(reqs, Y) = 0
        BY <2>2, <4>0
      <4>1. Due(r, y, b, Y) = Due(s, y, b, Y) + Asks(reqs, Y) /\ Asks(reqs, Y) = 0
        BY <4>3, AskedDue
      <4>2. Due(s, y, b, Y) \in Nat
        BY NoneDue
      <4> QED
        BY <4>1, <4>2
    <3> QED
      BY <1>1, <2>1, <3>1, <3>2, <3>3 DEF Agenda
  <2>3. CASE st = "WaitTermInfo" /\ ~(r.ethnum > 0) /\ reqs = <<Request("ter")>>
    <3>1. Due(s, y, b, RequestTypes) = 0
      BY <1>8, <2>1, <2>3
    <3>2. Request("ter").type = "ter"
      BY DEF Request
    <3> QED
      BY <1>2, <1>3, <1>4, <2>3, <3>1, <3>2
  <2>4. \/ st = "WaitEtheInfo" /\ r.ethnum > 0 /\ reqs = <<>>
        \/ st = "WaitTermInfo" /\ ~(r.ethnum > 0) /\ reqs = <<Request("ter")>>
    BY <1>1, <1>8 DEF Routed
  <2> QED
    BY <2>2, <2>3, <2>4
<1> QED
  BY <1>1, <1>5, <1>6, <1>7, <1>8 DEF Routed

(* A session of which every terminal is counted has none to come. *)
LEMMA EndDue ==
  ASSUME NEW U, NEW r, NEW y, NEW b, Buffered(U, r, y, b), NEW p \in Profiles, Conforms(p),
         r.state = "End", Counting(r, p), Settled(r, y, b, p)
  PROVE  Due(r, y, b, IPTerm) = 0
<1>1. r.tty_connected = p.term_num /\ r.tty_cnt = r.tty_connected
  BY DEF Counting, AllCounted, Late
<1>2. Due(r, y, b, IPTerm) + r.tty_cnt = Cardinality(p.ttys)
  BY DEF Settled, Late
<1>3. p.term_num \in Nat /\ Cardinality(p.ttys) \in Nat /\ p.term_num >= Cardinality(p.ttys)
  BY ProfilesAssumption, FS_CardinalityType DEF Conforms
<1>4. Due(r, y, b, IPTerm) \in Nat
  BY NoneDue
<1> QED
  BY <1>1, <1>2, <1>3, <1>4

(* The packet of the state is taken, and what is asked for instead is what *)
(* the next state waits for.                                               *)
LEMMA ReadsAgenda ==
  ASSUME Dumb = {}, NEW P, Typed(P), Typed(P)', NEW c \in Conn, Framed(Stream(c)), Reads(c),
         NEW p \in Profiles, Conforms(p), \A z \in P[c] : ReplyOf(z, p),
         Counting(sess'[c], p), Settled(sess'[c], Stream(c)', s2c[c], p),
         Agenda(sess[c], Stream(c), s2c[c])
  PROVE  Agenda(sess'[c], Stream(c)', s2c'[c])
<1> DEFINE U == UnitsOf(P[c])
           s == sess[c]
           r == sess'[c]
           buf == Received(c)
           x == Stream(c)
           y == Stream(c)'
           b == s2c[c]
           t == First(buf).type
<1>1. s2c'[c] = b /\ Handled(s, buf, r) /\ buf # <<>>
  BY DEF Reads
<1>2. Buffered(U, s, y, b)
  BY TakenDue
<1>3. ASSUME NEW Y PROVE Due(s, x, b, Y) = Due(s, y, b, Y) + IF t \in Y THEN 1 ELSE 0
  BY TakenDue
<1>4. buf \in Seq(U) /\ First(buf) \in P[c]
  <2>1. buf \in Seq(U)
    BY ReceivedTyped
  <2> QED
    BY <1>1, <2>1, FirstTyped
<1>5. Buffered(U, r, y, b)
  <2>1. r.send_buffer \in Seq(Requests) /\ y \in Seq(U) /\ b \in Seq(Requests)
    BY <1>2 DEF Typed, SessionTyped, Buffered
  <2> QED
    BY <2>1 DEF Buffered
<1>6. Counting(r, p) /\ Settled(r, y, b, p) /\ Agenda(s, x, b)
  OBVIOUS
<1>7. IsFiniteSet(p.ttys) /\ p.ttys \in SUBSET Nat
  BY ProfilesAssumption
<1>8. ASSUME NEW z, z = First(buf), z.type = "ter" PROVE z.ttys = p.ttys
  BY <1>4, <1>8 DEF ReplyOf
<1> HIDE DEF U, s, r, x, y, b
<1>9. ASSUME NEW Y PROVE Due(s, y, b, Y) \in Nat
  BY <1>2, NoneDue
<1>10. Agenda(r, y, b)
  <2>1. ASSUME s.state \notin Late, s.state # "WaitEtheInfo", t \in RequestTypes
        PROVE  Due(s, y, b, RequestTypes) = 0
    <3>1. Due(s, x, b, RequestTypes) <= 1
      BY <1>6, <2>1 DEF Agenda, Quota
    <3>2. Due(s, x, b, RequestTypes) = Due(s, y, b, RequestTypes) + 1
      BY <1>3, <2>1
    <3> QED
      BY <1>9, <3>1, <3>2
  <2>2. ASSUME Due(s, x, b, RequestTypes \ Wanted(s.state)) = 0
        PROVE  Due(s, y, b, RequestTypes \ Wanted(s.state)) = 0
    BY <1>3, <1>9, <2>2
  <2>3. Due(s, y, b, RequestTypes \ Wanted(s.state)) = 0
    BY <1>6, <2>2 DEF Agenda
  <2>4. CASE HandledAuth(s, buf, r)
    <3>1. /\ s.state = "WaitAuth" /\ t = "auth"
          /\ Leads(s, r, "WaitSysInfo", Drop(buf, 2), <<Request("sys")>>)
      BY <2>4 DEF HandledAuth
    <3>2. Due(s, y, b, RequestTypes) = 0
      BY <2>1, <3>1 DEF RequestTypes, Late
    <3>3. Request("sys") \in Requests /\ Request("sys").type \in Wanted("WaitSysInfo")
      BY DEF Request, Requests, RequestTypes, Wanted, Expects
    <3> QED
      BY <1>2, <3>1, <3>2, <3>3, OneAgenda
  <2>5. CASE HandledPart(s, buf, r)
    <3>1. PICK st \in EarlyNext, reqs \in Seq([type : EarlyTypes, no : Nat]) :
            Leads(s, r, st, Drop(buf, 2), reqs) /\ Routed(s, t, r, reqs)
      BY <2>5 DEF HandledPart
    <3>2. reqs \in Seq(Requests)
      BY SmallRequests
    <3>3. s.state \in EarlyStates /\ t \in {"sys", "conf", "proc", "ether"}
      BY <2>5 DEF HandledPart
    <3>4. s.state \notin Late /\ t \in RequestTypes
      BY <3>3 DEF EarlyStates, Late, RequestTypes
    <3>5. s.state # "WaitEtheInfo" => Due(s, y, b, RequestTypes) = 0
      BY <2>1, <3>4
    <3>6. s.state = "WaitEtheInfo" => /\ s.ethnum \in Nat
                                      /\ Due(s, y, b, RequestTypes) + 1 <= s.ethnum
                                      /\ Due(s, y, b, RequestTypes \ {"ether"}) = 0
      <4> SUFFICES ASSUME s.state = "WaitEtheInfo"
                   PROVE  /\ s.ethnum \in Nat
                          /\ Due(s, y, b, RequestTypes) + 1 <= s.ethnum
                          /\ Due(s, y, b, RequestTypes \ {"ether"}) = 0
        OBVIOUS
      <4>1. s.ethnum \in Nat /\ Due(s, x, b, RequestTypes) <= s.ethnum
        BY <1>6, <3>4 DEF Agenda, Quota
      <4>2. Due(s, x, b, RequestTypes) = Due(s, y, b, RequestTypes) + 1
        BY <1>3, <3>4
      <4>3. Wanted(s.state) = {"ether"}
        BY DEF Wanted, Expects
      <4> QED
        BY <2>3, <4>1, <4>2, <4>3
    <3> QED
      BY <1>2, <3>1, <3>2, <3>5, <3>6, PartAgenda
  <2>6. CASE HandledTer(s, buf, r)
    <3>1. s.state = "WaitTermInfo" /\ t = "ter"
      BY <2>6 DEF HandledTer
    <3>2. Leads(s, r, "WaitIPTermInfo", Drop(buf, 2), TtyRequests(p.ttys))
      BY <1>8, <2>6, <3>1 DEF HandledTer
    <3>3. Due(s, y, b, RequestTypes) = 0
      BY <2>1, <3>1 DEF RequestTypes, Late
    <3> DEFINE reqs == TtyRequests(p.ttys)
    <3>4. reqs \in Seq(Requests) /\ \A i \in 1..Len(reqs) : reqs[i].type = "ipterm"
      BY <1>7, TtyRequestsTyped, TtyAsks
    <3> HIDE DEF reqs
    <3>5. \A i \in 1..Len(reqs) : reqs[i].type \in Wanted("WaitIPTermInfo")
      BY <3>4 DEF Wanted, Expects
    <3>6. "WaitIPTermInfo" \notin Late => Asks(reqs, RequestTypes) <= Quota(r)
      BY DEF Late
    <3>7. "WaitIPTermInfo" = "WaitEtheInfo" => r.ethnum \in Nat
      OBVIOUS
    <3>8. Leads(s, r, "WaitIPTermInfo", Drop(buf, 2), reqs)
      BY <3>2 DEF reqs
    <3> QED
      BY <1>2, <3>3, <3>4, <3>5, <3>6, <3>7, <3>8, FreshAgenda
  <2>7. CASE HandledIPTerm(s, buf, r)
    <3>1. /\ s.state = "WaitIPTermInfo"
          /\ \/ Leads(s, r, "WaitScrInfo", Drop(buf, 2), <<>>)
             \/ Leads(s, r, "End", Drop(buf, 2), <<Request("end")>>)
             \/ Leads(s, r, "WaitIPTermInfo", Drop(buf, 2), <<>>)
      BY <2>7 DEF HandledIPTerm, TookTerminal
    <3>2. Wanted(s.state) = Expects("WaitIPTermInfo")
      BY <3>1 DEF Wanted
    <3>3. Due(s, y, b, RequestTypes \ Expects("WaitIPTermInfo")) = 0
      BY <2>3, <3>2
    <3>4. r.state = "End" => Due(r, y, b, IPTerm) = 0
      BY <1>5, <1>6, EndDue
    <3>5. CASE Leads(s, r, "WaitScrInfo", Drop(buf, 2), <<>>)
      BY <1>2, <3>3, <3>5, LateAgenda
    <3>6. CASE Leads(s, r, "End", Drop(buf, 2), <<Request("end")>>)
      <4>1. Due(r, y, b, IPTerm) = 0
        BY <3>4, <3>6 DEF Leads
      <4> QED
        BY <1>2, <3>3, <3>6, <4>1, LateAgenda
    <3>7. CASE Leads(s, r, "WaitIPTermInfo", Drop(buf, 2), <<>>)
      BY <1>2, <3>3, <3>7, LateAgenda
    <3> QED
      BY <3>1, <3>5, <3>6, <3>7
  <2>8. CASE HandledEnd(s, buf, r)
    <3>1. /\ s.state = "End" /\ Leads(s, r, "End", Drop(buf, 1), <<>>) /\ r.state = "End"
      BY <2>8 DEF HandledEnd, Leads
    <3>2. <<>> \in Seq(Requests) /\ Asks(<<>>, RequestTypes \ Wanted("End")) = 0
      BY SmallAsks, SmallRequests
    <3>3. Due(s, y, b, RequestTypes \ Wanted("End")) = 0
      BY <2>3, <3>1
    <3> DEFINE W == RequestTypes \ Wanted("End")
               reqs == <<>>
    <3>4. Leads(s, r, "End", Drop(buf, 1), reqs) /\ reqs \in Seq(Requests) /\ Asks(reqs, W) = 0
          /\ Due(s, y, b, W) = 0
      BY <3>1, <3>2, <3>3
    <3> HIDE DEF W, reqs
    <3>5. Due(r, y, b, W) = Due(s, y, b, W) + Asks(reqs, W)
      BY <1>2, <3>4, AskedDue
    <3> QED
      BY <3>1, <3>4, <3>5 DEF Agenda, Late, W
  <2>9. ~HandledDumb(s, buf, r)
    BY <1>1, <1>4, NoneDumb DEF Typed, U
  <2> QED
    BY <1>1, <2>4, <2>5, <2>6, <2>7, <2>8, <2>9 DEF Handled
<1> QED
  BY <1>1, <1>10 DEF r, y, b

LEMMA SettlesAgenda ==
  ASSUME Dumb = {}, ~GarbageHeader, NEW P, Typed(P), Typed(P)', NEW c \in Conn, Settles(c),
         sess[c].is_scr => ScreensAt(sess[c]), sess[c].state = "WaitScrInfo" => sess[c].is_scr,
         NEW p \in Profiles, Conforms(p),
         Counting(sess'[c], p), Settled(sess'[c], Stream(c)', s2c[c], p),
         Agenda(sess[c], Stream(c), s2c[c])
  PROVE  Agenda(sess'[c], Stream(c)', s2c'[c])
<1> DEFINE U == UnitsOf(P[c])
           s == sess[c]
           r == sess'[c]
           x == Stream(c)
           y == Stream(c)'
           b == s2c[c]
<1>1. s2c'[c] = b /\ (Greeted(s, r) \/ TookScreens(s, r))
  BY DEF Settles
<1>2. Buffered(U, s, x, b) /\ Buffered(U, s, y, b) /\ Buffered(U, r, y, b)
  <2>1. /\ s.send_buffer \in Seq(Requests) /\ r.send_buffer \in Seq(Requests) /\ b \in Seq(Requests)
        /\ x \in Seq(U) /\ y \in Seq(U)
    BY StreamTyped, NextStreamTyped DEF Typed, SessionTyped
  <2> QED
    BY <2>1 DEF Buffered
<1>3. Counting(r, p) /\ Settled(r, y, b, p) /\ Agenda(s, x, b)
  OBVIOUS
<1>4. ASSUME Greeted(s, r) PROVE y = x
  BY <1>4 DEF Greeted, Leads, Settles, Stream
<1>5. ASSUME TookScreens(s, r), NEW Y PROVE Heads(x, Y) = Heads(y, Y)
  BY <1>5, TookDue DEF TookScreens, Settles
<1> HIDE DEF U, s, r, x, y, b
<1>6. CASE Greeted(s, r)
  <2>1. s.state = "Acceptance" /\ Leads(s, r, "WaitAuth", s.recv_buffer, <<Request("auth")>>)
    BY <1>6 DEF Greeted
  <2>2. Wanted(s.state) = {} /\ RequestTypes \ {} = RequestTypes
    BY <2>1 DEF Wanted
  <2>3. Due(s, y, b, RequestTypes) = 0
    BY <1>3, <1>4, <1>6, <2>2 DEF Agenda
  <2>4. Request("auth") \in Requests /\ Request("auth").type \in Wanted("WaitAuth")
    BY DEF Request, Requests, RequestTypes, Wanted, Expects
  <2>5. Agenda(r, y, b)
    BY <1>2, <2>1, <2>3, <2>4, OneAgenda
  <2> QED
    BY <1>1, <2>5 DEF r, y
<1>7. CASE TookScreens(s, r)
  <2>1. /\ s.state = "WaitScrInfo"
        /\ \E rest : \/ Leads(s, r, "End", rest, <<Request("end")>>)
                     \/ Leads(s, r, "WaitIPTermInfo", rest, <<>>)
    BY <1>7 DEF TookScreens
  <2>2. Wanted(s.state) = Expects("WaitIPTermInfo")
    BY <2>1 DEF Wanted
  <2>3. Due(s, x, b, RequestTypes \ Expects("WaitIPTermInfo")) = 0
    BY <1>3, <2>2 DEF Agenda
  <2>4. Due(s, y, b, RequestTypes \ Expects("WaitIPTermInfo")) = 0
    BY <1>5, <1>7, <2>3 DEF Due
  <2>5. r.state = "End" => Due(r, y, b, IPTerm) = 0
    BY <1>2, <1>3, EndDue
  <2>6. Agenda(r, y, b)
    <3>1. PICK rest : \/ Leads(s, r, "End", rest, <<Request("end")>>)
                      \/ Leads(s, r, "WaitIPTermInfo", rest, <<>>)
      BY <2>1
    <3>2. CASE Leads(s, r, "End", rest, <<Request("end")>>)
      <4>1. Due(r, y, b, IPTerm) = 0
        BY <2>5, <3>2 DEF Leads
      <4> QED
        BY <1>2, <2>4, <3>2, <4>1, LateAgenda
    <3>3. CASE Leads(s, r, "WaitIPTermInfo", rest, <<>>)
      BY <1>2, <2>4, <3>3, LateAgenda
    <3> QED
      BY <3>1, <3>2, <3>3
  <2> QED
    BY <1>1, <2>6 DEF r, y
<1> QED
  BY <1>1, <1>6, <1>7

LEMMA ServerAgrees ==
  ASSUME Dumb = {}, ~GarbageHeader, NEW P, Typed(P), Shape, Lists, ServerNext, ScreensWhole, status' = "up",
         NEW c \in Conn, Framed(Stream(c)), NEW p \in Profiles, Conforms(p), \A x \in P[c] : ReplyOf(x, p),
         Counting(sess'[c], p), Settled(sess'[c], Stream(c)', s2c'[c], p),
         Writes(c) => peer'[c] = "open", c \in Serving => c \in Serving',
         Agenda(sess[c], Stream(c), s2c[c])
  PROVE  Agenda(sess'[c], Stream(c)', s2c'[c])
<1>1. Typed(P)'
  BY ServerTyped
<1>2. CASE Reads(c)
  <2>1. s2c'[c] = s2c[c]
    BY <1>2 DEF Reads
  <2> QED
    BY <1>1, <1>2, <2>1, ReadsAgenda
<1>3. CASE Writes(c)
  <2>1. sess'[c].state = sess[c].state /\ sess'[c].ethnum = sess[c].ethnum
    BY <1>3 DEF Writes
  <2>2. \A Y : Due(sess'[c], Stream(c)', s2c'[c], Y) = Due(sess[c], Stream(c), s2c[c], Y)
    BY <1>3, WritesDue
  <2> QED
    BY <2>1, <2>2 DEF Agenda, Quota
<1>4. CASE Settles(c)
  <2>1. sess[c].is_scr => ScreensAt(sess[c])
    BY DEF ScreensWhole, ScreensAt
  <2>2. sess[c].state = "WaitScrInfo" => sess[c].is_scr
    BY DEF Shape, ClientOK
  <2>3. s2c'[c] = s2c[c]
    BY <1>4 DEF Settles
  <2> QED
    BY <1>1, <1>4, <2>1, <2>2, <2>3, SettlesAgenda
<1>5. CASE Removes(c)
  BY <1>5 DEF Removes
<1>6. CASE UNCHANGED <<sess[c], s2c[c], sock[c], wire[c]>>
  <2>1. Stream(c)' = Stream(c)
    BY <1>6 DEF Stream
  <2> QED
    BY <1>6, <2>1
<1>7. CASE Rests
  <2>1. \A d \in Conn : ~OnWildPointer(d)
    BY DEF OnWildPointer
  <2> QED
    BY <1>6, <1>7, <2>1 DEF Rests
<1>8. ASSUME NEW d \in Conn, d # c, Reads(d) \/ Writes(d) \/ Settles(d) \/ Removes(d)
      PROVE  UNCHANGED <<sess[c], s2c[c], sock[c], wire[c]>>
  BY <1>8 DEF Reads, Writes, Settles, Removes, Others, Apart
<1> QED
  BY <1>2, <1>3, <1>4, <1>5, <1>6, <1>7, <1>8, ServerDoes

(* A device of the protocol answers with the packet it was asked for. *)
LEMMA AnswerAgenda ==
  ASSUME NEW P, NEW D, Devices(P, D), Distinct, Typed(P), NEW c \in Conn, Answer(c),
         Conforms(prof[c]), Agenda(sess[c], Stream(c), s2c[c])
  PROVE  Agenda(sess[c], Stream(c)', s2c'[c])
<1>1. PICK r \in RandomNums :
        wire' = [wire EXCEPT ![c] = wire[c] \o Blocks(Reply(prof[c], Head(s2c[c]), r))]
  BY DEF Answer
<1> DEFINE b == s2c[c]
           q == Head(b)
           x == Reply(prof[c], q, r)
           s == sess[c]
<1>2. /\ b \in Seq(Requests) /\ b # <<>> /\ q \in Requests /\ s.send_buffer \in Seq(Requests)
      /\ s2c' = [s2c EXCEPT ![c] = Tail(b)] /\ s2c = [e \in Conn |-> s2c[e]]
      /\ wire = [e \in Conn |-> wire[e]] /\ sock' = sock /\ sess' = sess
  BY DEF Answer, Typed, SessionTyped, serverVars
<1>3. x \in P[c] /\ prof[c] \in Profiles
  BY <1>2 DEF Devices, PacketsOf, Distinct
<1>4. x.type = q.type
  <2>1. CASE q.type = "auth"
    <3>1. x = Report(prof[c], r) /\ ~prof[c].newer
      BY <2>1 DEF Reply, Conforms
    <3> HIDE DEF x
    <3>2. x.type = "auth"
      BY <3>1 DEF Report, AuthPacket
    <3> QED
      BY <2>1, <3>2
  <2>2. CASE q.type # "auth"
    BY <1>2, <1>3, <2>2, ReplyKey
  <2> QED
    BY <2>1, <2>2
<1>5. wire'[c] = wire[c] \o Whole(x)
  <2>1. Blocks(x) = Whole(x)
    BY DEF Blocks, Whole
  <2>2. wire' = [wire EXCEPT ![c] = wire[c] \o Whole(x)]
    BY <1>1, <2>1
  <2> QED
    BY <1>2, <2>2, Exchanged, Zenon
<1>6. s2c'[c] = Tail(b)
  BY <1>2, Exchanged, Zenon
<1> HIDE DEF x
<1>7. ASSUME NEW Y PROVE Due(s, Stream(c)', Tail(b), Y) = Due(s, Stream(c), b, Y)
  <2>1. /\ Heads(Stream(c)', Y) = Heads(Stream(c), Y) + IF x.type \in Y THEN 1 ELSE 0
        /\ Heads(Stream(c), Y) \in Nat
    BY <1>2, <1>3, <1>5, AnswerDue
  <2> HIDE DEF b, s, q
  <2>2. Asks(b, Y) = Asks(Tail(b), Y) + IF Head(b).type \in Y THEN 1 ELSE 0
    BY <1>2, OneAsk
  <2>3. Asks(Tail(b), Y) \in Nat
    <3>1. Tail(b) \in Seq(Requests)
      BY <1>2, HeadTailProperties
    <3> QED
      BY <3>1, CountJoin
  <2>4. Asks(s.send_buffer, Y) \in Nat
    BY <1>2, CountJoin
  <2> QED
    BY <1>4, <2>1, <2>2, <2>3, <2>4 DEF Due, q
<1>8. Agenda(s, Stream(c), b)
  OBVIOUS
<1> HIDE DEF b, s
<1>9. Agenda(s, Stream(c)', Tail(b))
  BY <1>7, <1>8 DEF Agenda
<1> QED
  BY <1>6, <1>9 DEF s

(* Of every connection that is served, and whose device follows the        *)
(* protocol.                                                               *)
Agreeing == status = "up" =>
  \A c \in Conn : Served(c) /\ Conforms(prof[c]) => Agenda(sess[c], Stream(c), s2c[c])

LEMMA AgreeingInit == Init => Agreeing
<1> SUFFICES ASSUME Init, NEW c \in Conn PROVE Agenda(sess[c], Stream(c), s2c[c])
  BY DEF Agreeing
<1>1. /\ sess[c].recv_buffer = <<>> /\ sess[c].send_buffer = <<>> /\ sess[c].state = "Acceptance"
      /\ sock[c] = <<>> /\ wire[c] = <<>> /\ s2c[c] = <<>>
  BY DEF Init, NetInit, ServerInit, NewClient
<1>2. <<>> \o (<<>> \o <<>>) = <<>> /\ Len(<<>>) = 0
  OBVIOUS
<1>3. Stream(c) = <<>>
  BY <1>1, <1>2 DEF Stream
<1>4. ASSUME NEW Y PROVE Due(sess[c], Stream(c), s2c[c], Y) = 0
  <2>1. Heads(<<>>, Y) = 0 /\ Asks(<<>>, Y) = 0
    BY <1>2, NoHeads, NoAsks
  <2> QED
    BY <1>1, <1>3, <2>1 DEF Due
<1> QED
  BY <1>1, <1>4 DEF Agenda, Quota

LEMMA AgendaKept ==
  ASSUME NEW c \in Conn, UNCHANGED <<sess[c], s2c[c], Stream(c)>>,
         Agenda(sess[c], Stream(c), s2c[c])
  PROVE  Agenda(sess[c], Stream(c), s2c[c])'
BY DEF Agenda, Due, Quota

LEMMA AgreeingStep ==
  ASSUME Dumb = {}, ~GarbageHeader
  PROVE  /\ Sound /\ Streams /\ ScreensWhole /\ Agreeing /\ [Next]_vars
         /\ Sound' /\ Recording' /\ Account'
         => Agreeing'
<1> SUFFICES ASSUME Sound, Streams, ScreensWhole, Agreeing, [Next]_vars, Sound', Recording', Account',
                    status' = "up", NEW c \in Conn, Served(c)', Conforms(prof[c])'
             PROVE  Agenda(sess[c], Stream(c), s2c[c])'
  BY DEF Agreeing
<1>1. PICK P, D : Devices(P, D) /\ Typed(P)
  BY DEF Sound
<1>2. Distinct /\ Shape /\ Lists /\ Quiet
  BY DEF Sound, Owing
<1>3. prof' = prof
  BY DEF Next, DeviceNext, Connect, Answer, Leave, Die, Arrive, vars
<1>4. status = "up"
  BY ServerStatus DEF Next, DeviceNext, Connect, Answer, Leave, Die, Arrive, serverVars, vars
<1>5. Served(c) /\ Conforms(prof[c]) /\ prof[c] \in Profiles
  BY <1>2, <1>3, ServedStep DEF Distinct, Conforms
<1>6. Agenda(sess[c], Stream(c), s2c[c]) /\ Framed(Stream(c))
  BY <1>4, <1>5 DEF Agreeing, Streams
<1>7. CASE UNCHANGED <<sess[c], s2c[c], Stream(c)>>
  BY <1>6, <1>7, AgendaKept
<1>8. CASE ServerNext
  <2>1. peer'[c] \in {"idle", "open"} => peer'[c] = peer[c]
    BY <1>1, <1>2, <1>8, ServerStream
  <2>2. c \in Serving => c \in Serving'
    BY <1>2, <2>1 DEF Served, Quiet
  <2>3. ASSUME NEW x \in P[c] PROVE ReplyOf(x, prof[c])
    <3>1. PICK q \in Requests, r \in RandomNums : x = Reply(prof[c], q, r)
      BY <1>1 DEF Devices, PacketsOf
    <3>2. /\ x.type = "ipterm" => x.tty = q.no /\ x.screen_num = ScreensOf(prof[c], q.no)
          /\ x.type = "ter" => x.term_num = prof[c].term_num /\ x.ttys = prof[c].ttys
      BY <1>5, <3>1, ReplyKey
    <3> QED
      BY <3>2 DEF ReplyOf
  <2>4. PICK p : p = prof[c]
    OBVIOUS
  <2>5. Counting(sess'[c], p)
    BY <1>3, <2>4 DEF Recording, Counting, AllCounted
  <2>6. peer'[c] = "idle" => sess'[c] = NewClient /\ sess[c] = NewClient
    <3>1. CASE peer'[c] = "idle"
      <4>1. c \notin Serving /\ c \notin Serving'
        BY <1>2, <2>1, <3>1 DEF Sound, Quiet
      <4>2. sess[c] = NewClient
        BY <1>2, <4>1 DEF Lists, Serving
      <4>3. sess'[c] = NewClient
        BY <4>1 DEF Sound, Lists, Serving
      <4> QED
        BY <4>2, <4>3
    <3> QED
      BY <3>1
  <2>7. Settled(sess'[c], Stream(c)', s2c'[c], p)
    <3>1. CASE peer'[c] = "open"
      BY <1>3, <2>4, <3>1 DEF Account, Settled, Due
    <3>2. CASE peer'[c] = "idle"
      BY <2>6, <3>2 DEF Settled, NewClient, Late
    <3> QED
      BY <3>1, <3>2 DEF Served
  <2>8. Writes(c) => peer'[c] = "open"
    BY <2>6 DEF Writes, NewClient, Served
  <2>9. Agenda(sess'[c], Stream(c)', s2c'[c])
    BY <1>1, <1>2, <1>5, <1>6, <1>8, <2>2, <2>3, <2>4, <2>5, <2>7, <2>8, ServerAgrees
  <2> QED
    BY <2>9 DEF Agenda, Due, Quota
<1>9. CASE DeviceNext
  <2>1. PICK d \in Conn : Connect(d) \/ Answer(d) \/ Leave(d) \/ Die(d)
    BY <1>9 DEF DeviceNext
  <2>2. CASE Connect(d)
    BY <1>7, <2>2 DEF Connect, serverVars, Stream
  <2>3. CASE Answer(d)
    <3>1. /\ sess' = sess /\ sock' = sock
          /\ s2c' = [s2c EXCEPT ![d] = Tail(s2c[d])] /\ s2c = [e \in Conn |-> s2c[e]]
      BY <1>1, <2>3 DEF Answer, serverVars, Typed
    <3>2. CASE c = d
      <4>1. Agenda(sess[c], Stream(c)', s2c'[c])
        BY <1>1, <1>2, <1>5, <1>6, <2>3, <3>2, AnswerAgenda
      <4> QED
        BY <3>1, <4>1 DEF Agenda, Due, Quota
    <3>3. CASE c # d
      <4>1. wire'[c] = wire[c]
        BY <1>1, <1>2, <2>3, <3>3, AnswerDoes
      <4>2. s2c'[c] = s2c[c]
        BY <3>1, <3>3, Exchanged, Zenon
      <4> QED
        BY <1>7, <3>1, <4>1, <4>2 DEF Stream
    <3> QED
      BY <3>2, <3>3
  <2>4. CASE Leave(d) \/ Die(d)
    <3>1. /\ peer'[d] \in {"closed", "reset"} /\ UNCHANGED <<sock, serverVars>>
          /\ \A e \in Conn : e # d => wire'[e] = wire[e]
      BY <1>1, <2>4, GoneDoes
    <3>2. c # d /\ s2c' = s2c
      BY <2>4, <3>1 DEF Leave, Die, Served
    <3> QED
      BY <1>7, <3>1, <3>2 DEF Stream, serverVars
  <2> QED
    BY <2>1, <2>2, <2>3, <2>4
<1>10. CASE Arrive
  <2>1. PICK d \in Conn : Deliver(d) /\ UNCHANGED serverVars
    BY <1>10 DEF Arrive
  <2>2. UNCHANGED <<Stream(c), s2c, sess>>
    BY <1>1, <2>1, DeliverDoes DEF Deliver, serverVars
  <2> QED
    BY <1>7, <2>2
<1>11. CASE UNCHANGED vars
  <2>1. UNCHANGED <<Stream(c), s2c, sess>>
    BY <1>11 DEF vars, netVars, serverVars, Stream
  <2> QED
    BY <1>7, <2>1
<1> QED
  BY <1>8, <1>9, <1>10, <1>11 DEF Next

(* A session select() found readable has bytes to read, as long as its     *)
(* client is there.                                                        *)
Attentive == \A c \in ready : peer[c] = "open" => sock[c] # <<>>

LEMMA AttentiveStep == Sound /\ Attentive /\ [Next]_vars => Attentive'
<1> SUFFICES ASSUME Sound, Attentive, [Next]_vars, NEW c \in ready', peer'[c] = "open"
             PROVE  sock'[c] # <<>>
  BY DEF Attentive
<1>1. PICK P, D : Devices(P, D) /\ Typed(P)
  BY DEF Sound
<1>2. /\ Lists /\ Quiet /\ Held \subseteq Conn /\ ready \subseteq Conn
      /\ peer = [e \in Conn |-> peer[e]] /\ sock = [e \in Conn |-> sock[e]]
  BY <1>1, ListedIn DEF Sound, Owing, Typed, Lists, Listing, Held
<1>3. CASE c \in ready /\ peer[c] = "open" /\ sock'[c] = sock[c]
  BY <1>3 DEF Attentive
<1>4. CASE Select
  <2>1. /\ c \in Conn /\ Readable(c) /\ sock' = sock /\ peer' = peer
    BY <1>4 DEF Select, netVars
  <2> QED
    BY <2>1 DEF Readable, Ended
<1>5. ASSUME NEW d \in Conn, ReadPacket(d) \/ ReadRefused(d) \/ ReadBroken(d) \/ OnWildPointer(d)
      PROVE  sock'[c] # <<>>
  <2>1. /\ ready' = ready \ {d} /\ peer' = peer
        /\ sock' = [sock EXCEPT ![d] = Drop(sock[d], Taken(d))]
    BY <1>5 DEF ReadPacket, ReadRefused, ReadBroken, OnWildPointer, Receive
  <2>2. c # d /\ c \in ready /\ c \in Conn
    BY <1>2, <2>1
  <2>3. sock'[c] = sock[c]
    BY <1>2, <2>1, <2>2, Exchanged, Zenon
  <2> QED
    BY <1>3, <2>1, <2>2, <2>3
<1>6. ASSUME NEW d \in Conn, Write(d)
      PROVE  sock'[c] # <<>>
  <2>1. /\ sock' = sock /\ ready' = ready
        /\ peer' = peer \/ peer' = [peer EXCEPT ![d] = "reset"]
    BY <1>6 DEF Write
  <2>2. peer[c] = "open"
    BY <1>2, <2>1
  <2> QED
    BY <1>3, <2>1, <2>2
<1>7. CASE UNCHANGED <<sock, ready, peer>>
  BY <1>3, <1>7
<1>8. CASE ServerNext
  BY <1>4, <1>5, <1>6, <1>7, <1>8
     DEF ServerNext, Accept, WriteFails, TailStep, TailThrows, netVars
<1>9. CASE DeviceNext
  <2>1. PICK d \in Conn : Connect(d) \/ Answer(d) \/ Leave(d) \/ Die(d)
    BY <1>9 DEF DeviceNext
  <2>2. UNCHANGED <<sock, ready>>
    BY <2>1 DEF Connect, Answer, Leave, Die, serverVars
  <2>3. CASE Connect(d)
    <3>1. peer[d] = "idle" /\ \A e \in Conn : e # d => peer'[e] = peer[e]
      BY <1>2, <2>3, Exchanged, Zenon DEF Connect
    <3>2. c # d
      BY <1>2, <2>2, <3>1 DEF Lists, Quiet, Serving
    <3>3. c \in Conn
      BY <1>2, <2>2
    <3> QED
      BY <1>3, <2>2, <3>1, <3>2, <3>3
  <2>4. CASE Answer(d)
    BY <1>3, <2>2, <2>4 DEF Answer
  <2>5. CASE Leave(d) \/ Die(d)
    <3>1. peer'[d] \in {"closed", "reset"} /\ \A e \in Conn : e # d => peer'[e] = peer[e]
      BY <1>1, <2>5, GoneDoes
    <3>2. c # d /\ c \in Conn
      BY <1>2, <2>2, <3>1
    <3> QED
      BY <1>3, <2>2, <3>1, <3>2
  <2> QED
    BY <2>1, <2>3, <2>4, <2>5
<1>10. CASE Arrive
  <2>1. PICK d \in Conn : Deliver(d) /\ UNCHANGED serverVars
    BY <1>10 DEF Arrive
  <2>2. peer' = peer /\ ready' = ready /\ \A e \in Conn : sock[e] # <<>> => sock'[e] # <<>>
    BY <1>1, <2>1, DeliverDoes DEF serverVars
  <2> QED
    BY <1>2, <2>2 DEF Attentive
<1>11. CASE UNCHANGED vars
  BY <1>7, <1>11 DEF vars, netVars, serverVars
<1> QED
  BY <1>8, <1>9, <1>10, <1>11 DEF Next

(* The buffer of a session holds any packet of the device.                 *)
Room(p) == 2 <= Capacity /\ \A t \in p.ttys : p.scr[t] + 2 <= Capacity

(* What a device of the protocol answers can be taken.                     *)
LEMMA ConformingReply ==
  ASSUME NEW p \in Profiles, Conforms(p), Room(p), NEW q \in Requests, NEW r \in RandomNums,
         NEW x, x = Reply(p, q, r)
  PROVE  /\ x.type \in RequestTypes
         /\ x.type = "auth" => Authentic(x)
         /\ PacketUnits(x) \in Nat /\ PacketUnits(x) <= Capacity
<1>1. q.type \in RequestTypes /\ q.no \in Nat
  BY DEF Requests
<1>2. CASE q.type = "auth"
  <2>1. x = AuthPacket(p.dev, p.ethnum, r, Crypted(kSecret, r, <<0>> \o c_auth))
    BY <1>2 DEF Reply, Report, Conforms, Plain
  <2>2. /\ x.type = "auth" /\ x.random_num = r /\ x.auth = Crypted(kSecret, r, <<0>> \o c_auth)
    BY <2>1 DEF AuthPacket
  <2>3. r \in Nat /\ <<0>> \in Seq(Bit)
    BY CodecAssumption DEF Bit
  <2>4. Authentic(x)
    BY <2>2, <2>3, RoundTrip DEF Authentic
  <2>5. PacketUnits(x) = 2
    BY <2>2 DEF PacketUnits, HasData, Screens
  <2> QED
    BY <1>1, <1>2, <2>2, <2>4, <2>5 DEF Room
<1>3. CASE q.type # "auth"
  <2>1. x.type = q.type
    BY <1>3, ReplyKey
  <2>2. CASE q.type \in {"dumbterm", "ipterm"}
    <3>1. x.screen_num = ScreensOf(p, q.no)
      BY <2>2 DEF Reply, TtyPacket
    <3>2. ScreensOf(p, q.no) \in Nat /\ 2 + ScreensOf(p, q.no) <= Capacity
      <4>1. CASE q.no \in p.ttys
        <5>1. p.scr[q.no] \in Nat
          BY <4>1, ProfilesAssumption
        <5> QED
          BY <4>1, <5>1, CapacityAssumption DEF ScreensOf, Room
      <4>2. CASE q.no \notin p.ttys
        BY <4>2 DEF ScreensOf, Room
      <4> QED
        BY <4>1, <4>2
    <3>3. PacketUnits(x) = 2 + ScreensOf(p, q.no)
      BY <2>1, <2>2, <3>1 DEF PacketUnits, HasData, Screens
    <3> QED
      BY <1>1, <1>3, <2>1, <3>2, <3>3
  <2>3. CASE q.type \notin {"dumbterm", "ipterm"}
    <3>1. PacketUnits(x) \in {1, 2}
      BY <2>1, <2>3 DEF PacketUnits, HasData, Screens
    <3> QED
      BY <1>1, <1>3, <2>1, <3>1, CapacityAssumption DEF Room
  <2> QED
    BY <2>2, <2>3
<1> QED
  BY <1>2, <1>3

(* A session is dropped in one of three ways. *)
LEMMA Dropped ==
  ASSUME Lists, Shape, ServerNext, NEW c \in Held, c \notin Held'
  PROVE  ReadRefused(c) \/ ReadBroken(c) \/ WriteFails(c)
<1>1. todo \subseteq Held /\ Held \subseteq Conn
  BY ListedIn DEF Lists, Listing, Held
<1>2. session_set' # session_set
  BY DEF Held
<1>3. ~Accept
  <2> SUFFICES ASSUME Accept PROVE FALSE
    OBVIOUS
  <2> DEFINE accepted == IF incoming THEN <<Head(backlog)>> ELSE <<>>
  <2>1. session_set' = session_set \o accepted
    BY DEF Accept
  <2>2. session_set \in Seq(Conn) /\ accepted \in Seq(Conn)
    <3>1. CASE incoming
      <4>1. backlog \in Seq(Conn) /\ backlog # <<>>
        BY <3>1 DEF Accept, Running, Lists, Listing
      <4>2. Head(backlog) \in Conn
        BY <4>1
      <4> QED
        BY <3>1, <4>2 DEF Lists, Listing
    <3>2. CASE ~incoming
      BY <3>2 DEF Lists, Listing
    <3> QED
      BY <3>1, <3>2
  <2> HIDE DEF accepted
  <2>3. PICK i \in 1..Len(session_set) : session_set[i] = c
    BY <2>2, ListedIn DEF Held
  <2>4. /\ session_set \o accepted \in Seq(Conn)
        /\ Len(session_set \o accepted) = Len(session_set) + Len(accepted)
        /\ \A k \in 1..(Len(session_set) + Len(accepted)) :
             k <= Len(session_set) => (session_set \o accepted)[k] = session_set[k]
        /\ Len(session_set) \in Nat /\ Len(accepted) \in Nat
    BY <2>2, ConcatProperties, LenProperties
  <2>5. i \in 1..Len(session_set') /\ session_set'[i] = c
    BY <2>1, <2>3, <2>4
  <2>6. c \in ToSet(session_set')
    BY <2>1, <2>4, <2>5, ListedIn
  <2> QED
    BY <2>6 DEF Held
<1>4. PICK d \in Conn : ReadRefused(d) \/ ReadBroken(d) \/ WriteFails(d)
  BY <1>2, <1>3 DEF ServerNext, Select, ReadPacket, OnWildPointer, Write, TailStep, TailThrows
<1>5. d \in todo /\ Without(d)
  BY <1>4 DEF ReadRefused, ReadBroken, WriteFails, Receive, Visiting, IsNext, RemoveCurrent
<1>6. Held' = Held \ {d}
  BY <1>1, <1>5, WithoutLists
<1> QED
  BY <1>4, <1>6

(* What is read begins with a head.  It holds the packet, as the buffer    *)
(* has the room, unless the rest of it has not arrived.                    *)
LEMMA ReadsWhole ==
  ASSUME NEW P, Typed(P), NEW c \in Conn, Framed(Stream(c)), Led(Stream(c), 0),
         Received(c) # <<>>, \A p \in P[c] : PacketUnits(p) <= Capacity
  PROVE  /\ HoldsPacket(Received(c)) \/ InPart(c)
         /\ ~Misread(Received(c))
         /\ 1 \in 1..Len(Stream(c)) /\ Stream(c)[1].part = "head"
         /\ First(Received(c)) = Stream(c)[1].pkt
<1> DEFINE U == UnitsOf(P[c])
           held == sess[c].recv_buffer
           here == sock[c]
           k == Taken(c)
           buf == Received(c)
           rest == Coming(c)
           x == Stream(c)
           m == Len(buf)
<1>1. /\ buf \in Seq(U) /\ rest \in Seq(U) /\ x = buf \o rest /\ x \in Seq(U)
      /\ here \in Seq(U) /\ held \in Seq(U)
  BY StreamSplit, StreamTyped DEF Typed, SessionTyped
<1>2. m \in Nat \ {0} /\ m = Len(held) + k
  BY <1>1, ReceivedTyped, EmptySeq
<1>3. k = Len(here) \/ k = Capacity - Len(held)
  BY DEF Taken
<1>4. k = Len(here) => buf = held \o here
  <2> SUFFICES ASSUME k = Len(here) PROVE buf = held \o here
    OBVIOUS
  <2>1. buf = held \o SubSeq(here, 1, Len(here))
    BY DEF Received
  <2>2. Len(here) \in Nat /\ Len(here) \in 0..Len(here)
    BY <1>1, LenProperties
  <2> HIDE DEF here, held, buf, U
  <2>3. /\ SubSeq(here, 1, Len(here)) \in Seq(U) /\ Len(SubSeq(here, 1, Len(here))) = Len(here)
        /\ \A i \in 1..Len(here) : SubSeq(here, 1, Len(here))[i] = here[i]
    BY <1>1, <2>2, FrontProperties
  <2>4. SubSeq(here, 1, Len(here)) = here
    BY <1>1, <2>3, SeqEqual
  <2> QED
    BY <2>1, <2>4
<1>5. Framed(x) /\ Led(x, 0) /\ \A p \in P[c] : PacketOK(p)
  BY DEF Typed
<1>6. Len(held) \in Nat /\ buf # <<>>
  BY <1>1, LenProperties
<1>7. held \o here = sess[c].recv_buffer \o sock[c]
  OBVIOUS
<1> HIDE DEF held, here, k, buf, rest, x, m
<1>8. /\ Len(x) = m + Len(rest) /\ Len(rest) \in Nat
      /\ \A i \in 1..(m + Len(rest)) : x[i] = IF i <= m THEN buf[i] ELSE rest[i - m]
  BY <1>1, ConcatProperties, LenProperties DEF m
<1>9. x # <<>> /\ 1 \in 1..Len(x) /\ x[1] = buf[1]
  <2>1. 1 \in 1..(m + Len(rest)) /\ 1 <= m
    BY <1>2, <1>8
  <2>2. Len(<<>>) = 0
    OBVIOUS
  <2> QED
    BY <1>8, <2>1, <2>2
<1>10. x[1].part = "head" /\ x[1].pkt \in P[c]
  <2>1. x[1].part = "head"
    BY <1>1, <1>5, <1>9, LedSkip DEF U
  <2>2. x[1] \in U
    BY <1>1, <1>9
  <2> QED
    BY <2>1, <2>2 DEF U, UnitsOf
<1>11. Head(buf) = buf[1] /\ First(buf) = x[1].pkt
  <2>1. Head(buf) = buf[1]
    OBVIOUS
  <2> QED
    BY <1>9, <2>1 DEF First
<1> DEFINE n == PacketUnits(x[1].pkt)
<1>12. n \in Nat /\ n <= Capacity
  BY <1>1, <1>5, <1>9, <1>10, UnitsAreNat DEF U
<1>13. ASSUME n <= m PROVE HoldsPacket(buf)
  BY <1>2, <1>9, <1>10, <1>11, <1>12, <1>13 DEF HoldsPacket, m
<1>14. ASSUME ~(n <= m) PROVE InPart(c)
  <2>1. k = Len(here)
    <3> SUFFICES ASSUME k = Capacity - Len(held) PROVE FALSE
      BY <1>3
    <3>1. m = Len(held) + k /\ Len(held) \in Nat /\ Capacity \in Nat /\ n \in Nat /\ n <= Capacity
      BY <1>2, <1>6, <1>12, CapacityAssumption
    <3> HIDE DEF n
    <3>2. m = Capacity
      BY <3>1
    <3> QED
      BY <1>14, <3>1, <3>2
  <2>2. buf = sess[c].recv_buffer \o sock[c]
    BY <1>4, <1>7, <2>1
  <2>3. m < n
    BY <1>2, <1>12, <1>14
  <2>4. /\ buf # <<>> /\ Head(buf).part = "head"
        /\ Len(buf) < PacketUnits(First(buf))
    BY <1>6, <1>9, <1>10, <1>11, <2>3 DEF m
  <2> QED
    BY <2>2, <2>4, Zenon DEF InPart
<1>15. ~Misread(buf)
  BY <1>9, <1>10, <1>11 DEF Misread
<1> QED
  BY <1>9, <1>10, <1>11, <1>13, <1>14, <1>15 DEF buf, x

LEMMA KeepsReading ==
  ASSUME Dumb = {}, Sound, Streams, Steady, Agreeing, Attentive, ServerNext,
         NEW c \in Conn, c \in Held, peer[c] = "open", Conforms(prof[c]), Room(prof[c]), ~InPart(c)
  PROVE  ~(ReadRefused(c) \/ ReadBroken(c) \/ WriteFails(c))
<1>1. PICK P, D : Devices(P, D) /\ Typed(P)
  BY DEF Sound
<1>2. Shape /\ NoneOwed /\ prof[c] \in Profiles
  BY DEF Sound, Owing, Distinct
<1>3. ~WriteFails(c)
  BY DEF WriteFails
<1>4. SUFFICES ASSUME ReadRefused(c) \/ ReadBroken(c) PROVE FALSE
  BY <1>3
<1>5. Receive(c) /\ c \in ready /\ status = "up"
  BY <1>4 DEF ReadRefused, ReadBroken, Receive, Visiting, Running
<1>6. Served(c)
  BY DEF Served, Serving
<1>7. /\ Framed(Stream(c)) /\ Led(Stream(c), Skip(sess[c]))
      /\ Agenda(sess[c], Stream(c), s2c[c])
  BY <1>5, <1>6 DEF Streams, Steady, Agreeing
<1>8. sess[c].state \notin {"Acceptance", "WaitScrInfo"} /\ Skip(sess[c]) = 0
  <2>1. sess[c].state \notin {"Acceptance", "WaitScrInfo"}
    BY <1>2, <1>5 DEF NoneOwed
  <2> QED
    BY <1>2, <2>1 DEF Shape, ClientOK, Skip
<1>9. ~RecvFails(c)
  BY <1>5 DEF Attentive, RecvFails
<1>10. Received(c) # <<>>
  BY <1>1, <1>9, ReceivedTyped
<1>11. ASSUME NEW x \in P[c]
       PROVE  /\ x.type \in RequestTypes /\ (x.type = "auth" => Authentic(x))
              /\ PacketUnits(x) <= Capacity
  <2>1. PICK q \in Requests, r \in RandomNums : x = Reply(prof[c], q, r)
    BY <1>1 DEF Devices, PacketsOf
  <2> QED
    BY <1>2, <2>1, ConformingReply
<1>12. /\ HoldsPacket(Received(c)) /\ ~Misread(Received(c))
       /\ 1 \in 1..Len(Stream(c)) /\ Stream(c)[1].part = "head"
       /\ First(Received(c)) = Stream(c)[1].pkt
  BY <1>1, <1>7, <1>8, <1>10, <1>11, ReadsWhole
<1>13. PICK x \in P[c] : x = First(Received(c))
  <2>1. Received(c) \in Seq(UnitsOf(P[c]))
    BY <1>1, ReceivedTyped
  <2> QED
    BY <1>10, <2>1, FirstTyped
<1>14. x.type \in Expects(sess[c].state)
  <2> DEFINE Y == RequestTypes \ Wanted(sess[c].state)
  <2>1. Due(sess[c], Stream(c), s2c[c], Y) = 0
    BY <1>7 DEF Agenda
  <2>2. Buffered(UnitsOf(P[c]), sess[c], Stream(c), s2c[c])
    BY <1>1, StreamTyped DEF Buffered, Typed, SessionTyped
  <2> HIDE DEF Y
  <2>3. HeadsOf(Stream(c), Y) = {}
    BY <2>1, <2>2, NoneDue
  <2>4. x.type \notin Y
    BY <1>12, <1>13, <2>3 DEF HeadsOf
  <2>5. Wanted(sess[c].state) = Expects(sess[c].state)
    BY <1>8 DEF Wanted
  <2> QED
    BY <1>11, <2>4, <2>5 DEF Y
<1>15. ~Refuses(c, Received(c))
  BY <1>11, <1>13, <1>14 DEF Refuses
<1> QED
  BY <1>4, <1>9, <1>12, <1>15 DEF ReadRefused, ReadBroken

(* Where no terminal is dumb and the header of the screens is harmless,    *)
(* however the network cuts what is sent: the server drops the session of  *)
(* a device that is there, follows the protocol and sends no packet the    *)
(* buffer of the session has no room for, only when part of a packet is    *)
(* all that has arrived.  It refuses no packet of such a device: what it   *)
(* sends is taken by the state that waits for it, whatever others do.      *)
THEOREM SessionsKept ==
  ASSUME Dumb = {}, ~GarbageHeader, \A p \in Profiles : Conforms(p) => Room(p)
  PROVE  Spec => KeptUnlessInPart
<1> DEFINE Inv == Sound /\ Streams /\ ScreensWhole /\ Order /\ Recording
           Stays == \A c \in Conn : Live(c) /\ ~Live(c)' =>
                      peer[c] # "open" \/ ~Conforms(prof[c]) \/ InPart(c)
<1>1. Init => Steady /\ Agreeing /\ Attentive
  <2>1. Init => Attentive
    BY DEF Init, ServerInit, Attentive
  <2> QED
    BY <2>1, SteadyInit, AgreeingInit
<1>2. Inv /\ Steady /\ [Next]_vars => Steady'
  BY SteadyStep
<1>3. Inv /\ Agreeing /\ [Next]_vars /\ Inv' /\ Account' => Agreeing'
  BY AgreeingStep
<1>4. Inv /\ Attentive /\ [Next]_vars => Attentive'
  BY AttentiveStep
<1>5. Inv /\ Steady /\ Agreeing /\ Attentive /\ [Next]_vars => [Stays]_vars
  <2> SUFFICES ASSUME Inv, Steady, Agreeing, Attentive, [Next]_vars,
                      NEW c \in Conn, Live(c), ~Live(c)', peer[c] = "open", Conforms(prof[c]),
                      ~InPart(c)
               PROVE  FALSE
    OBVIOUS
  <2>1. c \in Held /\ c \notin Held'
    BY DEF Live, Held
  <2>2. Lists /\ Shape /\ prof[c] \in Profiles
    BY DEF Sound, Owing, Distinct
  <2>3. session_set' # session_set
    BY <2>1 DEF Held
  <2>4. ServerNext
    BY <2>3 DEF Next, DeviceNext, Connect, Answer, Leave, Die, Arrive, serverVars, vars
  <2>5. ReadRefused(c) \/ ReadBroken(c) \/ WriteFails(c)
    BY <2>1, <2>2, <2>4, Dropped
  <2> QED
    BY <2>1, <2>2, <2>4, <2>5, KeepsReading
<1>6. Spec => []Inv
  BY RecordingAlways
<1>7. Init => Account
  BY AccountInit
<1>8. Inv /\ Account /\ [Next]_vars => Account'
  BY AccountStep
<1>9. KeptUnlessInPart <=> [][Stays]_vars
  BY DEF KeptUnlessInPart
<1> HIDE DEF Inv, Stays
<1> QED
  BY <1>1, <1>2, <1>3, <1>4, <1>5, <1>6, <1>7, <1>8, <1>9, PTL DEF Spec

=============================================================================
