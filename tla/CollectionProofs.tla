-------------------------- MODULE CollectionProofs --------------------------
(***************************************************************************)
(* The whole system, where the server may die at any step and is started   *)
(* again while its clients try on.  A restart puts the loop where the      *)
(* process starts, in the second loop, so the inductive invariant also has *)
(* to say what a server that is down has: nothing.  A terminal sends a     *)
(* packet in two steps and the server may die between them, so that the    *)
(* streams are framed only together with what is still owed to them.       *)
(***************************************************************************)
EXTENDS Collection, StreamProofs

NoneWhileDown == status = "down" => session_set = <<>> /\ sess = [c \in Conn |-> NewClient]

(* A running server does not go down by itself: it crashes. *)
LEMMA ServerStaysUp == ServerNext => status' # "down"
BY DEF ServerNext, Select, Accept, ReadPacket, ReadRefused, ReadBroken, OnWildPointer,
       Write, WriteFails, TailStep, TailThrows, Receive, RemoveCurrent, Visiting, Running

(* Every step: the server's own, its death and its restart, and the rest. *)
LEMMA CollectionStep ==
  Owing /\ NoneWhileDown /\ [Next]_vars => Owing' /\ NoneWhileDown'
<1> SUFFICES ASSUME Owing, NoneWhileDown, [Next]_vars PROVE Owing' /\ NoneWhileDown'
  OBVIOUS
<1>1. CASE ServerNext
  BY <1>1, OwingStep, ServerStaysUp DEF NoneWhileDown
<1>2. ASSUME UNCHANGED serverVars PROVE Owing' /\ NoneWhileDown'
  BY <1>2, OwingKept DEF NoneWhileDown, serverVars
<1>3. CASE ServerDies
  <2>1. sess' = [c \in Conn |-> NewClient] /\ session_set' = <<>> /\ ready' = {}
    BY <1>3 DEF ServerDies
  <2>2. Shape'
    <3>1. \A c \in Conn : sess'[c] = NewClient
      BY <2>1
    <3>2. sess' = [c \in Conn |-> sess'[c]]
      BY <2>1, <3>1, Zenon
    <3> QED  BY <3>1, <3>2, NewClientOK, Zenon DEF Shape
  <2>3. ToSet(session_set') = {}
    BY <2>1 DEF ToSet
  <2> QED  BY <2>1, <2>2, <2>3 DEF Owing, TailCovers, NoneOwed, NoneWhileDown
<1>4. CASE ServerStarts
  <2>1. session_set' = <<>> /\ sess' = sess /\ ready' = ready /\ status' = "up"
    BY <1>4 DEF ServerStarts, NoneWhileDown
  <2>2. ToSet(session_set') = {}
    BY <2>1 DEF ToSet
  <2> QED  BY <2>1, <2>2 DEF Owing, Shape, TailCovers, NoneOwed, NoneWhileDown
<1>5. CASE \E d \in Dev : TerminalStep(d)
  BY <1>2, <1>5 DEF TerminalStep
<1>6. CASE \E c \in Conn : Arrive(c)
  BY <1>2, <1>6 DEF Arrive
<1>7. CASE UNCHANGED vars
  BY <1>2, <1>7 DEF vars
<1> QED  BY <1>1, <1>3, <1>4, <1>5, <1>6, <1>7 DEF Next, ServerStep

(* Whatever the emulated terminals do and however often the server dies, a *)
(* session that is still to be read in a pass is owed nothing.             *)
THEOREM CollectionNoneOwed == Spec => []NoneOwed
<1>1. Init => Owing /\ NoneWhileDown
  BY OwingInit DEF Init, ServerInit, NoneWhileDown
<1>2. Owing => NoneOwed
  BY DEF Owing
<1> QED  BY <1>1, <1>2, CollectionStep, PTL DEF Spec

-----------------------------------------------------------------------------
(* What a terminal may send, and whose a connection is.                    *)

TermPackets(d) ==
  {AuthPacket(d, 0, r, Crypted(kSecret, r, Plain(c_auth))) : r \in RandomNums}
    \cup {TerPacket(S, Cardinality(S) + e) : S \in TtySets, e \in Extra}
    \cup {TtyPacket("ipterm", q.no, n) : q \in Requests, n \in ScreenNums}
    \cup {PlainPacket(t) : t \in RequestTypes \ {"auth", "ter", "ipterm"}}

Sent  == [c \in Conn |-> TermPackets(c[1])]
Owner == [c \in Conn |-> {c[1]}]

LEMMA TermPacketOK ==
  ASSUME Dumb = {}, NEW d \in Dev, NEW x \in TermPackets(d)
  PROVE  PacketOK(x) /\ (x.type = "auth" => x.dev = d)
<1>1. CASE x \in {AuthPacket(d, 0, r, Crypted(kSecret, r, Plain(c_auth))) : r \in RandomNums}
  BY <1>1 DEF AuthPacket, PacketOK, TtyTypes
<1>2. CASE x \in {TerPacket(S, Cardinality(S) + e) : S \in TtySets, e \in Extra}
  BY <1>2, TerminalAssumption DEF TerPacket, PacketOK, TtyTypes
<1>3. CASE x \in {TtyPacket("ipterm", q.no, n) : q \in Requests, n \in ScreenNums}
  BY <1>3, TerminalAssumption DEF TtyPacket, PacketOK, TtyTypes, Requests
<1>4. CASE x \in {PlainPacket(t) : t \in RequestTypes \ {"auth", "ter", "ipterm"}}
  BY <1>4 DEF PlainPacket, PacketOK, TtyTypes, RequestTypes
<1> QED
  BY <1>1, <1>2, <1>3, <1>4 DEF TermPackets

LEMMA PacketsTyped ==
  ASSUME NEW d \in Dev, term[d].got \in Requests
  PROVE  Packets(d) \subseteq TermPackets(d)
<1> DEFINE req == term[d].got
<1>1. req.type \in RequestTypes
  BY DEF Requests
<1>2. CASE req.type = "auth"
  BY <1>2 DEF Packets, TermPackets
<1>3. CASE req.type = "ter"
  BY <1>3 DEF Packets, TermPackets
<1>4. CASE req.type = "ipterm"
  BY <1>4 DEF Packets, TermPackets
<1>5. CASE req.type \notin {"auth", "ter", "ipterm"}
  BY <1>1, <1>5 DEF Packets, TermPackets
<1> QED
  BY <1>2, <1>3, <1>4, <1>5

LEMMA SentAdmits ==
  ASSUME Dumb = {}
  PROVE  Admits(Sent, Owner) /\ \A c \in Conn : \A p \in Sent[c] : PacketOK(p)
<1>1. \A c \in Conn : c[1] \in Dev
  BY TerminalAssumption
<1> QED
  BY <1>1, TermPacketOK DEF Admits, Sent, Owner

-----------------------------------------------------------------------------
(* The types of a terminal, and that the connections it has not opened yet *)
(* are unused.                                                             *)
TermRecord(d) == [pc : {"connect", "first", "send", "data", "recv", "done", "died"},
                  tries : 0..MaxTries, fd : BOOLEAN,
                  got : Requests \cup {NoRequest}, out : TermPackets(d) \cup {NoPacket},
                  terCount : Nat, screenCount : Nat]

ProcessOK(t, d) == /\ t \in TermRecord(d)
                   /\ t.pc = "send" => t.got \in Requests
                   /\ t.pc = "data" => t.fd /\ t.out \in TermPackets(d)
                   /\ t.fd => t.tries >= 1

Processes == /\ term = [d \in Dev |-> term[d]]
             /\ \A d \in Dev : ProcessOK(term[d], d)

Unopened == \A d \in Dev : \A k \in 1..MaxTries : k > term[d].tries => peer[<<d, k>>] = "idle"

LEMMA CurOpened == ASSUME Processes, NEW d \in Dev, term[d].fd PROVE Cur(d) \in Conn /\ Cur(d)[1] = d
BY TerminalAssumption DEF Processes, ProcessOK, TermRecord, Cur

(* One process changes.  *)
LEMMA OneProcess ==
  ASSUME Processes, NEW d \in Dev, NEW t, ProcessOK(t, d), term' = [term EXCEPT ![d] = t]
  PROVE  Processes' /\ term'[d] = t /\ \A e \in Dev : e # d => term'[e] = term[e]
<1>1. term = [e \in Dev |-> term[e]]
  BY DEF Processes
<1>2. term' = [e \in Dev |-> IF e = d THEN t ELSE term[e]]
  BY <1>1, Zenon
<1>3. term'[d] = t /\ \A e \in Dev : e # d => term'[e] = term[e]
  BY <1>2
<1>4. term' = [e \in Dev |-> term'[e]]
  BY <1>2, Zenon
<1> QED
  BY <1>3, <1>4 DEF Processes

LEMMA CountedOK ==
  ASSUME Dumb = {}, NEW d \in Dev, NEW t \in TermRecord(d), NEW p \in TermPackets(d)
  PROVE  LET c == Counted(t, p) IN c \in TermRecord(d) /\ c.fd = t.fd /\ c.tries = t.tries
<1>1. PacketOK(p)
  BY TermPacketOK
<1>2. CASE p.type = "ter"
  <2>1. Cardinality(p.ttys) \in Nat
    BY <1>1, <1>2, FS_CardinalityType DEF PacketOK
  <2> QED
    BY <1>2, <2>1 DEF Counted, TermRecord
<1>3. CASE p.type = "ipterm"
  <2>1. p.screen_num \in Nat
    BY <1>1, <1>3 DEF PacketOK, TtyTypes
  <2> QED
    BY <1>3, <2>1 DEF Counted, TermRecord
<1>4. CASE p.type \notin {"ter", "ipterm"}
  BY <1>4 DEF Counted
<1> QED
  BY <1>2, <1>3, <1>4

LEMMA Oldest ==
  ASSUME Typed(Sent), NEW c \in Conn, s2c[c] # <<>>
  PROVE  Head(s2c[c]) \in Requests /\ Tail(s2c[c]) \in Seq(Requests)
BY HeadTailProperties DEF Typed

LEMMA ProcessStep ==
  ASSUME Dumb = {}, Processes, Typed(Sent), NEW d \in Dev, NEW listening \in BOOLEAN,
         TerminalNext(d, listening)
  PROVE  Processes' /\ \A e \in Dev : e # d => term'[e] = term[e]
<1> DEFINE old == term[d]
<1>1. old \in TermRecord(d) /\ ProcessOK(old, d) /\ term = [e \in Dev |-> term[e]]
  BY DEF Processes, ProcessOK
<1>2. ASSUME NEW t, ProcessOK(t, d), term' = [term EXCEPT ![d] = t]
      PROVE  Processes' /\ \A e \in Dev : e # d => term'[e] = term[e]
  BY <1>2, OneProcess, Zenon
<1>3. ASSUME NEW pc \in {"connect", "first", "recv", "done", "died"}, Goes(d, pc)
      PROVE  Processes' /\ \A e \in Dev : e # d => term'[e] = term[e]
  <2> DEFINE t == [old EXCEPT !.pc = pc]
  <2>1. ProcessOK(t, d)
    BY <1>1, <1>3 DEF ProcessOK, TermRecord
  <2>2. term' = [term EXCEPT ![d] = t]
    BY <1>1, <1>3 DEF Goes
  <2> QED
    BY <1>2, <2>1, <2>2
<1>4. CASE Connect(d, listening)
  <2> DEFINE t == [old EXCEPT !.pc = "first", !.tries = old.tries + 1, !.fd = TRUE]
  <2>0. /\ old.tries + 1 \in 0..MaxTries /\ old.tries + 1 >= 1
        /\ \A f \in {"got", "out"} : t[f] = old[f]
    <3>1. old.tries \in 0..MaxTries /\ old.tries < MaxTries
      BY <1>1, <1>4 DEF Connect, TermRecord
    <3>2. MaxTries \in Nat
      BY TerminalAssumption
    <3>3. \A f \in {"got", "out"} : t[f] = old[f]
      BY <1>1 DEF TermRecord
    <3> HIDE DEF t, old
    <3> QED
      BY <3>1, <3>2, <3>3
  <2>1. ProcessOK(t, d)
    <3> DEFINE n == old.tries + 1
    <3>1. n \in 0..MaxTries /\ n >= 1
      BY <2>0
    <3>2. t = [old EXCEPT !.pc = "first", !.tries = n, !.fd = TRUE]
      OBVIOUS
    <3> HIDE DEF n
    <3> QED
      BY <1>1, <3>1, <3>2 DEF ProcessOK, TermRecord
  <2>2. term' = [term EXCEPT ![d] = t]
    BY <1>1, <1>4 DEF Connect
  <2> QED
    BY <1>2, <2>1, <2>2
<1>5. CASE Refused(d, listening)
  <2> DEFINE t == [old EXCEPT !.pc = "first", !.fd = FALSE]
  <2>1. ProcessOK(t, d)
    BY <1>1 DEF ProcessOK, TermRecord
  <2>2. term' = [term EXCEPT ![d] = t]
    BY <1>1, <1>5 DEF Refused
  <2> QED
    BY <1>2, <2>1, <2>2
<1>6. CASE Recv(d)
  <2> DEFINE q == Head(s2c[Cur(d)])
             t == [old EXCEPT !.pc = "send", !.got = q]
  <2>1. term[d].fd /\ s2c[Cur(d)] # <<>>
    BY <1>6 DEF Recv, Gets
  <2>2. q \in Requests
    BY <2>1, CurOpened, Oldest
  <2>3. term' = [term EXCEPT ![d] = t]
    BY <1>1, <1>6 DEF Recv
  <2> HIDE DEF q
  <2>4. ProcessOK(t, d)
    BY <1>1, <2>2 DEF ProcessOK, TermRecord
  <2> QED
    BY <1>2, <2>3, <2>4
<1>7. CASE StaleFirst(d)
  <2> DEFINE t == [old EXCEPT !.pc = "send"]
  <2>1. ProcessOK(t, d)
    BY <1>1, <1>7 DEF StaleFirst, ProcessOK, TermRecord
  <2>2. term' = [term EXCEPT ![d] = t]
    BY <1>1, <1>7 DEF StaleFirst, Goes
  <2> QED
    BY <1>2, <2>1, <2>2
<1>8. CASE SendHead(d)
  <2>1. old.pc = "send" /\ old.fd
    BY <1>8 DEF SendHead
  <2>2. PICK p \in Packets(d) :
          term' = [term EXCEPT ![d] = [Counted(old, p) EXCEPT !.out = p, !.pc = "data"]]
    BY <1>8 DEF SendHead
  <2>3. p \in TermPackets(d)
    BY <1>1, <2>1, PacketsTyped DEF ProcessOK
  <2> DEFINE c == Counted(old, p)
             t == [c EXCEPT !.out = p, !.pc = "data"]
  <2>4. c \in TermRecord(d) /\ c.fd = old.fd /\ c.tries = old.tries
    BY <1>1, <2>3, CountedOK
  <2> HIDE DEF c
  <2>5. ProcessOK(t, d)
    BY <1>1, <2>1, <2>3, <2>4 DEF ProcessOK, TermRecord
  <2>6. term' = [term EXCEPT ![d] = t]
    BY <2>2 DEF c
  <2> QED
    BY <1>2, <2>5, <2>6
<1>9. CASE SendBroken(d)
  <2>1. CASE \E p \in Packets(d) : term' = [term EXCEPT ![d] = [Counted(old, p) EXCEPT !.pc = "connect"]]
             /\ old.pc = "send"
    <3>1. PICK p \in Packets(d) : term' = [term EXCEPT ![d] = [Counted(old, p) EXCEPT !.pc = "connect"]]
      BY <2>1
    <3>2. p \in TermPackets(d)
      BY <1>1, <2>1, PacketsTyped DEF ProcessOK
    <3> DEFINE c == Counted(old, p)
               t == [c EXCEPT !.pc = "connect"]
    <3>3. c \in TermRecord(d) /\ c.fd = old.fd /\ c.tries = old.tries
      BY <1>1, <3>2, CountedOK
    <3> HIDE DEF c
    <3>4. ProcessOK(t, d)
      BY <1>1, <3>3 DEF ProcessOK, TermRecord
    <3>5. term' = [term EXCEPT ![d] = t]
      BY <3>1 DEF c
    <3> QED
      BY <1>2, <3>4, <3>5
  <2>2. CASE Goes(d, "connect")
    BY <1>3, <2>2
  <2> QED
    BY <1>9, <2>1, <2>2 DEF SendBroken
<1>10. CASE EmptyFirst(d) \/ Sigpipe(d)
  BY <1>3, <1>10 DEF EmptyFirst, Sigpipe
<1>11. CASE RecvBroken(d) \/ SendData(d) \/ Finish(d)
  BY <1>3, <1>11 DEF RecvBroken, SendData, Finish
<1> QED
  BY <1>4, <1>5, <1>6, <1>7, <1>8, <1>9, <1>10, <1>11 DEF TerminalNext

(* What a step of a terminal does to the connections.                      *)
LEMMA CloseAllDoes ==
  ASSUME Typed(Sent), NEW d \in Dev, CloseAll(d)
  PROVE  /\ peer' = [c \in Conn |-> peer'[c]]
         /\ \A c \in Conn : /\ peer'[c] \in PeerState
                            /\ peer'[c] = "idle" <=> peer[c] = "idle"
                            /\ peer'[c] = "open" => peer[c] = "open"
                            /\ peer'[c] = "cut" => peer[c] = "cut"
<1>1. /\ \A c \in Conn : peer'[c] = IF c \in ConnsOf(d) /\ peer[c] = "open"
                                      THEN AfterClose(c) ELSE peer[c]
      /\ peer' = [c \in Conn |-> peer'[c]]
  BY DEF CloseAll
<1>2. \A c \in Conn : AfterClose(c) \in {"closed", "reset"} /\ peer[c] \in PeerState
  BY DEF AfterClose, Typed
<1> QED
  BY <1>1, <1>2 DEF PeerState

LEMMA ConnectsDoes ==
  ASSUME Typed(Sent), Processes, NEW d \in Dev, NEW listening \in BOOLEAN, Connect(d, listening),
         UNCHANGED serverVars
  PROVE  /\ Typed(Sent)'
         /\ \A c \in Conn : UNCHANGED Stream(c)
         /\ \E c \in Conn : /\ c = <<d, term[d].tries + 1>>
                            /\ backlog' = Append(backlog, c) /\ peer'[c] = "open"
                            /\ \A e \in Conn : e # c => peer'[e] = peer[e]
<1> DEFINE c == <<d, term[d].tries + 1>>
<1>1. /\ peer' = [peer EXCEPT ![c] = "open"] /\ backlog' = Append(backlog, c)
      /\ UNCHANGED <<wire, sock, s2c, sess>>
  BY DEF Connect, serverVars
<1>2. c \in Conn
  <2>1. term[d].tries \in 0..MaxTries
    BY DEF Processes, ProcessOK, TermRecord
  <2>3. term[d].tries < MaxTries /\ MaxTries \in Nat
    BY TerminalAssumption DEF Connect
  <2>2. term[d].tries + 1 \in 1..MaxTries
    BY <2>1, <2>3
  <2> QED
    BY <2>2, TerminalAssumption
<1>3. peer = [e \in Conn |-> peer[e]] /\ \A e \in Conn : peer[e] \in PeerState
  BY DEF Typed
<1> HIDE DEF c
<1>4. /\ peer' = [e \in Conn |-> peer'[e]] /\ peer'[c] = "open"
      /\ \A e \in Conn : e # c => peer'[e] = peer[e]
  BY <1>1, <1>2, <1>3, Exchanged, Zenon
<1>5. \A e \in Conn : peer'[e] \in PeerState
  BY <1>3, <1>4 DEF PeerState
<1>6. Typed(Sent)'
  BY <1>1, <1>4, <1>5 DEF Typed
<1>7. \A e \in Conn : UNCHANGED Stream(e)
  BY <1>1 DEF Stream
<1> QED
  BY <1>1, <1>2, <1>4, <1>6, <1>7 DEF c

LEMMA BlockSent ==
  ASSUME Typed(Sent), NEW d \in Dev, NEW k \in Conn, k = Cur(d), NEW block \in Seq(UnitsOf(Sent[k])),
         Sends(d, block), UNCHANGED <<sock, s2c, peer, serverVars>>
  PROVE  /\ Typed(Sent)'
         /\ \A c \in Conn : c # k \/ peer[c] # "open" => UNCHANGED Stream(c)
         /\ peer[k] = "open" => Stream(k)' = Stream(k) \o block
<1>1. UNCHANGED sess /\ wire = [c \in Conn |-> wire[c]]
  BY DEF serverVars, Typed
<1>2. CASE peer[k] # "open"
  <2>1. wire' = wire
    BY <1>2 DEF Sends
  <2> QED
    BY <1>1, <1>2, <2>1 DEF Typed, Stream
<1>3. CASE peer[k] = "open"
  <2>1. wire' = [wire EXCEPT ![k] = wire[k] \o block]
    BY <1>3 DEF Sends
  <2>2. k \in Conn
    OBVIOUS
  <2>3. /\ wire' = [c \in Conn |-> wire'[c]] /\ wire'[k] = wire[k] \o block
        /\ \A c \in Conn : c # k => wire'[c] = wire[c]
    BY <1>1, <2>1, <2>2, Exchanged, Zenon
  <2> DEFINE U == UnitsOf(Sent[k])
             b == sess[k].recv_buffer
             s == sock[k]
             w == wire[k]
  <2>4. b \in Seq(U) /\ s \in Seq(U) /\ w \in Seq(U) /\ block \in Seq(U)
    BY <2>2 DEF Typed, SessionTyped
  <2>5. wire'[k] \in Seq(U)
    BY <2>3, <2>4, ConcatProperties
  <2>6. \A c \in Conn : wire'[c] \in Seq(UnitsOf(Sent[c]))
    BY <2>3, <2>5 DEF Typed
  <2>7. Typed(Sent)'
    BY <1>1, <2>3, <2>6 DEF Typed
  <2>8. Stream(k)' = Stream(k) \o block
    <3>1. Stream(k)' = b \o (s \o (w \o block)) /\ Stream(k) = b \o (s \o w)
      BY <1>1, <2>3 DEF Stream
    <3> HIDE DEF b, s, w, U
    <3>2. Longer(b, s, w, block)
      BY <2>4, StreamEnd, Zenon
    <3> QED
      BY <3>1, <3>2, Zenon DEF Longer
  <2>9. \A c \in Conn : c # k => UNCHANGED Stream(c)
    BY <1>1, <2>3 DEF Stream
  <2> QED
    BY <1>3, <2>7, <2>8, <2>9
<1> QED
  BY <1>2, <1>3

LEMMA BlocksTyped ==
  ASSUME Dumb = {}, NEW c \in Conn, NEW p \in TermPackets(c[1])
  PROVE  /\ PacketOK(p) /\ p \in Sent[c]
         /\ HeadBlock(p) \in Seq(UnitsOf(Sent[c]))
         /\ DataBlock(p) \in Seq(UnitsOf(Sent[c]))
<1>1. p \in Sent[c] /\ PacketOK(p)
  BY SentAdmits DEF Sent
<1>2. Unit("head", p) \in UnitsOf(Sent[c])
  BY <1>1 DEF Unit, UnitsOf
<1> QED
  BY <1>1, <1>2, DataUnits DEF HeadBlock

(* The terminal's part of the connections keeps its types. *)
LEMMA TerminalTyped ==
  ASSUME Dumb = {}, Processes, Typed(Sent), NEW d \in Dev, NEW listening \in BOOLEAN,
         TerminalNext(d, listening), UNCHANGED serverVars
  PROVE  Typed(Sent)'
<1>0. UNCHANGED sess
  BY DEF serverVars
<1>1. ASSUME UNCHANGED netVars PROVE Typed(Sent)'
  BY <1>0, <1>1 DEF netVars, Typed
<1>2. ASSUME CloseAll(d), UNCHANGED <<wire, sock, s2c>> PROVE Typed(Sent)'
  <2>1. peer' = [c \in Conn |-> peer'[c]] /\ \A c \in Conn : peer'[c] \in PeerState
    BY <1>2, CloseAllDoes
  <2> QED
    BY <1>0, <1>2, <2>1 DEF Typed
<1>3. CASE Connect(d, listening)
  BY <1>3, ConnectsDoes
<1>4. CASE Recv(d)
  <2> DEFINE k == Cur(d)
  <2>1. /\ term[d].fd /\ s2c[k] # <<>> /\ s2c' = [s2c EXCEPT ![k] = Tail(s2c[k])]
        /\ UNCHANGED <<wire, sock, peer>>
    BY <1>4 DEF Recv, Gets
  <2>2. k \in Conn
    BY <2>1, CurOpened
  <2>3. Tail(s2c[k]) \in Seq(Requests)
    BY <2>1, <2>2, Oldest
  <2>4. s2c = [c \in Conn |-> s2c[c]] /\ \A c \in Conn : s2c[c] \in Seq(Requests)
    BY DEF Typed
  <2> HIDE DEF k
  <2>5. /\ s2c' = [c \in Conn |-> s2c'[c]] /\ s2c'[k] = Tail(s2c[k])
        /\ \A c \in Conn : c # k => s2c'[c] = s2c[c]
    BY <2>1, <2>2, <2>4, Exchanged, Zenon
  <2>6. \A c \in Conn : s2c'[c] \in Seq(Requests)
    BY <2>3, <2>4, <2>5
  <2> QED
    BY <1>0, <2>1, <2>5, <2>6 DEF Typed
<1>5. CASE SendHead(d)
  <2>1. term[d].pc = "send" /\ term[d].fd
    BY <1>5 DEF SendHead
  <2>2. PICK p \in Packets(d) : Sends(d, HeadBlock(p))
    BY <1>5 DEF SendHead
  <2>3. PICK k \in Conn : k = Cur(d) /\ k[1] = d
    BY <2>1, CurOpened
  <2>4. p \in TermPackets(k[1])
    BY <2>1, <2>3, PacketsTyped DEF Processes, ProcessOK
  <2>5. HeadBlock(p) \in Seq(UnitsOf(Sent[k]))
    BY <2>4, BlocksTyped
  <2>6. UNCHANGED <<sock, s2c, peer>>
    BY <1>5 DEF SendHead
  <2> QED
    BY <2>2, <2>3, <2>5, <2>6, BlockSent
<1>6. CASE SendData(d)
  <2>1. term[d].pc = "data" /\ Sends(d, DataBlock(term[d].out)) /\ UNCHANGED <<sock, s2c, peer>>
    BY <1>6 DEF SendData
  <2>2. term[d].fd /\ term[d].out \in TermPackets(d)
    BY <2>1 DEF Processes, ProcessOK
  <2>3. PICK k \in Conn : k = Cur(d) /\ k[1] = d
    BY <2>2, CurOpened
  <2>4. DataBlock(term[d].out) \in Seq(UnitsOf(Sent[k]))
    BY <2>2, <2>3, BlocksTyped
  <2> QED
    BY <2>1, <2>3, <2>4, BlockSent
<1>7. CASE EmptyFirst(d) \/ Finish(d) \/ Sigpipe(d)
  BY <1>2, <1>7 DEF EmptyFirst, Finish, Sigpipe
<1>8. CASE Refused(d, listening) \/ StaleFirst(d) \/ RecvBroken(d) \/ SendBroken(d)
  BY <1>1, <1>8 DEF Refused, StaleFirst, RecvBroken, SendBroken
<1> QED
  BY <1>3, <1>4, <1>5, <1>6, <1>7, <1>8 DEF TerminalNext

-----------------------------------------------------------------------------
(* The invariant.  A server that is down has nothing: the loop that was    *)
(* running when it died is of no account.                                  *)
Empty == /\ session_set = <<>> /\ backlog = <<>> /\ todo = {} /\ ready = {}
         /\ sess = [c \in Conn |-> NewClient]
         /\ phase \in {"visit", "tail"}

SystemOK ==
  /\ Owing /\ NoneWhileDown
  /\ status \in {"up", "crashed", "down"}
  /\ status = "down" => Empty
  /\ status # "down" => Lists
  /\ Quiet
  /\ Processes /\ Unopened
  /\ Typed(Sent) /\ RowsTyped(Ids(Owner)) /\ Identified(Owner)
  /\ kills \in 0..MaxKills

LEMMA EmptyLists == ASSUME session_set = <<>>, backlog = <<>> PROVE Held = {} /\ Serving = {}
BY DEF Held, Serving, ToSet

LEMMA EmptyListing == Listing(<<>>, Conn) /\ ToSet(<<>>) = {}
BY DEF Listing, IsInjective, ToSet

LEMMA NewSessions ==
  ASSUME sess = [c \in Conn |-> NewClient]
  PROVE  /\ Identified(Owner)
         /\ \A P : \A c \in Conn : SessionTyped(sess[c], P[c])
<1>1. \A P : SessionTyped(NewClient, P)
  BY NewClientTyped
<1> QED
  BY <1>1 DEF Identified, NewClient

LEMMA SystemInit == ASSUME Dumb = {} PROVE Init => SystemOK
<1> SUFFICES ASSUME Init PROVE SystemOK
  OBVIOUS
<1>1. /\ session_set = <<>> /\ backlog = <<>> /\ sess = [c \in Conn |-> NewClient]
      /\ todo = {} /\ ready = {} /\ phase = "tail" /\ status = "up"
      /\ wire = [c \in Conn |-> <<>>] /\ sock = [c \in Conn |-> <<>>]
      /\ s2c = [c \in Conn |-> <<>>] /\ peer = [c \in Conn |-> "idle"]
      /\ base = {} /\ ttyinfo = <<>> /\ scrinfo = <<>> /\ global_number = 0
      /\ term = [d \in Dev |-> NewTerm] /\ kills = 0
  BY DEF Init, NetInit, ServerInit, DbInit, TermInit
<1>2. Owing
  BY OwingInit DEF Init
<1>3. Lists /\ Quiet
  <2>1. Held = {} /\ Serving = {}
    BY <1>1, EmptyLists
  <2> QED
    BY <1>1, <2>1, EmptyListing DEF Lists, Quiet
<1>4. Processes /\ Unopened
  <2>1. \A d \in Dev : ProcessOK(NewTerm, d)
    BY TerminalAssumption DEF ProcessOK, TermRecord, NewTerm
  <2>2. \A d \in Dev : \A k \in 1..MaxTries : <<d, k>> \in Conn
    BY TerminalAssumption
  <2> QED
    BY <1>1, <2>1, <2>2 DEF Processes, Unopened
<1>5. Typed(Sent) /\ Identified(Owner)
  <2>1. \A c \in Conn : SessionTyped(sess[c], Sent[c])
    BY <1>1, NewSessions
  <2>2. \A c \in Conn : /\ wire[c] \in Seq(UnitsOf(Sent[c])) /\ sock[c] \in Seq(UnitsOf(Sent[c]))
                        /\ s2c[c] \in Seq(Requests) /\ peer[c] \in PeerState
    BY <1>1 DEF PeerState
  <2>3. /\ wire = [c \in Conn |-> wire[c]] /\ sock = [c \in Conn |-> sock[c]]
        /\ s2c = [c \in Conn |-> s2c[c]] /\ peer = [c \in Conn |-> peer[c]]
    BY <1>1
  <2> QED
    BY <1>1, <2>1, <2>2, <2>3, SentAdmits, NewSessions DEF Typed
<1>6. RowsTyped(Ids(Owner))
  <2>1. 0 \in 0..(ScrMod - 1)
    BY ScrModAssumption
  <2> QED
    BY <1>1, <2>1 DEF RowsTyped, BaseTyped
<1>7. NoneWhileDown /\ kills \in 0..MaxKills
  BY <1>1, KillsAssumption DEF NoneWhileDown
<1> QED
  BY <1>1, <1>2, <1>3, <1>4, <1>5, <1>6, <1>7, Zenon DEF SystemOK

(* The server's steps.  Connections that are not opened yet are not its.   *)
LEMMA SystemServer ==
  ASSUME Dumb = {}, SystemOK, ServerNext, UNCHANGED <<term, kills>>
  PROVE  SystemOK'
<1>1. status = "up" /\ status' \in {"up", "crashed"}
  BY ServerStatus
<1>2. Lists /\ Shape /\ Typed(Sent) /\ Quiet
  BY <1>1 DEF SystemOK, Owing
<1>3. Lists' /\ Serving' \subseteq Serving
  BY <1>2, ServerLists
<1>4. Typed(Sent)'
  BY <1>2, ServerTyped
<1>5. RowsTyped(Ids(Owner))' /\ Identified(Owner)'
  BY <1>2, SentAdmits, ServerRows DEF SystemOK
<1>6. Quiet'
  <2>1. \A c \in Conn : peer'[c] \in {"idle", "open"} => peer'[c] = peer[c]
    BY <1>2, ServerStream
  <2> QED
    BY <1>2, <1>3, <2>1 DEF Quiet
<1>7. Processes' /\ Unopened'
  <2>1. \A c \in Conn : peer[c] = "idle" => peer'[c] = "idle"
    <3>1. \A c \in Conn : peer[c] = "idle" => c \notin Held
      BY <1>2 DEF Quiet, Serving
    <3> QED
      BY <1>2, <3>1, ServerPeers
  <2>2. \A d \in Dev : \A k \in 1..MaxTries : <<d, k>> \in Conn
    BY TerminalAssumption
  <2> QED
    BY <2>1, <2>2 DEF SystemOK, Processes, Unopened
<1>8. Owing' /\ NoneWhileDown'
  BY <1>1, OwingStep DEF SystemOK, NoneWhileDown
<1>9. kills' \in 0..MaxKills
  BY DEF SystemOK
<1> QED
  BY <1>1, <1>3, <1>4, <1>5, <1>6, <1>7, <1>8, <1>9, Zenon DEF SystemOK

(* Only opening a connection is a try. *)
LEMMA TriesKept ==
  ASSUME Dumb = {}, Processes, NEW d \in Dev, NEW listening \in BOOLEAN,
         TerminalNext(d, listening), ~Connect(d, listening)
  PROVE  term'[d].tries = term[d].tries
<1>1. term[d] \in TermRecord(d) /\ term = [x \in Dev |-> term[x]]
  BY DEF Processes, ProcessOK
<1>2. ASSUME NEW pc, Goes(d, pc) PROVE term'[d].tries = term[d].tries
  BY <1>1, <1>2 DEF Goes, TermRecord
<1>3. CASE Refused(d, listening)
  BY <1>1, <1>3 DEF Refused, TermRecord
<1>4. CASE Recv(d)
  BY <1>1, <1>4 DEF Recv, TermRecord
<1>5. ASSUME NEW p, term[d].pc = "send", p \in Packets(d)
      PROVE  Counted(term[d], p) \in TermRecord(d) /\ Counted(term[d], p).tries = term[d].tries
  <2>1. p \in TermPackets(d)
    BY <1>5, PacketsTyped DEF Processes, ProcessOK
  <2> QED
    BY <1>1, <2>1, CountedOK
<1>6. CASE SendHead(d)
  <2>1. PICK p \in Packets(d) :
          term' = [term EXCEPT ![d] = [Counted(term[d], p) EXCEPT !.out = p, !.pc = "data"]]
    BY <1>6 DEF SendHead
  <2> DEFINE c == Counted(term[d], p)
  <2>2. c \in TermRecord(d) /\ c.tries = term[d].tries
    BY <1>5, <1>6 DEF SendHead
  <2>3. term'[d] = [c EXCEPT !.out = p, !.pc = "data"]
    BY <1>1, <2>1
  <2> HIDE DEF c
  <2> QED
    BY <2>2, <2>3 DEF TermRecord
<1>7. CASE SendBroken(d)
  <2>1. CASE term[d].pc = "send" /\ \E p \in Packets(d) :
               term' = [term EXCEPT ![d] = [Counted(term[d], p) EXCEPT !.pc = "connect"]]
    <3>1. PICK p \in Packets(d) :
            term' = [term EXCEPT ![d] = [Counted(term[d], p) EXCEPT !.pc = "connect"]]
      BY <2>1
    <3> DEFINE c == Counted(term[d], p)
    <3>2. c \in TermRecord(d) /\ c.tries = term[d].tries
      BY <1>5, <2>1
    <3>3. term'[d] = [c EXCEPT !.pc = "connect"]
      BY <1>1, <3>1
    <3> HIDE DEF c
    <3> QED
      BY <3>2, <3>3 DEF TermRecord
  <2>2. CASE Goes(d, "connect")
    BY <1>2, <2>2
  <2> QED
    BY <1>7, <2>1, <2>2 DEF SendBroken
<1> QED
  BY <1>2, <1>3, <1>4, <1>6, <1>7
     DEF TerminalNext, StaleFirst, EmptyFirst, RecvBroken, SendData, Finish, Sigpipe

(* The steps of a terminal. *)
LEMMA SystemTerminal ==
  ASSUME Dumb = {}, SystemOK, NEW d \in Dev, TerminalStep(d)
  PROVE  SystemOK'
<1>1. TerminalNext(d, Listening) /\ UNCHANGED <<dbVars, serverVars, kills>>
  BY DEF TerminalStep
<1>2. /\ Processes /\ Unopened /\ Typed(Sent) /\ Quiet
      /\ status' = status /\ Listening \in BOOLEAN
  BY <1>1 DEF SystemOK, serverVars, Listening
<1>3. PICK l \in BOOLEAN : l = Listening
  BY <1>2
<1>4. /\ Processes' /\ Typed(Sent)' /\ \A e \in Dev : e # d => term'[e] = term[e]
  BY <1>1, <1>2, <1>3, ProcessStep, TerminalTyped
<1>5. Owing' /\ NoneWhileDown'
  BY <1>1, OwingKept DEF SystemOK, NoneWhileDown, serverVars
<1>6. RowsTyped(Ids(Owner))' /\ Identified(Owner)'
  BY <1>1 DEF SystemOK, dbVars, serverVars, RowsTyped, BaseTyped, Identified
<1>7. kills' \in 0..MaxKills /\ status' \in {"up", "crashed", "down"}
  BY <1>1 DEF SystemOK, serverVars
<1>8. UNCHANGED <<session_set, sess, phase, todo, ready, incoming, Held>>
  BY <1>1 DEF serverVars, Held
<1>9. CASE Connect(d, l)
  <2>1. PICK c \in Conn : /\ c = <<d, term[d].tries + 1>>
                          /\ backlog' = Append(backlog, c) /\ peer'[c] = "open"
                          /\ \A e \in Conn : e # c => peer'[e] = peer[e]
    BY <1>1, <1>2, <1>9, ConnectsDoes
  <2>2. status = "up"
    BY <1>3, <1>9 DEF Connect, Listening
  <2>3. peer[c] = "idle" /\ c \notin Serving
    <3>1. term[d].tries + 1 \in 1..MaxTries /\ term[d].tries + 1 > term[d].tries
      <4>1. term[d].tries \in 0..MaxTries
        BY <1>2 DEF Processes, ProcessOK, TermRecord
      <4>2. c[2] \in 1..MaxTries /\ c[2] = term[d].tries + 1
        BY <2>1, TerminalAssumption
      <4> QED
        BY <4>1, <4>2
    <3> QED
      BY <1>2, <2>1, <3>1 DEF Unopened, Quiet
  <2>4. Lists
    BY <2>2 DEF SystemOK
  <2>5. c \notin Held /\ c \notin ToSet(backlog)
    BY <2>3 DEF Serving
  <2>6. PICK b : b = backlog'
    OBVIOUS
  <2>7. Listing(b, Conn) /\ ToSet(b) = ToSet(backlog) \cup {c} /\ b # <<>>
    BY <2>1, <2>4, <2>5, <2>6, BacklogGrows
  <2>8. Lists'
    BY <1>8, <2>4, <2>5, <2>6, <2>7 DEF Lists
  <2>9. Serving' = Serving \cup {c}
    BY <1>8, <2>6, <2>7 DEF Serving
  <2>10. Quiet'
    BY <1>2, <2>1, <2>9 DEF Quiet
  <2>11. Unopened'
    <3> SUFFICES ASSUME NEW e \in Dev, NEW k \in 1..MaxTries, k > term'[e].tries
                 PROVE  peer'[<<e, k>>] = "idle"
      BY DEF Unopened
    <3>1. term'[d].tries = term[d].tries + 1
      <4>1. term[d] \in TermRecord(d) /\ term = [x \in Dev |-> term[x]]
        BY <1>2 DEF Processes, ProcessOK
      <4> QED
        BY <1>9, <4>1 DEF Connect, TermRecord
    <3>2. <<e, k>> \in Conn /\ term[d].tries \in Nat /\ k \in Nat
      BY <1>2, TerminalAssumption DEF Processes, ProcessOK, TermRecord
    <3>3. k > term[e].tries /\ <<e, k>> # c
      <4>1. CASE e = d
        BY <2>1, <3>1, <3>2, <4>1
      <4>2. CASE e # d
        BY <1>4, <2>1, <4>2
      <4> QED
        BY <4>1, <4>2
    <3>4. peer[<<e, k>>] = "idle"
      BY <1>2, <3>3 DEF Unopened
    <3> QED
      BY <2>1, <3>2, <3>3, <3>4
  <2> QED
    BY <1>2, <1>4, <1>5, <1>6, <1>7, <2>2, <2>8, <2>10, <2>11, Zenon DEF SystemOK
<1>10. ASSUME backlog' = backlog, \A c \in Conn : peer'[c] = "idle" <=> peer[c] = "idle",
              term'[d].tries = term[d].tries
       PROVE  SystemOK'
  <2>1. \A e \in Dev : \A k \in 1..MaxTries : <<e, k>> \in Conn
    BY TerminalAssumption
  <2>2. Unopened'
    <3> SUFFICES ASSUME NEW e \in Dev, NEW k \in 1..MaxTries, k > term'[e].tries
                 PROVE  peer'[<<e, k>>] = "idle"
      BY DEF Unopened
    <3>1. term'[e].tries = term[e].tries
      BY <1>4, <1>10
    <3>2. peer[<<e, k>>] = "idle"
      BY <1>2, <3>1 DEF Unopened
    <3> QED
      BY <1>10, <2>1, <3>2
  <2>3. Quiet' /\ (status' = "down" => Empty') /\ (status' # "down" => Lists')
    BY <1>2, <1>8, <1>10 DEF SystemOK, Quiet, Serving, Empty, Lists
  <2> QED
    BY <1>4, <1>5, <1>6, <1>7, <2>2, <2>3, Zenon DEF SystemOK
<1>11. CASE ~Connect(d, l)
  <2>1. backlog' = backlog /\ \A c \in Conn : peer'[c] = "idle" <=> peer[c] = "idle"
    <3>1. backlog' = backlog /\ (peer' = peer \/ CloseAll(d))
      BY <1>1, <1>3, <1>11 DEF TerminalNext, Refused, Recv, StaleFirst, EmptyFirst, RecvBroken,
         SendHead, SendData, Finish, SendBroken, Sigpipe, netVars
    <3> QED
      BY <1>2, <3>1, CloseAllDoes
  <2>2. term'[d].tries = term[d].tries
    BY <1>1, <1>2, <1>3, <1>11, TriesKept
  <2> QED
    BY <1>10, <2>1, <2>2
<1> QED
  BY <1>9, <1>11

(* A segment arrives. *)
LEMMA SystemArrive ==
  ASSUME Dumb = {}, SystemOK, NEW d \in Conn, Arrive(d)
  PROVE  SystemOK' /\ \A c \in Conn : UNCHANGED <<Stream(c), peer[c]>>
<1>1. Deliver(d) /\ UNCHANGED <<dbVars, serverVars, term, xls, kills, s2c, peer, backlog>>
  BY DEF Arrive, Deliver
<1>2. Typed(Sent)
  BY DEF SystemOK
<1>3. Typed(Sent)' /\ \A c \in Conn : UNCHANGED Stream(c)
  BY <1>1, <1>2, DeliverDoes
<1>4. Owing' /\ NoneWhileDown'
  BY <1>1, OwingKept DEF SystemOK, NoneWhileDown, serverVars
<1>5. RowsTyped(Ids(Owner))' /\ Identified(Owner)'
  BY <1>1 DEF SystemOK, dbVars, serverVars, RowsTyped, BaseTyped, Identified
<1>6. Processes' /\ Unopened'
  BY <1>1 DEF SystemOK, Processes, Unopened
<1>7. /\ status' \in {"up", "crashed", "down"} /\ kills' \in 0..MaxKills
      /\ status' = "down" => Empty'
      /\ status' # "down" => Lists'
      /\ Quiet'
  BY <1>1 DEF SystemOK, serverVars, Empty, Lists, Held, Serving, Quiet
<1> QED
  BY <1>1, <1>3, <1>4, <1>5, <1>6, <1>7, Zenon DEF SystemOK

(* The server ends: the connections are cut, and what they held is lost.   *)
LEMMA CutDoes ==
  ASSUME Typed(Sent), Cut
  PROVE  /\ peer' = [c \in Conn |-> peer'[c]]
         /\ \A c \in Conn : /\ peer'[c] \in PeerState /\ peer'[c] # "open"
                            /\ peer'[c] = "idle" <=> peer[c] = "idle"
                            /\ wire'[c] = <<>> /\ sock'[c] = <<>> /\ s2c'[c] = s2c[c]
         /\ wire' = [c \in Conn |-> wire'[c]] /\ sock' = [c \in Conn |-> sock'[c]]
         /\ s2c' = s2c /\ backlog' = <<>>
<1>1. /\ peer' = [c \in Conn |-> IF peer[c] = "open" THEN "cut" ELSE peer[c]]
      /\ wire' = [c \in Conn |-> <<>>] /\ sock' = [c \in Conn |-> <<>>]
      /\ s2c' = s2c /\ backlog' = <<>>
  BY DEF Cut
<1>2. \A c \in Conn : peer[c] \in PeerState
  BY DEF Typed
<1>3. \A c \in Conn : /\ peer'[c] = (IF peer[c] = "open" THEN "cut" ELSE peer[c])
                      /\ wire'[c] = <<>> /\ sock'[c] = <<>>
  BY <1>1
<1>4. peer' = [c \in Conn |-> peer'[c]]
  BY <1>1, Zenon
<1>5. wire' = [c \in Conn |-> wire'[c]] /\ sock' = [c \in Conn |-> sock'[c]]
  BY <1>1, Zenon
<1> QED
  BY <1>1, <1>2, <1>3, <1>4, <1>5 DEF PeerState

LEMMA SystemDies ==
  ASSUME Dumb = {}, SystemOK, ServerDies
  PROVE  /\ SystemOK'
         /\ \A c \in Conn : sess'[c] = NewClient /\ wire'[c] = <<>> /\ sock'[c] = <<>>
<1>1. /\ Cut /\ status' = "down" /\ session_set' = <<>> /\ sess' = [c \in Conn |-> NewClient]
      /\ todo' = {} /\ ready' = {} /\ UNCHANGED <<dbVars, phase, term>>
  BY DEF ServerDies
<1>2. /\ Typed(Sent) /\ Processes /\ Unopened /\ Quiet /\ RowsTyped(Ids(Owner))
      /\ Owing /\ NoneWhileDown /\ status \in {"up", "crashed", "down"} /\ kills \in 0..MaxKills
  BY DEF SystemOK
<1>3. \A c \in Conn : /\ peer'[c] \in PeerState /\ peer'[c] # "open"
                      /\ peer'[c] = "idle" <=> peer[c] = "idle"
                      /\ wire'[c] = <<>> /\ sock'[c] = <<>> /\ s2c'[c] = s2c[c]
  BY <1>1, <1>2, CutDoes
<1>4. /\ wire' = [c \in Conn |-> wire'[c]] /\ sock' = [c \in Conn |-> sock'[c]]
      /\ peer' = [c \in Conn |-> peer'[c]] /\ s2c' = s2c /\ backlog' = <<>>
  BY <1>1, <1>2, CutDoes
<1>5. \A c \in Conn : sess'[c] = NewClient /\ SessionTyped(sess'[c], Sent[c])
  <2>1. \A c \in Conn : SessionTyped(NewClient, Sent[c])
    BY NewClientTyped
  <2> QED
    BY <1>1, <2>1
<1>6. Typed(Sent)'
  <2>2. \A c \in Conn : /\ wire'[c] \in Seq(UnitsOf(Sent[c])) /\ sock'[c] \in Seq(UnitsOf(Sent[c]))
                        /\ s2c'[c] \in Seq(Requests)
    <3>1. \A c \in Conn : s2c[c] \in Seq(Requests)
      BY <1>2 DEF Typed
    <3>2. \A S : <<>> \in Seq(S)
      OBVIOUS
    <3> QED
      BY <1>3, <3>1, <3>2
  <2>3. \A c \in Conn : \A p \in Sent[c] : PacketOK(p)
    BY <1>2 DEF Typed
  <2>4. s2c' = [c \in Conn |-> s2c'[c]]
    BY <1>2, <1>4 DEF Typed
  <2>5. \A c \in Conn : peer'[c] \in PeerState /\ SessionTyped(sess'[c], Sent[c])
    BY <1>3, <1>5
  <2>6. \A c \in Conn : /\ wire'[c] \in Seq(UnitsOf(Sent[c])) /\ sock'[c] \in Seq(UnitsOf(Sent[c]))
                        /\ s2c'[c] \in Seq(Requests)
                        /\ peer'[c] \in PeerState /\ SessionTyped(sess'[c], Sent[c])
    BY <2>2, <2>5
  <2> QED
    BY <1>4, <2>3, <2>4, <2>6, Zenon DEF Typed
<1>7. Identified(Owner)' /\ RowsTyped(Ids(Owner))'
  <2>1. Identified(Owner)'
    BY <1>5 DEF Identified, NewClient
  <2> QED
    BY <1>1, <1>2, <2>1 DEF dbVars, RowsTyped, BaseTyped
<1>8. Held' = {} /\ Serving' = {}
  BY <1>1, <1>4 DEF Held, Serving, ToSet
<1>9. Quiet' /\ Processes' /\ Unopened'
  <2>1. \A d \in Dev : \A k \in 1..MaxTries : <<d, k>> \in Conn
    BY TerminalAssumption
  <2> QED
    BY <1>1, <1>2, <1>3, <1>8, <2>1 DEF Quiet, Processes, Unopened
<1>10. Owing' /\ NoneWhileDown'
  <2>1. [Next]_vars
    BY DEF Next
  <2> QED
    BY <1>2, <2>1, CollectionStep
<1>11. Empty'
  <2>1. phase \in {"visit", "tail"}
    BY DEF SystemOK, Lists, Empty
  <2> QED
    BY <1>1, <1>4, <2>1 DEF Empty
<1>12. kills' \in 0..MaxKills
  <2>1. kills' = (IF status = "up" THEN kills + 1 ELSE kills) /\ (kills < MaxKills \/ status = "crashed")
    BY DEF ServerDies
  <2> QED
    BY <1>2, <2>1, KillsAssumption
<1> QED
  BY <1>1, <1>3, <1>5, <1>6, <1>7, <1>9, <1>10, <1>11, <1>12, Zenon DEF SystemOK

(* It is started again, with the lists of a new process. *)
LEMMA SystemStarts ==
  ASSUME Dumb = {}, SystemOK, ServerStarts
  PROVE  SystemOK' /\ \A c \in Conn : UNCHANGED <<Stream(c), peer[c]>>
<1>1. /\ status = "down" /\ status' = "up" /\ phase' = "tail" /\ global_number' = 0
      /\ UNCHANGED <<netVars, base, ttyinfo, scrinfo, session_set, sess, todo, ready, term, kills>>
  BY DEF ServerStarts
<1>2. Empty /\ Typed(Sent)
  BY <1>1 DEF SystemOK
<1>3. Owing' /\ NoneWhileDown'
  <2>1. [Next]_vars
    BY DEF Next
  <2> QED
    BY <2>1, CollectionStep DEF SystemOK
<1>4. Held' = {} /\ Serving' = {} /\ Serving = {}
  BY <1>1, <1>2, EmptyLists DEF netVars, Empty, Held, Serving, ToSet
<1>5. Lists' /\ Quiet'
  <2>1. \A c \in Conn : sess'[c] = NewClient
    BY <1>1, <1>2 DEF Empty
  <2>2. /\ Listing(session_set', Conn) /\ Listing(backlog', Conn)
        /\ todo' = {} /\ ready' = {} /\ ToSet(backlog') = {}
    BY <1>1, <1>2, EmptyListing DEF Empty, netVars
  <2> QED
    BY <1>1, <1>4, <2>1, <2>2 DEF Lists, Quiet
<1>6. Typed(Sent)' /\ \A c \in Conn : UNCHANGED <<Stream(c), peer[c]>>
  BY <1>1, <1>2 DEF netVars, Typed, Stream
<1>7. Processes' /\ Unopened'
  BY <1>1 DEF SystemOK, Processes, Unopened, netVars
<1>8. RowsTyped(Ids(Owner))' /\ Identified(Owner)'
  <2>1. 0 \in 0..(ScrMod - 1)
    BY ScrModAssumption
  <2> QED
    BY <1>1, <2>1 DEF SystemOK, RowsTyped, BaseTyped, Identified
<1>9. kills' \in 0..MaxKills
  BY <1>1 DEF SystemOK
<1> QED
  BY <1>1, <1>3, <1>5, <1>6, <1>7, <1>8, <1>9, Zenon DEF SystemOK

LEMMA SystemStep ==
  ASSUME Dumb = {}
  PROVE  SystemOK /\ [Next]_vars => SystemOK'
<1> SUFFICES ASSUME SystemOK, [Next]_vars PROVE SystemOK'
  OBVIOUS
<1>1. CASE \E d \in Dev : TerminalStep(d)
  BY <1>1, SystemTerminal
<1>2. CASE \E c \in Conn : Arrive(c)
  BY <1>2, SystemArrive
<1>3. CASE ServerStep
  BY <1>3, SystemServer DEF ServerStep
<1>4. CASE ServerDies \/ ServerStarts
  BY <1>4, SystemDies, SystemStarts
<1>5. CASE UNCHANGED vars
  <2>1. UNCHANGED <<netVars, dbVars, serverVars, term, kills>>
    BY <1>5 DEF vars
  <2>2. Typed(Sent)'
    BY <2>1 DEF SystemOK, Typed, netVars, serverVars
  <2>3. RowsTyped(Ids(Owner))' /\ Identified(Owner)'
    BY <2>1 DEF SystemOK, dbVars, serverVars, RowsTyped, BaseTyped, Identified
  <2>4. Owing' /\ NoneWhileDown'
    BY <2>1, OwingKept DEF SystemOK, NoneWhileDown, serverVars
  <2>5. Processes' /\ Unopened' /\ Quiet' /\ kills' \in 0..MaxKills
    BY <2>1 DEF SystemOK, Processes, Unopened, Quiet, Held, Serving, netVars, serverVars
  <2>6. /\ status' \in {"up", "crashed", "down"}
        /\ status' = "down" => Empty'
        /\ status' # "down" => Lists'
    BY <2>1 DEF SystemOK, Empty, Lists, Held, Serving, netVars, serverVars
  <2> QED
    BY <2>2, <2>3, <2>4, <2>5, <2>6, Zenon DEF SystemOK
<1> QED
  BY <1>1, <1>2, <1>3, <1>4, <1>5 DEF Next

LEMMA SystemAlways == ASSUME Dumb = {} PROVE Spec => []SystemOK
<1>1. Init => SystemOK
  BY SystemInit
<1>2. SystemOK /\ [Next]_vars => SystemOK'
  BY SystemStep
<1> QED  BY <1>1, <1>2, PTL DEF Spec

(* However often the server dies and whenever its clients try again, its   *)
(* lists name each connection once, and every process and session is in    *)
(* one of its states, for any number of devices and connections.           *)
THEOREM CollectionTyped == ASSUME Dumb = {} PROVE Spec => []TypeOK
<1>1. SystemOK => TypeOK
  <2> SUFFICES ASSUME SystemOK PROVE TypeOK
    OBVIOUS
  <2>1. /\ Typed(Sent) /\ RowsTyped(Ids(Owner)) /\ Processes
        /\ status \in {"up", "crashed", "down"} /\ kills \in 0..MaxKills
    BY DEF SystemOK
  <2>2. \A c \in Conn : peer[c] \in PeerState /\ sess[c].state \in SessionState
    BY <2>1 DEF Typed, SessionTyped
  <2>3. \A d \in Dev : /\ term[d].pc \in {"connect", "first", "send", "data", "recv", "done", "died"}
                       /\ term[d].tries \in 0..MaxTries
                       /\ term[d].screenCount \in Nat
    BY <2>1 DEF Processes, ProcessOK, TermRecord
  <2>4. Listing(session_set, Conn) /\ ToSet(backlog) \cap ToSet(session_set) = {}
    <3>1. CASE status = "down"
      BY <3>1, EmptyListing DEF SystemOK, Empty
    <3>2. CASE status # "down"
      BY <3>2 DEF SystemOK, Lists, Held
    <3> QED
      BY <3>1, <3>2
  <2>5. IsInjective(session_set) /\ ToSet(session_set) \subseteq Conn
    BY <2>4, ListedIn DEF Listing
  <2>6. Cardinality(base) <= 1
    <3>1. base = {} \/ \E r : base = {r}
      BY <2>1 DEF RowsTyped, BaseTyped
    <3>2. CASE base = {}
      BY <3>2, FS_EmptySet
    <3>3. CASE \E r : base = {r}
      <4>1. PICK r : base = {r}
        BY <3>3
      <4>2. Cardinality({r}) = 1
        BY FS_Singleton
      <4> QED
        BY <4>1, <4>2
    <3> QED
      BY <3>1, <3>2, <3>3
  <2> QED
    BY <2>1, <2>2, <2>3, <2>4, <2>5, <2>6 DEF TypeOK
<1> QED  BY <1>1, SystemAlways, PTL

-----------------------------------------------------------------------------
(* The streams stay framed.  Between the head of a packet and its data     *)
(* comes a moment in which the packet is not complete: what the process    *)
(* still owes its connection is counted with the stream.                   *)
Owes(d) == term[d].pc = "data" /\ HasData(term[d].out)

Owed(c) == IF c = Cur(c[1]) /\ Owes(c[1]) THEN DataBlock(term[c[1]].out) ELSE <<>>

Entire(x) == Framed(x) /\ Complete(x)

Unbroken == status # "crashed" =>
  \A c \in Conn : /\ Framed(Stream(c))
                  /\ peer[c] = "idle" => Entire(Stream(c))
                  /\ peer[c] = "open" => Entire(Stream(c) \o Owed(c))

LEMMA EmptySound == Entire(<<>>) /\ <<>> \o <<>> = <<>>
<1>1. Len(<<>>) = 0
  OBVIOUS
<1> QED
  BY <1>1 DEF Entire, Framed, Complete

LEMMA OwedTyped ==
  ASSUME Dumb = {}, Processes, NEW c \in Conn
  PROVE  Owed(c) \in Seq(UnitsOf(Sent[c]))
<1>1. c[1] \in Dev
  BY TerminalAssumption
<1>2. CASE c = Cur(c[1]) /\ Owes(c[1])
  <2>1. term[c[1]].out \in TermPackets(c[1])
    BY <1>1, <1>2 DEF Owes, Processes, ProcessOK
  <2> QED
    BY <1>2, <2>1, BlocksTyped DEF Owed
<1>3. CASE ~(c = Cur(c[1]) /\ Owes(c[1]))
  <2>1. <<>> \in Seq(UnitsOf(Sent[c]))
    OBVIOUS
  <2> QED
    BY <1>3, <2>1 DEF Owed
<1> QED
  BY <1>2, <1>3

LEMMA UnbrokenInit == Init => Unbroken
<1> SUFFICES ASSUME Init, NEW c \in Conn
             PROVE  Entire(Stream(c)) /\ (peer[c] = "open" => Entire(Stream(c) \o Owed(c)))
  BY DEF Unbroken, Entire
<1>1. sess[c].recv_buffer = <<>> /\ sock[c] = <<>> /\ wire[c] = <<>> /\ peer[c] = "idle"
  BY DEF Init, NetInit, ServerInit, NewClient
<1>2. Stream(c) = <<>>
  BY <1>1, EmptySound DEF Stream
<1> QED
  BY <1>1, <1>2, EmptySound

(* What the server takes, it takes from the front. *)
LEMMA UnbrokenServer ==
  ASSUME Dumb = {}, SystemOK, Unbroken, ServerNext, UNCHANGED term
  PROVE  Unbroken'
<1> SUFFICES ASSUME status' = "up", NEW c \in Conn
             PROVE  /\ Framed(Stream(c)')
                    /\ peer'[c] = "idle" => Entire(Stream(c)')
                    /\ peer'[c] = "open" => Entire(Stream(c)' \o Owed(c))
  <2>1. status' \in {"up", "crashed"}
    BY ServerStatus
  <2>2. ASSUME NEW c \in Conn
        PROVE  (Stream(c) \o Owed(c))' = Stream(c)' \o Owed(c)
    BY DEF Owed, Owes, Cur
  <2>3. ASSUME NEW c \in Conn
        PROVE  Entire(Stream(c) \o Owed(c))' = Entire(Stream(c)' \o Owed(c))
    BY <2>2 DEF Entire, Framed, Complete
  <2>4. ASSUME NEW c \in Conn
        PROVE  Framed(Stream(c))' = Framed(Stream(c)') /\ Entire(Stream(c))' = Entire(Stream(c)')
    BY DEF Entire, Framed, Complete
  <2> QED
    BY <2>1, <2>3, <2>4 DEF Unbroken
<1> DEFINE U == UnitsOf(Sent[c])
           x == Stream(c)
           y == Stream(c)'
           o == Owed(c)
<1>1. Typed(Sent) /\ Shape /\ Processes /\ status = "up"
  BY ServerStatus DEF SystemOK, Owing
<1>2. Typed(Sent)'
  BY <1>1, ServerTyped
<1>3. x \in Seq(U) /\ y \in Seq(U) /\ o \in Seq(U)
  BY <1>1, <1>2, StreamTyped, NextStreamTyped, OwedTyped
<1>4. RestOf(U, x, y) /\ (peer'[c] \in {"idle", "open"} => peer'[c] = peer[c])
  BY <1>1, ServerStream
<1>5. \A p \in Sent[c] : PacketOK(p)
  BY SentAdmits
<1>6. /\ Framed(x)
      /\ peer[c] = "idle" => Entire(x)
      /\ peer[c] = "open" => Entire(x \o o)
  BY <1>1 DEF Unbroken
<1> HIDE DEF x, y, o
<1>7. x \o o \in Seq(U) /\ y \o o \in Seq(U) /\ RestOf(U, x \o o, y \o o)
  <2>1. PICK a \in Seq(U) : x = a \o y
    BY <1>4 DEF RestOf
  <2>2. (a \o y) \o o = a \o (y \o o)
    BY <1>3, Associates DEF Associate
  <2>3. y \o o \in Seq(U) /\ x \o o \in Seq(U)
    BY <1>3, ConcatProperties
  <2> HIDE DEF U
  <2> QED
    BY <2>1, <2>2, <2>3 DEF RestOf
<1>8. (Framed(x) => Framed(y)) /\ (Complete(x) => Complete(y))
  BY <1>3, <1>4, <1>5, FramedRest
<1>9. (Framed(x \o o) => Framed(y \o o)) /\ (Complete(x \o o) => Complete(y \o o))
  BY <1>5, <1>7, FramedRest
<1> QED
  BY <1>4, <1>6, <1>8, <1>9 DEF Entire, x, y, o

(* Steps that send nothing. *)
LEMMA UnbrokenKept ==
  ASSUME Dumb = {}, SystemOK, Unbroken, status' = status,
         \A c \in Conn : /\ Stream(c)' = Stream(c)
                         /\ peer'[c] = "idle" => peer[c] = "idle"
                         /\ peer'[c] = "open" => \/ peer[c] = "open" /\ Owed(c)' = Owed(c)
                                                 \/ peer[c] = "idle" /\ Owed(c)' = <<>>
  PROVE  Unbroken'
<1> SUFFICES ASSUME status # "crashed", NEW c \in Conn
             PROVE  /\ Framed(Stream(c))'
                    /\ peer'[c] = "idle" => Entire(Stream(c))'
                    /\ peer'[c] = "open" => Entire(Stream(c) \o Owed(c))'
  BY DEF Unbroken
<1>1. /\ Framed(Stream(c))
      /\ peer[c] = "idle" => Entire(Stream(c))
      /\ peer[c] = "open" => Entire(Stream(c) \o Owed(c))
  BY DEF Unbroken
<1>2. /\ Framed(Stream(c))' = Framed(Stream(c))
      /\ Entire(Stream(c))' = Entire(Stream(c))
  BY DEF Entire, Framed, Complete
<1>3. CASE peer'[c] = "open" /\ peer[c] = "open" /\ Owed(c)' = Owed(c)
  <2>1. (Stream(c) \o Owed(c))' = Stream(c) \o Owed(c)
    BY <1>3
  <2>2. Entire(Stream(c) \o Owed(c))' = Entire(Stream(c) \o Owed(c))
    BY <2>1 DEF Entire, Framed, Complete
  <2> QED
    BY <1>1, <1>2, <1>3, <2>2
<1>4. CASE peer'[c] = "open" /\ peer[c] = "idle" /\ Owed(c)' = <<>>
  <2>1. Typed(Sent)
    BY DEF SystemOK
  <2>2. Stream(c) \in Seq(UnitsOf(Sent[c]))
    BY <2>1, StreamTyped
  <2>3. Stream(c) \o <<>> = Stream(c)
    BY <2>2, ConcatEmptySeq
  <2>4. (Stream(c) \o Owed(c))' = Stream(c)
    BY <1>4, <2>3
  <2>5. Entire(Stream(c) \o Owed(c))' = Entire(Stream(c))
    BY <2>4 DEF Entire, Framed, Complete
  <2> QED
    BY <1>1, <1>2, <1>4, <2>5
<1>5. CASE peer'[c] # "open"
  BY <1>1, <1>2, <1>5
<1> QED
  BY <1>3, <1>4, <1>5

(* Only a process between a head and its data owes anything. *)
LEMMA OwedNothing ==
  ASSUME NEW d \in Dev, NEW c \in Conn, c[1] = d
  PROVE  /\ ~Owes(d) \/ c # Cur(d) => Owed(c) = <<>>
         /\ ~Owes(d)' \/ c # Cur(d)' => Owed(c)' = <<>>
BY DEF Owed

LEMMA OthersOwe ==
  ASSUME NEW d \in Dev, \A e \in Dev : e # d => term'[e] = term[e], NEW c \in Conn, c[1] # d
  PROVE  Owed(c)' = Owed(c)
<1>1. c[1] \in Dev
  BY TerminalAssumption
<1>2. term'[c[1]] = term[c[1]]
  BY <1>1
<1> QED
  BY <1>2 DEF Owed, Owes, Cur

LEMMA NextPC ==
  ASSUME Processes, NEW d \in Dev, NEW pc, Goes(d, pc)
  PROVE  term'[d].pc = pc /\ term'[d].tries = term[d].tries
<1>1. term[d] \in TermRecord(d) /\ term = [x \in Dev |-> term[x]]
  BY DEF Processes, ProcessOK
<1> QED
  BY <1>1 DEF Goes, TermRecord

(* The head of a packet is sent. *)
LEMMA UnbrokenHead ==
  ASSUME Dumb = {}, SystemOK, Unbroken, NEW d \in Dev, SendHead(d), UNCHANGED serverVars,
         \A e \in Dev : e # d => term'[e] = term[e]
  PROVE  Unbroken'
<1>1. /\ Processes /\ Typed(Sent) /\ term[d].pc = "send" /\ term[d].fd
      /\ UNCHANGED <<sock, s2c, peer, status, sess>>
  BY DEF SystemOK, SendHead, serverVars
<1>2. PICK p \in Packets(d) : /\ term' = [term EXCEPT ![d] = [Counted(term[d], p) EXCEPT !.out = p, !.pc = "data"]]
                              /\ Sends(d, HeadBlock(p))
  BY DEF SendHead
<1>3. p \in TermPackets(d)
  BY <1>1, PacketsTyped DEF Processes, ProcessOK
<1>4. PICK k \in Conn : k = Cur(d) /\ k[1] = d
  BY <1>1, CurOpened
<1>5. term'[d].pc = "data" /\ term'[d].out = p /\ term'[d].tries = term[d].tries
  <2> DEFINE c == Counted(term[d], p)
  <2>1. term[d] \in TermRecord(d) /\ term = [x \in Dev |-> term[x]]
    BY <1>1 DEF Processes, ProcessOK
  <2>2. c \in TermRecord(d) /\ c.tries = term[d].tries
    BY <1>3, <2>1, CountedOK
  <2>3. term'[d] = [c EXCEPT !.out = p, !.pc = "data"]
    BY <1>2, <2>1
  <2> HIDE DEF c
  <2> QED
    BY <2>2, <2>3 DEF TermRecord
<1>6. k = Cur(d)'
  BY <1>4, <1>5 DEF Cur
<1> DEFINE U == UnitsOf(Sent[k])
           h == HeadBlock(p)
           v == IF HasData(p) THEN DataBlock(p) ELSE <<>>
           x == Stream(k)
<1>7. Owed(k) = <<>> /\ Owed(k)' = v
  <2>1. ~Owes(d)
    BY <1>1 DEF Owes
  <2>2. Owes(d)' <=> HasData(p)
    BY <1>5 DEF Owes, HasData
  <2>3. Owed(k)' = IF HasData(p) THEN DataBlock(p) ELSE <<>>
    BY <1>4, <1>5, <1>6, <2>2 DEF Owed
  <2> QED
    BY <1>4, <2>1, <2>3, OwedNothing
<1>8. /\ p \in Sent[k] /\ PacketOK(p) /\ h \in Seq(U)
      /\ DataBlock(p) \in Seq(U) /\ \A q \in Sent[k] : PacketOK(q)
  BY <1>3, <1>4, BlocksTyped, SentAdmits
<1>9. v \in Seq(U) /\ h \o v = Whole(p)
  <2>1. <<>> \in Seq(U)
    OBVIOUS
  <2> QED
    BY <1>8, <2>1 DEF Whole
<1>10. x \in Seq(U)
  BY <1>1, StreamTyped
<1>11. /\ \A c \in Conn : c # k \/ peer[c] # "open" => UNCHANGED Stream(c)
       /\ peer[k] = "open" => Stream(k)' = Stream(k) \o h
  BY <1>1, <1>2, <1>4, <1>8, BlockSent
<1>12. ASSUME NEW c \in Conn, c # k PROVE Owed(c)' = Owed(c)
  <2>1. CASE c[1] = d
    <3>1. c # Cur(d) /\ c # Cur(d)'
      BY <1>4, <1>6, <1>12
    <3> QED
      BY <2>1, <3>1, OwedNothing
  <2>2. CASE c[1] # d
    BY <2>2, OthersOwe
  <2> QED
    BY <2>1, <2>2
<1>13. CASE peer[k] # "open"
  <2>1. \A c \in Conn : peer'[c] = "open" => peer[c] = "open" /\ Owed(c)' = Owed(c)
    BY <1>1, <1>12, <1>13
  <2>2. \A c \in Conn : Stream(c)' = Stream(c) /\ (peer'[c] = "idle" => peer[c] = "idle")
    BY <1>1, <1>11, <1>13
  <2> QED
    BY <1>1, <2>1, <2>2, UnbrokenKept
<1>14. CASE peer[k] = "open"
  <2> SUFFICES ASSUME status # "crashed", NEW c \in Conn
               PROVE  /\ Framed(Stream(c))'
                      /\ peer'[c] = "idle" => Entire(Stream(c))'
                      /\ peer'[c] = "open" => Entire(Stream(c) \o Owed(c))'
    BY <1>1 DEF Unbroken
  <2>1. /\ Framed(Stream(c))
        /\ peer[c] = "idle" => Entire(Stream(c))
        /\ peer[c] = "open" => Entire(Stream(c) \o Owed(c))
    BY DEF Unbroken
  <2>2. CASE c # k
    <3>1. Stream(c)' = Stream(c) /\ (Stream(c) \o Owed(c))' = Stream(c) \o Owed(c)
      BY <1>11, <1>12, <2>2
    <3>2. Framed(Stream(c))' = Framed(Stream(c)) /\ Entire(Stream(c))' = Entire(Stream(c))
      BY <3>1 DEF Entire, Framed, Complete
    <3>3. Entire(Stream(c) \o Owed(c))' = Entire(Stream(c) \o Owed(c))
      BY <3>1 DEF Entire, Framed, Complete
    <3> QED
      BY <1>1, <2>1, <3>2, <3>3
  <2>3. CASE c = k
    <3>1. x \o <<>> = x
      BY <1>10, ConcatEmptySeq
    <3>2. Entire(x)
      BY <1>7, <1>14, <2>1, <2>3, <3>1
    <3>3. Entire(Whole(p)) /\ Whole(p) \in Seq(U)
      BY <1>8, WholeFramed, WholeUnits DEF Entire
    <3>4. Stream(k)' = x \o h
      BY <1>11, <1>14
    <3>5. (x \o h) \o v = x \o Whole(p) /\ x \o h \in Seq(U)
      <4> HIDE DEF U, x, h, v
      <4>0. x \in Seq(U) /\ h \in Seq(U) /\ v \in Seq(U)
        BY <1>8, <1>9, <1>10
      <4>1. Associate(x, h, v)
        BY <4>0, Associates, Zenon
      <4>2. x \o h \in Seq(U)
        BY <4>0, ConcatProperties
      <4> QED
        BY <1>9, <4>1, <4>2, Zenon DEF Associate
    <3>6. (Stream(k) \o Owed(k))' = x \o Whole(p)
      BY <1>7, <3>4, <3>5
    <3> HIDE DEF x, h, v
    <3>7. Entire(x \o Whole(p))
      BY <1>8, <1>10, <3>2, <3>3, FramedAppend DEF Entire
    <3>8. Framed(x \o h)
      <4>1. Framed((x \o h) \o v)
        BY <3>5, <3>7 DEF Entire
      <4> QED
        BY <1>9, <3>5, <4>1, FramedFront
    <3>9. Framed(Stream(k))'
      BY <3>4, <3>8 DEF Framed
    <3>10. Entire(Stream(k) \o Owed(k))'
      BY <3>6, <3>7 DEF Entire, Framed, Complete
    <3> QED
      BY <1>1, <1>14, <2>3, <3>9, <3>10
  <2> QED
    BY <2>2, <2>3
<1> QED
  BY <1>13, <1>14

(* Its data follows: what was owed is now in the stream. *)
LEMMA UnbrokenData ==
  ASSUME Dumb = {}, SystemOK, Unbroken, NEW d \in Dev, SendData(d), UNCHANGED serverVars,
         \A e \in Dev : e # d => term'[e] = term[e]
  PROVE  Unbroken'
<1>1. /\ Processes /\ Typed(Sent) /\ Owes(d) /\ Sends(d, DataBlock(term[d].out)) /\ Goes(d, "recv")
      /\ UNCHANGED <<sock, s2c, peer, status, sess>>
  BY DEF SystemOK, SendData, serverVars, Owes
<1>2. term[d].fd /\ term[d].out \in TermPackets(d)
  BY <1>1 DEF Owes, Processes, ProcessOK
<1>3. PICK p \in TermPackets(d) : p = term[d].out
  BY <1>2
<1>4. PICK k \in Conn : k = Cur(d) /\ k[1] = d
  BY <1>1, <1>2, CurOpened
<1>5. term'[d].pc = "recv" /\ term'[d].tries = term[d].tries
  BY <1>1, NextPC
<1>6. k = Cur(d)' /\ ~Owes(d)'
  BY <1>4, <1>5 DEF Cur, Owes
<1> DEFINE U == UnitsOf(Sent[k])
           v == DataBlock(p)
           x == Stream(k)
<1>7. Owed(k) = v /\ Owed(k)' = <<>>
  BY <1>1, <1>3, <1>4, <1>6, OwedNothing DEF Owed
<1>8. v \in Seq(U)
  BY <1>3, <1>4, BlocksTyped
<1>9. x \in Seq(U)
  BY <1>1, StreamTyped
<1>10. /\ \A c \in Conn : c # k \/ peer[c] # "open" => UNCHANGED Stream(c)
       /\ peer[k] = "open" => Stream(k)' = Stream(k) \o v
  BY <1>1, <1>3, <1>4, <1>8, BlockSent
<1>11. ASSUME NEW c \in Conn, c # k PROVE Owed(c)' = Owed(c)
  <2>1. CASE c[1] = d
    <3>1. c # Cur(d) /\ c # Cur(d)'
      BY <1>4, <1>6, <1>11
    <3> QED
      BY <2>1, <3>1, OwedNothing
  <2>2. CASE c[1] # d
    BY <2>2, OthersOwe
  <2> QED
    BY <2>1, <2>2
<1>12. CASE peer[k] # "open"
  <2>1. \A c \in Conn : peer'[c] = "open" => peer[c] = "open" /\ Owed(c)' = Owed(c)
    BY <1>1, <1>11, <1>12
  <2>2. \A c \in Conn : Stream(c)' = Stream(c) /\ (peer'[c] = "idle" => peer[c] = "idle")
    BY <1>1, <1>10, <1>12
  <2> QED
    BY <1>1, <2>1, <2>2, UnbrokenKept
<1>13. CASE peer[k] = "open"
  <2> SUFFICES ASSUME status # "crashed", NEW c \in Conn
               PROVE  /\ Framed(Stream(c))'
                      /\ peer'[c] = "idle" => Entire(Stream(c))'
                      /\ peer'[c] = "open" => Entire(Stream(c) \o Owed(c))'
    BY <1>1 DEF Unbroken
  <2>1. /\ Framed(Stream(c))
        /\ peer[c] = "idle" => Entire(Stream(c))
        /\ peer[c] = "open" => Entire(Stream(c) \o Owed(c))
    BY DEF Unbroken
  <2>2. CASE c # k
    <3>1. Stream(c)' = Stream(c) /\ (Stream(c) \o Owed(c))' = Stream(c) \o Owed(c)
      BY <1>10, <1>11, <2>2
    <3>2. Framed(Stream(c))' = Framed(Stream(c)) /\ Entire(Stream(c))' = Entire(Stream(c))
      BY <3>1 DEF Entire, Framed, Complete
    <3>3. Entire(Stream(c) \o Owed(c))' = Entire(Stream(c) \o Owed(c))
      BY <3>1 DEF Entire, Framed, Complete
    <3> QED
      BY <1>1, <2>1, <3>2, <3>3
  <2>3. CASE c = k
    <3>1. Stream(k)' = x \o v
      BY <1>10, <1>13
    <3>2. Entire(x \o v)
      BY <1>7, <1>13, <2>1, <2>3
    <3>3. x \o v \in Seq(U)
      BY <1>8, <1>9, ConcatProperties
    <3> HIDE DEF x, v, U
    <3>4. (x \o v) \o <<>> = x \o v
      BY <3>3, ConcatEmptySeq
    <3>5. (Stream(k) \o Owed(k))' = x \o v
      BY <1>7, <3>1, <3>4
    <3>6. Entire(Stream(k) \o Owed(k))' = Entire(x \o v)
      BY <3>5 DEF Entire, Framed, Complete
    <3>7. Framed(Stream(k))' = Framed(x \o v)
      BY <3>1 DEF Framed
    <3>8. Framed(x \o v)
      BY <3>2 DEF Entire
    <3> QED
      BY <1>1, <1>13, <2>3, <3>2, <3>6, <3>7, <3>8
  <2> QED
    BY <2>2, <2>3
<1> QED
  BY <1>12, <1>13

(* Every step of a terminal. *)
LEMMA UnbrokenTerminal ==
  ASSUME Dumb = {}, SystemOK, Unbroken, NEW d \in Dev, TerminalStep(d)
  PROVE  Unbroken'
<1>1. TerminalNext(d, Listening) /\ UNCHANGED <<dbVars, serverVars, kills>>
  BY DEF TerminalStep
<1>2. /\ Processes /\ Unopened /\ Typed(Sent)
      /\ UNCHANGED <<status, sess>> /\ Listening \in BOOLEAN
  BY <1>1 DEF SystemOK, serverVars, Listening
<1>3. PICK l \in BOOLEAN : l = Listening
  BY <1>2
<1>4. TerminalNext(d, l) /\ \A e \in Dev : e # d => term'[e] = term[e]
  BY <1>1, <1>2, <1>3, ProcessStep
<1>5. term[d] \in TermRecord(d) /\ term = [x \in Dev |-> term[x]]
  BY <1>2 DEF Processes, ProcessOK
<1>6. ASSUME ~Owes(d), ~Owes(d)', NEW c \in Conn PROVE Owed(c)' = Owed(c)
  <2>1. CASE c[1] = d
    BY <1>6, <2>1, OwedNothing
  <2>2. CASE c[1] # d
    BY <1>4, <2>2, OthersOwe
  <2> QED
    BY <2>1, <2>2
<1>7. CASE Connect(d, l)
  <2>1. PICK k \in Conn : /\ k = <<d, term[d].tries + 1>> /\ peer'[k] = "open"
                          /\ \A e \in Conn : e # k => peer'[e] = peer[e]
    BY <1>1, <1>2, <1>7, ConnectsDoes
  <2>2. \A c \in Conn : UNCHANGED Stream(c)
    BY <1>1, <1>2, <1>7, ConnectsDoes
  <2>3. ~Owes(d) /\ ~Owes(d)'
    <3>1. term[d].pc = "connect"
      BY <1>7 DEF Connect
    <3>2. term'[d].pc = "first"
      BY <1>5, <1>7 DEF Connect, TermRecord
    <3> QED
      BY <3>1, <3>2 DEF Owes
  <2>4. peer[k] = "idle" /\ k[1] = d
    <3>1. term[d].tries \in 0..MaxTries
      BY <1>5 DEF TermRecord
    <3>2. k[1] = d /\ k[2] \in 1..MaxTries /\ k[2] = term[d].tries + 1
      BY <2>1, TerminalAssumption
    <3>3. term[d].tries + 1 \in 1..MaxTries /\ term[d].tries + 1 > term[d].tries
      BY <3>1, <3>2
    <3> QED
      BY <1>2, <2>1, <3>2, <3>3 DEF Unopened
  <2>5. Owed(k)' = <<>>
    BY <2>3, <2>4, OwedNothing
  <2>6. \A c \in Conn : /\ Stream(c)' = Stream(c)
                        /\ peer'[c] = "idle" => peer[c] = "idle"
                        /\ peer'[c] = "open" => \/ peer[c] = "open" /\ Owed(c)' = Owed(c)
                                                \/ peer[c] = "idle" /\ Owed(c)' = <<>>
    <3> SUFFICES ASSUME NEW c \in Conn
                 PROVE  /\ peer'[c] = "idle" => peer[c] = "idle"
                        /\ peer'[c] = "open" => \/ peer[c] = "open" /\ Owed(c)' = Owed(c)
                                                \/ peer[c] = "idle" /\ Owed(c)' = <<>>
      BY <2>2
    <3>1. CASE c = k
      BY <2>1, <2>4, <2>5, <3>1
    <3>2. CASE c # k
      BY <1>6, <2>1, <2>3, <3>2
    <3> QED
      BY <3>1, <3>2
  <2> QED
    BY <1>2, <2>6, UnbrokenKept
<1>8. ASSUME UNCHANGED <<wire, sock>>, peer' = peer \/ CloseAll(d),
             \A c \in Conn : peer'[c] = "open" => Owed(c)' = Owed(c)
      PROVE  Unbroken'
  <2>1. \A c \in Conn : UNCHANGED Stream(c)
    BY <1>2, <1>8 DEF Stream
  <2>2. \A c \in Conn : /\ peer'[c] = "idle" => peer[c] = "idle"
                        /\ peer'[c] = "open" => peer[c] = "open"
    BY <1>2, <1>8, CloseAllDoes
  <2> QED
    BY <1>2, <1>8, <2>1, <2>2, UnbrokenKept
<1>9. ASSUME UNCHANGED <<wire, sock>>, peer' = peer \/ CloseAll(d), ~Owes(d), ~Owes(d)'
      PROVE  Unbroken'
  BY <1>6, <1>8, <1>9
<1>10. CASE Refused(d, l)
  <2>1. term[d].pc = "connect" /\ UNCHANGED netVars
    BY <1>10 DEF Refused
  <2>2. term'[d].pc = "first"
    BY <1>5, <1>10 DEF Refused, TermRecord
  <2> QED
    BY <1>9, <2>1, <2>2 DEF Owes, netVars
<1>11. CASE Recv(d)
  <2>1. term[d].pc \in {"first", "recv"} /\ UNCHANGED <<wire, sock, peer>>
    BY <1>11 DEF Recv
  <2>2. term'[d].pc = "send"
    BY <1>5, <1>11 DEF Recv, TermRecord
  <2> QED
    BY <1>9, <2>1, <2>2 DEF Owes
<1>12. CASE StaleFirst(d) \/ EmptyFirst(d) \/ RecvBroken(d)
  <2>1. /\ term[d].pc \in {"first", "recv"} /\ UNCHANGED <<wire, sock>>
        /\ peer' = peer \/ CloseAll(d)
    BY <1>12 DEF StaleFirst, EmptyFirst, RecvBroken, netVars
  <2>2. PICK pc \in {"send", "died", "connect"} : Goes(d, pc)
    BY <1>12 DEF StaleFirst, EmptyFirst, RecvBroken
  <2>3. term'[d].pc = pc
    BY <1>2, <2>2, NextPC
  <2> QED
    BY <1>9, <2>1, <2>2, <2>3 DEF Owes
<1>13. CASE Finish(d)
  <2>1. ~HasData(term[d].out) /\ UNCHANGED <<wire, sock>> /\ CloseAll(d) /\ Goes(d, "done")
    BY <1>13 DEF Finish
  <2>2. term'[d].pc = "done"
    BY <1>2, <2>1, NextPC
  <2> QED
    BY <1>9, <2>1, <2>2 DEF Owes
<1>14. ASSUME UNCHANGED <<wire, sock>>, peer' = peer \/ CloseAll(d), ~Owes(d)',
              Owes(d) => peer[Cur(d)] = "cut"
       PROVE  Unbroken'
  <2>1. \A c \in Conn : peer'[c] = "open" => peer[c] = "open"
    BY <1>2, <1>14, CloseAllDoes
  <2>2. ASSUME NEW c \in Conn, peer'[c] = "open" PROVE Owed(c)' = Owed(c)
    <3>1. CASE c[1] = d
      <4>1. ~Owes(d) \/ c # Cur(d)
        BY <1>14, <2>1, <2>2
      <4> QED
        BY <1>14, <3>1, <4>1, OwedNothing
    <3>2. CASE c[1] # d
      BY <1>4, <3>2, OthersOwe
    <3> QED
      BY <3>1, <3>2
  <2> QED
    BY <1>8, <1>14, <2>2
<1>15. CASE Sigpipe(d)
  <2>1. UNCHANGED <<wire, sock>> /\ CloseAll(d) /\ Goes(d, "died") /\ peer[Cur(d)] = "cut"
    BY <1>15 DEF Sigpipe
  <2>2. term'[d].pc = "died"
    BY <1>2, <2>1, NextPC
  <2> QED
    BY <1>14, <2>1, <2>2 DEF Owes
<1>16. CASE SendBroken(d)
  <2>1. UNCHANGED <<wire, sock, peer>>
    BY <1>16 DEF SendBroken, netVars
  <2>2. CASE term[d].pc = "data" /\ peer[Cur(d)] = "cut" /\ Goes(d, "connect")
    <3>1. term'[d].pc = "connect"
      BY <1>2, <2>2, NextPC
    <3> QED
      BY <1>14, <2>1, <2>2, <3>1 DEF Owes
  <2>3. CASE /\ term[d].pc = "send"
             /\ \E p \in Packets(d) : term' = [term EXCEPT ![d] = [Counted(@, p) EXCEPT !.pc = "connect"]]
    <3>1. PICK p \in Packets(d) : term' = [term EXCEPT ![d] = [Counted(term[d], p) EXCEPT !.pc = "connect"]]
      BY <2>3
    <3>2. p \in TermPackets(d)
      BY <1>2, <2>3, PacketsTyped DEF Processes, ProcessOK
    <3> DEFINE c == Counted(term[d], p)
    <3>3. c \in TermRecord(d)
      BY <1>5, <3>2, CountedOK
    <3>4. term'[d] = [c EXCEPT !.pc = "connect"]
      BY <1>5, <3>1
    <3> HIDE DEF c
    <3>5. term'[d].pc = "connect"
      BY <3>3, <3>4 DEF TermRecord
    <3> QED
      BY <1>9, <2>1, <2>3, <3>5 DEF Owes
  <2> QED
    BY <1>16, <2>2, <2>3 DEF SendBroken
<1>17. CASE SendHead(d) \/ SendData(d)
  BY <1>1, <1>4, <1>17, UnbrokenHead, UnbrokenData
<1> QED
  BY <1>4, <1>7, <1>10, <1>11, <1>12, <1>13, <1>15, <1>16, <1>17 DEF TerminalNext

LEMMA UnbrokenStep ==
  ASSUME Dumb = {}, SystemOK, Unbroken, [Next]_vars
  PROVE  Unbroken'
<1>1. CASE \E d \in Dev : TerminalStep(d)
  BY <1>1, UnbrokenTerminal
<1>2. CASE ServerStep
  BY <1>2, UnbrokenServer DEF ServerStep
<1>3. ASSUME UNCHANGED term, \A c \in Conn : UNCHANGED <<Stream(c), peer[c]>>,
             status' # "crashed" => status # "crashed"
      PROVE  Unbroken'
  <2> SUFFICES ASSUME status' # "crashed", NEW c \in Conn
               PROVE  /\ Framed(Stream(c))'
                      /\ peer'[c] = "idle" => Entire(Stream(c))'
                      /\ peer'[c] = "open" => Entire(Stream(c) \o Owed(c))'
    BY DEF Unbroken
  <2>1. /\ Framed(Stream(c))
        /\ peer[c] = "idle" => Entire(Stream(c))
        /\ peer[c] = "open" => Entire(Stream(c) \o Owed(c))
    BY <1>3 DEF Unbroken
  <2>2. Stream(c)' = Stream(c) /\ Owed(c)' = Owed(c) /\ peer'[c] = peer[c]
    BY <1>3 DEF Owed, Owes, Cur
  <2>3. (Stream(c) \o Owed(c))' = Stream(c) \o Owed(c)
    BY <2>2
  <2>4. Framed(Stream(c))' = Framed(Stream(c)) /\ Entire(Stream(c))' = Entire(Stream(c))
    BY <2>2 DEF Entire, Framed, Complete
  <2>5. Entire(Stream(c) \o Owed(c))' = Entire(Stream(c) \o Owed(c))
    BY <2>3 DEF Entire, Framed, Complete
  <2> QED
    BY <2>1, <2>2, <2>4, <2>5
<1>4. CASE \E c \in Conn : Arrive(c)
  <2>1. PICK c \in Conn : Arrive(c)
    BY <1>4
  <2>2. UNCHANGED term /\ status' = status
    BY <2>1 DEF Arrive, serverVars
  <2> QED
    BY <1>3, <2>1, <2>2, SystemArrive
<1>5. CASE ServerStarts
  <2>1. UNCHANGED term /\ status = "down"
    BY <1>5 DEF ServerStarts
  <2> QED
    BY <1>3, <1>5, <2>1, SystemStarts
<1>6. CASE ServerDies
  <2> SUFFICES ASSUME NEW c \in Conn
               PROVE  Framed(Stream(c))' /\ Entire(Stream(c))' /\ peer'[c] # "open"
    BY DEF Unbroken
  <2>1. sess'[c] = NewClient /\ wire'[c] = <<>> /\ sock'[c] = <<>>
    BY <1>6, SystemDies
  <2>2. Stream(c)' = <<>>
    BY <2>1, EmptySound DEF Stream, NewClient
  <2>3. Framed(Stream(c))' = Framed(<<>>) /\ Entire(Stream(c))' = Entire(<<>>)
    BY <2>2 DEF Entire, Framed, Complete
  <2>4. Typed(Sent) /\ Cut
    BY <1>6 DEF SystemOK, ServerDies
  <2>5. peer'[c] # "open"
    BY <2>4, CutDoes
  <2> QED
    BY <2>3, <2>5, EmptySound DEF Entire
<1>7. CASE UNCHANGED vars
  <2>1. UNCHANGED <<term, status, peer>> /\ \A c \in Conn : UNCHANGED Stream(c)
    BY <1>7 DEF vars, netVars, serverVars, Stream
  <2> QED
    BY <1>3, <2>1
<1> QED
  BY <1>1, <1>2, <1>4, <1>5, <1>6, <1>7 DEF Next

(* When the second loop decodes the screens of a terminal they are all at  *)
(* the front of the buffer, although nothing looks: also when the server   *)
(* has died between the two halves of a packet and its client, connected   *)
(* again, went on from where it was.                                       *)
THEOREM CollectionScreensWhole == ASSUME Dumb = {} PROVE Spec => []ScreensWhole
<1> DEFINE Inv == SystemOK /\ Unbroken /\ ScreensWhole
<1>1. Init => Inv
  <2>1. Init => ScreensWhole
    BY DEF Init, ServerInit, NewClient, ScreensWhole
  <2> QED
    BY <2>1, SystemInit, UnbrokenInit
<1>2. Inv /\ [Next]_vars => Inv'
  <2> SUFFICES ASSUME SystemOK, Unbroken, ScreensWhole, [Next]_vars PROVE ScreensWhole'
    BY SystemStep, UnbrokenStep
  <2>1. CASE ServerStep
    <3>1. Typed(Sent) /\ Shape /\ ServerNext
      BY <2>1 DEF SystemOK, Owing, ServerStep
    <3>2. \A c \in Conn : Framed(Stream(c))
      BY <3>1, ServerStatus DEF Unbroken
    <3> QED
      BY <3>1, <3>2, ServerScreens
  <2>2. CASE UNCHANGED sess
    BY <2>2 DEF ScreensWhole
  <2>3. CASE ServerDies
    <3>1. \A c \in Conn : sess'[c] = NewClient
      BY <2>3, SystemDies
    <3> QED
      BY <3>1 DEF ScreensWhole, NewClient
  <2>4. \/ ServerStep \/ ServerDies \/ UNCHANGED sess
    BY DEF Next, TerminalStep, Arrive, ServerStarts, vars, serverVars
  <2> QED
    BY <2>1, <2>2, <2>3, <2>4
<1>3. Inv => ScreensWhole
  OBVIOUS
<1> HIDE DEF Inv
<1> QED
  BY <1>1, <1>2, <1>3, PTL DEF Spec

=============================================================================
