---------------------------- MODULE StreamProofs -----------------------------
(***************************************************************************)
(* What a step of the server preserves of the contents of the connections: *)
(* that the units and requests in every buffer are the ones that were sent *)
(* (Typed), that its lists name the sessions it has (Lists), that the rows *)
(* are of devices that were let in (RowsTyped, Identified), that the       *)
(* streams are whole packets (Framed, Complete), that the terminals are    *)
(* asked about and answered in order (Ordered), and that the screens of    *)
(* one terminal get different numbers (Numbering).                         *)
(***************************************************************************)
EXTENDS ServerProofs, SequenceTheorems, FiniteSetTheorems

-----------------------------------------------------------------------------
(* Induction: a set of numbers has a least one. *)
LEMMA LeastNat ==
  ASSUME NEW T \in SUBSET Nat, T # {}
  PROVE  \E n \in T : \A m \in T : n <= m
<1> DEFINE R == {ss \in Nat \X Nat : ss[1] < ss[2]}
<1>1. IsWellFoundedOn(R, Nat)
  BY NatLessThanWellFounded, Zenon DEF OpToRel
<1>2. PICK n \in T : \A m \in T : ~(<<m, n>> \in R)
  BY <1>1, WFMin, Zenon
<1>3. \A m \in T : ~(m < n)
  BY <1>2
<1> QED
  BY <1>3

(* A finite set of numbers can be put in order, so that Sorted has a value: *)
(* put the others in order behind the least.                                *)
InOrder(q) == \A i, j \in DOMAIN q : i < j => q[i] < q[j]

LEMMA SortedExists ==
  ASSUME NEW S \in SUBSET Nat, IsFiniteSet(S)
  PROVE  \E q \in [1..Cardinality(S) -> S] : InOrder(q)
<1> DEFINE Fails(U, n) == /\ IsFiniteSet(U) /\ Cardinality(U) = n
                          /\ ~\E q \in [1..n -> U] : InOrder(q)
           T == {n \in Nat : \E U \in SUBSET Nat : Fails(U, n)}
<1>1. SUFFICES ASSUME T # {} PROVE FALSE
  <2>1. Cardinality(S) \in Nat
    BY FS_CardinalityType
  <2> QED
    BY <1>1, <2>1
<1>2. PICK n \in T : \A m \in T : n <= m
  BY <1>1, LeastNat
<1>3. PICK U \in SUBSET Nat : Fails(U, n)
  BY <1>2
<1>4. U # {}
  <2>1. ASSUME U = {} PROVE FALSE
    <3>1. n = 0
      BY <1>3, <2>1, FS_EmptySet
    <3> DEFINE q == [i \in 1..0 |-> i]
    <3>2. q \in [1..0 -> U] /\ InOrder(q)
      BY DEF InOrder
    <3> QED
      BY <1>3, <3>1, <3>2
  <2> QED
    BY <2>1
<1>5. PICK m \in U : \A k \in U : m <= k
  BY <1>4, LeastNat
<1> DEFINE V == U \ {m}
<1>6. IsFiniteSet(V) /\ Cardinality(V) = n - 1 /\ n - 1 \in Nat
  <2>1. IsFiniteSet(V) /\ Cardinality(V) = n - 1
    BY <1>3, <1>5, FS_RemoveElement
  <2>2. Cardinality(V) \in Nat
    BY <2>1, FS_CardinalityType
  <2> QED
    BY <2>1, <2>2
<1>7. PICK v \in [1..(n - 1) -> V] : InOrder(v)
  <2>1. n - 1 \notin T
    BY <1>2, <1>6
  <2> QED
    BY <1>6, <2>1
<1> DEFINE u == [i \in 1..n |-> IF i = 1 THEN m ELSE v[i - 1]]
<1>8. \A k \in V : m < k /\ k \in Nat
  BY <1>5
<1>9. \A i \in 2..n : u[i] = v[i - 1] /\ i - 1 \in 1..(n - 1) /\ v[i - 1] \in V
  BY <1>6, <1>7
<1>10. u \in [1..n -> U]
  BY <1>5, <1>9
<1>11. InOrder(u)
  <2>1. ASSUME NEW i \in 1..n, NEW j \in 1..n, i < j
        PROVE  u[i] < u[j]
    <3>1. j \in 2..n /\ u[j] = v[j - 1] /\ u[j] \in V
      BY <1>6, <1>9, <2>1
    <3>2. CASE i = 1
      BY <1>8, <3>1, <3>2
    <3>3. CASE i # 1
      <4>1. i \in 2..n /\ u[i] = v[i - 1]
        BY <1>6, <1>9, <3>3
      <4>2. i - 1 \in 1..(n - 1) /\ j - 1 \in 1..(n - 1) /\ i - 1 < j - 1
        BY <1>6, <2>1, <3>1, <4>1
      <4>3. v[i - 1] < v[j - 1]
        BY <1>7, <4>2 DEF InOrder
      <4> QED
        BY <3>1, <4>1, <4>3
    <3> QED
      BY <3>2, <3>3
  <2> QED
    BY <2>1 DEF InOrder
<1>12. Cardinality(U) = n /\ n \in Nat
  BY <1>2, <1>3
<1> QED
  BY <1>3, <1>10, <1>11

LEMMA SortedOrders ==
  ASSUME NEW S \in SUBSET Nat, IsFiniteSet(S)
  PROVE  /\ Cardinality(S) \in Nat
         /\ Sorted(S) \in [1..Cardinality(S) -> S]
         /\ Len(Sorted(S)) = Cardinality(S)
         /\ InOrder(Sorted(S))
<1>1. Cardinality(S) \in Nat
  BY FS_CardinalityType
<1>2. \E q \in [1..Cardinality(S) -> S] : InOrder(q)
  BY SortedExists
<1>3. Sorted(S) \in [1..Cardinality(S) -> S] /\ InOrder(Sorted(S))
  BY <1>2 DEF Sorted, InOrder
<1>4. Sorted(S) \in Seq(S) /\ Len(Sorted(S)) = Cardinality(S)
  BY <1>1, <1>3
<1> QED
  BY <1>1, <1>3, <1>4

-----------------------------------------------------------------------------
(* What the buffers hold. *)

(* A dumb terminal is asked about only if there are any. *)
RequestTypes == {"auth", "sys", "conf", "proc", "ether", "ter", "ipterm", "end"}
                  \cup {t \in {"dumbterm"} : Dumb # {}}
Requests == [type : RequestTypes, no : Nat]

TtyTypes == {"dumbterm", "ipterm"}

UnitsOf(P) == {u \in [part : {"head", "body", "scr"}, pkt : P] :
                 u.part = "scr" => u.pkt.type \in TtyTypes}

(* Of the packets, that the numbers in them are numbers, and that only a   *)
(* dumb terminal answers as one.                                           *)
PacketOK(p) == /\ p.type = "ter" => p.ttys \in SUBSET Nat /\ IsFiniteSet(p.ttys)
               /\ p.type \in TtyTypes => p.tty \in Nat /\ p.screen_num \in Nat
               /\ p.type = "dumbterm" => Dumb # {}

SessionTyped(s, P) == /\ s.state \in SessionState
                      /\ s.tty_cnt \in Nat
                      /\ s.scr_num \in Nat /\ s.current_tty \in Nat
                      /\ s.recv_buffer \in Seq(UnitsOf(P))
                      /\ Len(s.recv_buffer) <= Capacity
                      /\ s.send_buffer \in Seq(Requests)

(* P[c]: the packets the client of c may send. *)
Typed(P) == /\ \A c \in Conn : \A p \in P[c] : PacketOK(p)
            /\ wire = [c \in Conn |-> wire[c]]
            /\ sock = [c \in Conn |-> sock[c]]
            /\ s2c = [c \in Conn |-> s2c[c]]
            /\ peer = [c \in Conn |-> peer[c]]
            /\ \A c \in Conn : /\ wire[c] \in Seq(UnitsOf(P[c]))
                               /\ sock[c] \in Seq(UnitsOf(P[c]))
                               /\ s2c[c] \in Seq(Requests)
                               /\ peer[c] \in PeerState
                               /\ SessionTyped(sess[c], P[c])

LEMMA DropProperties ==
  ASSUME NEW S, NEW s \in Seq(S), NEW k \in Nat
  PROVE  /\ Drop(s, k) \in Seq(S)
         /\ Len(Drop(s, k)) = IF k <= Len(s) THEN Len(s) - k ELSE 0
         /\ Len(Drop(s, k)) <= Len(s)
         /\ \A i \in 1..Len(Drop(s, k)) : k + i \in 1..Len(s) /\ Drop(s, k)[i] = s[k + i]
<1> DEFINE t == SubSeq(s, k + 1, Len(s))
<1>1. Len(s) \in Nat /\ k + 1 \in Int /\ \A i \in (k + 1)..Len(s) : s[i] \in S
  OBVIOUS
<1>2. /\ t \in Seq(S)
      /\ Len(t) = IF k + 1 <= Len(s) THEN Len(s) - (k + 1) + 1 ELSE 0
      /\ \A i \in 1..(Len(s) - (k + 1) + 1) : t[i] = s[(k + 1) + i - 1]
  BY <1>1, SubSeqProperties
<1> HIDE DEF t
<1>3. Len(t) = (IF k <= Len(s) THEN Len(s) - k ELSE 0) /\ Len(t) <= Len(s)
  BY <1>1, <1>2
<1>4. ASSUME NEW i \in 1..Len(t)
      PROVE  k + i \in 1..Len(s) /\ t[i] = s[k + i]
  BY <1>1, <1>2, <1>3
<1> QED
  BY <1>2, <1>3, <1>4 DEF t, Drop

LEMMA FrontProperties ==
  ASSUME NEW S, NEW s \in Seq(S), NEW k \in 0..Len(s)
  PROVE  /\ SubSeq(s, 1, k) \in Seq(S)
         /\ Len(SubSeq(s, 1, k)) = k
         /\ \A i \in 1..k : SubSeq(s, 1, k)[i] = s[i]
<1>1. Len(s) \in Nat /\ k \in Int /\ 1 \in Int /\ \A i \in 1..k : s[i] \in S
  OBVIOUS
<1>2. /\ SubSeq(s, 1, k) \in Seq(S)
      /\ Len(SubSeq(s, 1, k)) = IF 1 <= k THEN k - 1 + 1 ELSE 0
      /\ \A i \in 1..(k - 1 + 1) : SubSeq(s, 1, k)[i] = s[1 + i - 1]
  BY <1>1, SubSeqProperties
<1>3. Len(SubSeq(s, 1, k)) = k
  BY <1>1, <1>2
<1>4. ASSUME NEW i \in 1..k
      PROVE  SubSeq(s, 1, k)[i] = s[i]
  BY <1>1, <1>2
<1> QED
  BY <1>2, <1>3, <1>4

(* A sequence is its front and the rest. *)
LEMMA FrontAndRest ==
  ASSUME NEW S, NEW s \in Seq(S), NEW k \in 0..Len(s)
  PROVE  s = SubSeq(s, 1, k) \o Drop(s, k)
<1> DEFINE a == SubSeq(s, 1, k)
           b == Drop(s, k)
<1>1. a \in Seq(S) /\ Len(a) = k /\ \A i \in 1..k : a[i] = s[i]
  BY FrontProperties
<1>2. b \in Seq(S) /\ Len(b) = Len(s) - k /\ \A i \in 1..Len(b) : b[i] = s[k + i]
  BY DropProperties
<1> HIDE DEF a, b
<1>3. /\ a \o b \in Seq(S) /\ Len(a \o b) = Len(a) + Len(b)
      /\ \A i \in 1..(Len(a) + Len(b)) :
           (a \o b)[i] = IF i <= Len(a) THEN a[i] ELSE b[i - Len(a)]
  BY <1>1, <1>2, ConcatProperties
<1>4. Len(a \o b) = Len(s)
  BY <1>1, <1>2, <1>3
<1>5. ASSUME NEW i \in 1..Len(s)
      PROVE  s[i] = (a \o b)[i]
  <2>1. CASE i <= k
    BY <1>1, <1>2, <1>3, <2>1
  <2>2. CASE ~(i <= k)
    <3>1. i - k \in 1..Len(b) /\ k + (i - k) = i
      BY <1>2, <2>2
    <3> QED
      BY <1>1, <1>2, <1>3, <2>2, <3>1
  <2> QED
    BY <2>1, <2>2
<1> QED
  BY <1>3, <1>4, <1>5, SeqEqual DEF a, b

(* One request for each terminal. *)
LEMMA TtyRequestsTyped ==
  ASSUME NEW ttys \in SUBSET Nat, IsFiniteSet(ttys)
  PROVE  TtyRequests(ttys) \in Seq(Requests)
<1> DEFINE d == Sorted(ttys \cap Dumb)
           p == Sorted(ttys \ Dumb)
           dq == [i \in 1..Len(d) |-> RequestOf("dumbterm", d[i])]
           pq == [i \in 1..Len(p) |-> RequestOf("ipterm", p[i])]
<1>1. /\ ttys \cap Dumb \in SUBSET Nat /\ IsFiniteSet(ttys \cap Dumb)
      /\ ttys \ Dumb \in SUBSET Nat /\ IsFiniteSet(ttys \ Dumb)
  BY FS_Subset
<1>2. /\ Len(d) \in Nat /\ \A i \in 1..Len(d) : d[i] \in Nat
      /\ Len(p) \in Nat /\ \A i \in 1..Len(p) : p[i] \in Nat
  BY <1>1, SortedOrders
<1>3. Dumb = {} => Len(d) = 0
  <2>1. Dumb = {} => ttys \cap Dumb = {}
    OBVIOUS
  <2> QED
    BY <1>1, <2>1, SortedOrders, FS_EmptySet
<1> HIDE DEF d, p
<1>4. \A i \in 1..Len(d) : RequestOf("dumbterm", d[i]) \in Requests
  <2> SUFFICES ASSUME NEW i \in 1..Len(d) PROVE RequestOf("dumbterm", d[i]) \in Requests
    OBVIOUS
  <2>1. Dumb # {} /\ d[i] \in Nat
    BY <1>2, <1>3
  <2> QED
    BY <2>1 DEF RequestOf, Requests, RequestTypes
<1>5. \A i \in 1..Len(p) : RequestOf("ipterm", p[i]) \in Requests
  BY <1>2 DEF RequestOf, Requests, RequestTypes
<1>6. dq \in Seq(Requests) /\ pq \in Seq(Requests)
  BY <1>2, <1>4, <1>5
<1> HIDE DEF dq, pq
<1>7. dq \o pq \in Seq(Requests)
  BY <1>6
<1> QED
  BY <1>7 DEF TtyRequests, d, p, dq, pq

-----------------------------------------------------------------------------
(* The steps of the server keep Typed.                                     *)

LEMMA FirstTyped ==
  ASSUME NEW P, NEW buf \in Seq(UnitsOf(P)), buf # <<>>
  PROVE  First(buf) \in P /\ Head(buf).part \in {"head", "body", "scr"} /\ Head(buf) = buf[1]
<1>1. Head(buf) \in UnitsOf(P) /\ Head(buf) = buf[1]
  OBVIOUS
<1> QED
  BY <1>1 DEF First, UnitsOf

LEMMA LeadsTyped ==
  ASSUME NEW P, NEW s, SessionTyped(s, P), NEW buf \in Seq(UnitsOf(P)), Len(buf) <= Capacity,
         NEW k \in Nat, NEW st \in SessionState, NEW reqs \in Seq(Requests), NEW r,
         Leads(s, r, st, Drop(buf, k), reqs),
         r.tty_cnt \in Nat, r.scr_num \in Nat, r.current_tty \in Nat
  PROVE  SessionTyped(r, P)
<1>1. /\ Drop(buf, k) \in Seq(UnitsOf(P)) /\ Len(Drop(buf, k)) <= Len(buf)
      /\ Len(Drop(buf, k)) \in Nat /\ Len(buf) \in Nat
  BY DropProperties
<1>2. s.send_buffer \o reqs \in Seq(Requests)
  BY DEF SessionTyped
<1>3. Len(Drop(buf, k)) <= Capacity
  BY <1>1, CapacityAssumption
<1> QED
  BY <1>1, <1>2, <1>3 DEF SessionTyped, Leads

LEMMA SmallRequests ==
  /\ <<>> \in Seq(Requests)
  /\ <<Request("auth")>> \in Seq(Requests)
  /\ <<Request("sys")>> \in Seq(Requests)
  /\ <<Request("end")>> \in Seq(Requests)
  /\ \A q \in Seq([type : EarlyTypes, no : Nat]) : q \in Seq(Requests)
<1>1. Request("auth") \in Requests /\ Request("sys") \in Requests /\ Request("end") \in Requests
  BY DEF Request, Requests, RequestTypes
<1>2. [type : EarlyTypes, no : Nat] \subseteq Requests
  BY DEF Requests, RequestTypes, EarlyTypes
<1>3. \A q \in Seq([type : EarlyTypes, no : Nat]) : q \in Seq(Requests)
  BY <1>2, SeqMonotonic
<1>4. /\ <<>> \in Seq(Requests)
      /\ <<Request("auth")>> \in Seq(Requests)
      /\ <<Request("sys")>> \in Seq(Requests)
      /\ <<Request("end")>> \in Seq(Requests)
  BY <1>1
<1> QED
  BY <1>3, <1>4, Zenon

LEMMA HandledTyped ==
  ASSUME NEW P, \A p \in P : PacketOK(p), NEW s, SessionTyped(s, P),
         NEW buf \in Seq(UnitsOf(P)), buf # <<>>, Len(buf) <= Capacity,
         NEW r, Handled(s, buf, r)
  PROVE  SessionTyped(r, P)
<1>1. First(buf) \in P /\ PacketOK(First(buf))
  BY FirstTyped
<1>2. /\ s.tty_cnt \in Nat /\ s.tty_cnt + 1 \in Nat /\ s.scr_num \in Nat
      /\ s.current_tty \in Nat /\ Len(buf) \in Nat
  BY DEF SessionTyped
<1>3. /\ "WaitSysInfo" \in SessionState /\ "WaitIPTermInfo" \in SessionState
      /\ "WaitScrInfo" \in SessionState /\ "End" \in SessionState
      /\ EarlyNext \subseteq SessionState /\ 1 \in Nat /\ 2 \in Nat
  BY DEF SessionState, EarlyNext
<1>4. ASSUME NEW tty \in Nat, NEW n \in Nat, NEW k \in Nat, TookTerminal(s, r, tty, n, Drop(buf, k))
      PROVE  SessionTyped(r, P)
  <2>1. r.tty_cnt \in Nat /\ r.scr_num \in Nat /\ r.current_tty \in Nat
    BY <1>2, <1>4 DEF TookTerminal
  <2>2. \/ Leads(s, r, "WaitScrInfo", Drop(buf, k), <<>>)
        \/ Leads(s, r, "End", Drop(buf, k), <<Request("end")>>)
        \/ Leads(s, r, "WaitIPTermInfo", Drop(buf, k), <<>>)
    BY <1>4 DEF TookTerminal
  <2> QED
    BY <1>3, <2>1, <2>2, SmallRequests, LeadsTyped
<1>5. CASE HandledAuth(s, buf, r)
  <2>1. /\ Leads(s, r, "WaitSysInfo", Drop(buf, 2), <<Request("sys")>>)
        /\ r.tty_cnt \in Nat /\ r.scr_num \in Nat /\ r.current_tty \in Nat
    BY <1>2, <1>5 DEF HandledAuth, SameCount, SameScreens
  <2> QED
    BY <1>3, <2>1, SmallRequests, LeadsTyped
<1>6. CASE HandledPart(s, buf, r)
  <2>1. PICK st \in EarlyNext, reqs \in Seq([type : EarlyTypes, no : Nat]) :
          Leads(s, r, st, Drop(buf, 2), reqs)
    BY <1>6 DEF HandledPart
  <2>2. r.tty_cnt \in Nat /\ r.scr_num \in Nat /\ r.current_tty \in Nat
    BY <1>2, <1>6 DEF HandledPart, SameCount, SameScreens
  <2>3. st \in SessionState /\ reqs \in Seq(Requests)
    BY <1>3, SmallRequests
  <2> QED
    BY <1>3, <2>1, <2>2, <2>3, LeadsTyped
<1>7. CASE HandledTer(s, buf, r)
  <2>1. TtyRequests(First(buf).ttys) \in Seq(Requests)
    BY <1>1, <1>7, TtyRequestsTyped DEF HandledTer, PacketOK
  <2>2. /\ Leads(s, r, "WaitIPTermInfo", Drop(buf, 2), TtyRequests(First(buf).ttys))
        /\ r.tty_cnt \in Nat /\ r.scr_num \in Nat /\ r.current_tty \in Nat
    BY <1>2, <1>7 DEF HandledTer, SameCount, SameScreens
  <2> QED
    BY <1>3, <2>1, <2>2, LeadsTyped
<1>8. CASE HandledIPTerm(s, buf, r)
  <2>1. First(buf).screen_num \in Nat /\ First(buf).tty \in Nat
    BY <1>1, <1>8 DEF HandledIPTerm, PacketOK, TtyTypes
  <2> QED
    BY <1>3, <1>4, <1>8, <2>1 DEF HandledIPTerm
<1>9. CASE HandledDumb(s, buf, r)
  <2>2. PICK tty \in WildByte, n \in WildByte, gone \in 1..Len(buf) :
          TookTerminal(s, r, tty, n, Drop(buf, gone))
    BY <1>9 DEF HandledDumb
  <2>3. n \in Nat /\ gone \in Nat /\ tty \in Nat
    BY <1>2, <2>2, WildAssumption
  <2> QED
    BY <1>4, <2>2, <2>3
<1>10. CASE HandledEnd(s, buf, r)
  <2>1. /\ Leads(s, r, "End", Drop(buf, 1), <<>>)
        /\ r.tty_cnt \in Nat /\ r.scr_num \in Nat /\ r.current_tty \in Nat
    BY <1>2, <1>10 DEF HandledEnd, SameCount, SameScreens
  <2> QED
    BY <1>3, <2>1, SmallRequests, LeadsTyped
<1> QED
  BY <1>5, <1>6, <1>7, <1>8, <1>9, <1>10 DEF Handled

LEMMA TailTyped ==
  ASSUME NEW P, NEW s, SessionTyped(s, P), NEW r, Greeted(s, r) \/ TookScreens(s, r)
  PROVE  SessionTyped(r, P)
<1>1. /\ s.tty_cnt \in Nat /\ s.scr_num \in Nat /\ s.current_tty \in Nat
      /\ s.recv_buffer \in Seq(UnitsOf(P)) /\ Len(s.recv_buffer) <= Capacity
      /\ Len(s.recv_buffer) \in Nat
  BY DEF SessionTyped
<1>2. "WaitAuth" \in SessionState /\ "WaitIPTermInfo" \in SessionState /\ "End" \in SessionState
  BY DEF SessionState
<1>3. CASE Greeted(s, r)
  <2>1. s.send_buffer \o <<Request("auth")>> \in Seq(Requests)
    BY SmallRequests DEF SessionTyped
  <2> QED
    BY <1>1, <1>2, <1>3, <2>1 DEF Greeted, SessionTyped, Leads, SameCount, SameScreens
<1>4. CASE TookScreens(s, r)
  <2>1. r.tty_cnt \in Nat /\ r.scr_num \in Nat /\ r.current_tty \in Nat
    BY <1>1, <1>4 DEF TookScreens, SameCount
  <2>2. PICK gone \in Nat : \/ Leads(s, r, "End", Drop(s.recv_buffer, gone), <<Request("end")>>)
                            \/ Leads(s, r, "WaitIPTermInfo", Drop(s.recv_buffer, gone), <<>>)
    <3>1. PICK taken, gone :
            /\ \/ taken = s.scr_num /\ gone = s.scr_num /\ s.scr_num <= Len(s.recv_buffer)
               \/ taken = Len(s.recv_buffer) /\ gone = taken /\ ~(s.scr_num <= Len(s.recv_buffer))
               \/ GarbageHeader /\ gone \in (taken + 1)..Len(s.recv_buffer) /\ taken \in Nat
            /\ \/ Leads(s, r, "End", Drop(s.recv_buffer, gone), <<Request("end")>>)
               \/ Leads(s, r, "WaitIPTermInfo", Drop(s.recv_buffer, gone), <<>>)
      BY <1>4, Zenon DEF TookScreens
    <3>2. gone \in Nat
      BY <1>1, <3>1
    <3> QED
      BY <3>1, <3>2
  <2> QED
    BY <1>1, <1>2, <2>1, <2>2, SmallRequests, LeadsTyped
<1> QED
  BY <1>3, <1>4

(* What Read has received. *)
LEMMA ReceivedTyped ==
  ASSUME NEW P, Typed(P), NEW c \in Conn
  PROVE  /\ Taken(c) \in 0..Len(sock[c])
         /\ Received(c) \in Seq(UnitsOf(P[c])) /\ Len(Received(c)) <= Capacity
         /\ Len(Received(c)) = Len(sess[c].recv_buffer) + Taken(c)
         /\ ~RecvFails(c) => Received(c) # <<>>
<1> DEFINE U == UnitsOf(P[c])
           held == sess[c].recv_buffer
           here == SubSeq(sock[c], 1, Taken(c))
<1>1. /\ sock[c] \in Seq(U) /\ held \in Seq(U)
      /\ Len(sock[c]) \in Nat /\ Len(held) \in Nat /\ Len(held) <= Capacity
      /\ Capacity \in Nat \ {0}
  BY CapacityAssumption DEF Typed, SessionTyped
<1>2. Taken(c) \in 0..Len(sock[c]) /\ Len(held) + Taken(c) <= Capacity
  <2> DEFINE a == Len(sock[c])
             h == Len(held)
  <2>1. Taken(c) = IF a < Capacity - h THEN a ELSE Capacity - h
    BY Zenon DEF Taken
  <2>2. a \in Nat /\ h \in Nat /\ h <= Capacity /\ Capacity \in Nat
    BY <1>1
  <2> HIDE DEF a, h
  <2>3. Taken(c) \in 0..a /\ h + Taken(c) <= Capacity
    BY <2>1, <2>2
  <2> QED
    BY <2>3 DEF a, h
<1>3. here \in Seq(U) /\ Len(here) = Taken(c)
  BY <1>1, <1>2, FrontProperties
<1>4. held \o here \in Seq(U) /\ Len(held \o here) = Len(held) + Taken(c)
  <2> HIDE DEF here, held, U
  <2> QED
    BY <1>1, <1>3, ConcatProperties
<1> HIDE DEF here
<1>5. ASSUME ~RecvFails(c) PROVE Len(held) + Taken(c) # 0
  <2>1. CASE held # <<>>
    <3>1. Len(held) # 0
      BY <1>1, <2>1
    <3> QED
      BY <1>1, <1>2, <3>1
  <2>2. CASE held = <<>>
    <3>1. sock[c] # <<>>
      BY <1>5, <2>2 DEF RecvFails
    <3>2. Len(sock[c]) # 0 /\ Len(held) = 0
      BY <1>1, <2>2, <3>1
    <3>3. Taken(c) # 0
      BY <1>1, <3>2 DEF Taken
    <3> QED
      BY <1>1, <1>2, <3>3
  <2> QED
    BY <2>1, <2>2
<1>6. ~RecvFails(c) => held \o here # <<>>
  BY <1>4, <1>5
<1>7. Received(c) = held \o here
  BY DEF Received, here
<1> QED
  BY <1>1, <1>2, <1>4, <1>6, <1>7

(* sess[c] alone changes. *)
LEMMA UpdateTyped ==
  ASSUME NEW P, Typed(P), NEW c \in Conn, SessionTyped(sess'[c], P[c]),
         \A d \in Conn : d # c => sess'[d] = sess[d]
  PROVE  \A d \in Conn : SessionTyped(sess[d], P[d])'
BY DEF Typed, SessionTyped

LEMMA NewClientTyped == ASSUME NEW P PROVE SessionTyped(NewClient, P)
<1>1. /\ NewClient.state = "Acceptance" /\ NewClient.tty_cnt = 0 /\ NewClient.scr_num = 0
      /\ NewClient.current_tty = 0
      /\ NewClient.recv_buffer = <<>> /\ NewClient.send_buffer = <<>>
  BY DEF NewClient
<1>2. Len(<<>>) = 0 /\ 0 <= Capacity
  BY CapacityAssumption
<1> QED
  BY <1>1, <1>2 DEF SessionTyped, SessionState

(* What Read does to the sockets. *)
LEMMA ReceiveTyped ==
  ASSUME NEW P, Typed(P), NEW c \in Conn, Receive(c)
  PROVE  /\ sock' = [d \in Conn |-> sock'[d]]
         /\ \A d \in Conn : sock'[d] \in Seq(UnitsOf(P[d]))
         /\ sock'[c] = Drop(sock[c], Taken(c))
         /\ \A d \in Conn : d # c => sock'[d] = sock[d]
<1>1. sock' = [sock EXCEPT ![c] = Drop(sock[c], Taken(c))] /\ sock = [d \in Conn |-> sock[d]]
  BY DEF Receive, Typed
<1>2. sock' = [d \in Conn |-> IF d = c THEN Drop(sock[c], Taken(c)) ELSE sock[d]]
  BY <1>1, Zenon
<1>3. sock'[c] = Drop(sock[c], Taken(c)) /\ \A d \in Conn : d # c => sock'[d] = sock[d]
  BY <1>2, Zenon
<1>4. Taken(c) \in Nat
  <2>1. Taken(c) \in 0..Len(sock[c])
    BY ReceivedTyped
  <2>2. Len(sock[c]) \in Nat
    BY DEF Typed
  <2> QED
    BY <2>1, <2>2
<1>5. Drop(sock[c], Taken(c)) \in Seq(UnitsOf(P[c]))
  BY <1>4, DropProperties DEF Typed
<1>6. sock' = [d \in Conn |-> sock'[d]]
  BY <1>2, Zenon
<1>7. \A d \in Conn : sock'[d] \in Seq(UnitsOf(P[d]))
  BY <1>3, <1>5 DEF Typed
<1> QED
  BY <1>3, <1>6, <1>7, Zenon

LEMMA ServerTyped ==
  ASSUME NEW P, Typed(P), Shape, ServerNext
  PROVE  Typed(P)'
<1>1. ASSUME UNCHANGED <<wire, sock, s2c, peer, sess>>
      PROVE  Typed(P)'
  BY <1>1 DEF Typed, SessionTyped
<1>2. ASSUME NEW c \in Conn, Receive(c), \A d \in Conn : SessionTyped(sess[d], P[d])'
      PROVE  Typed(P)'
  <2>1. UNCHANGED <<wire, s2c, peer>>
    BY <1>2 DEF Receive
  <2>2. sock' = [d \in Conn |-> sock'[d]] /\ \A d \in Conn : sock'[d] \in Seq(UnitsOf(P[d]))
    BY <1>2, ReceiveTyped
  <2> QED
    BY <1>2, <2>1, <2>2 DEF Typed
<1>3. ASSUME NEW c \in Conn, Without(c)
      PROVE  \A d \in Conn : SessionTyped(sess[d], P[d])'
  <2>1. Update(c, NewClient)
    BY <1>3 DEF Without, Update
  <2>2. sess'[c] = NewClient /\ \A d \in Conn : d # c => sess'[d] = sess[d]
    BY <2>1, NewClientOK, Updated
  <2>3. SessionTyped(sess'[c], P[c])
    BY <2>2, NewClientTyped
  <2> QED
    BY <2>2, <2>3, UpdateTyped
<1>4. CASE Select
  BY <1>1, <1>4 DEF Select, netVars
<1>5. CASE Accept
  BY <1>1, <1>5 DEF Accept
<1>6. ASSUME NEW c \in Conn, ReadPacket(c)
      PROVE  Typed(P)'
  <2>1. Receive(c) /\ ~RecvFails(c) /\ Dispatch(c, Received(c))
    BY <1>6 DEF ReadPacket
  <2>2. PICK r : ClientOK(r) /\ Update(c, r) /\ Handled(sess[c], Received(c), r)
    BY <2>1, DispatchDoes DEF Shape
  <2>3. sess'[c] = r /\ \A d \in Conn : d # c => sess'[d] = sess[d]
    BY <2>2, Updated
  <2>4. SessionTyped(r, P[c])
    <3>1. /\ Received(c) \in Seq(UnitsOf(P[c])) /\ Len(Received(c)) <= Capacity
          /\ Received(c) # <<>>
      BY <2>1, ReceivedTyped
    <3>2. SessionTyped(sess[c], P[c]) /\ \A p \in P[c] : PacketOK(p)
      BY DEF Typed
    <3> QED
      BY <2>2, <3>1, <3>2, HandledTyped
  <2> QED
    BY <1>2, <2>1, <2>3, <2>4, UpdateTyped
<1>7. ASSUME NEW c \in Conn, ReadRefused(c) \/ ReadBroken(c)
      PROVE  Typed(P)'
  <2>1. Receive(c) /\ Without(c)
    BY <1>7 DEF ReadRefused, ReadBroken, RemoveCurrent
  <2> QED
    BY <1>2, <1>3, <2>1
<1>8. ASSUME NEW c \in Conn, OnWildPointer(c)
      PROVE  Typed(P)'
  <2>1. Receive(c) /\ sess' = sess
    BY <1>8 DEF OnWildPointer
  <2>2. \A d \in Conn : SessionTyped(sess[d], P[d])'
    BY <2>1 DEF Typed, SessionTyped
  <2> QED
    BY <1>2, <2>1, <2>2
<1>9. ASSUME NEW c \in Conn, Write(c)
      PROVE  Typed(P)'
  <2>1. UNCHANGED <<wire, sock>>
    BY <1>9 DEF Write
  <2>2. CASE UNCHANGED <<s2c, peer, sess>>
    BY <1>1, <2>1, <2>2
  <2>3. CASE ~UNCHANGED <<s2c, peer, sess>>
    <3> DEFINE q == sess[c].send_buffer
               r == [sess[c] EXCEPT !.send_buffer = Tail(q)]
    <3>1. /\ q # <<>> /\ sess' = [sess EXCEPT ![c] = r]
          /\ \/ s2c' = [s2c EXCEPT ![c] = Append(s2c[c], Head(q))] /\ UNCHANGED peer
             \/ peer' = [peer EXCEPT ![c] = "reset"] /\ UNCHANGED s2c
      BY <1>9, <2>3 DEF Write
    <3>2. q \in Seq(Requests) /\ Head(q) \in Requests /\ Tail(q) \in Seq(Requests)
      BY <3>1 DEF Typed, SessionTyped
    <3>3. IsClient(sess[c])
      BY DEF Shape, ClientOK
    <3>4. /\ IsClient(r) /\ r.state = sess[c].state /\ r.send_buffer = Tail(q)
          /\ r.recv_buffer = sess[c].recv_buffer
          /\ SameCount(sess[c], r) /\ SameScreens(sess[c], r)
      BY <3>3, SetSend, Zenon
    <3> HIDE DEF r
    <3>5. ClientOK(r)
      BY <3>4 DEF Shape, ClientOK, SameScreens
    <3>6. SessionTyped(r, P[c])
      BY <3>2, <3>4 DEF Typed, SessionTyped, SameCount, SameScreens
    <3>7. sess'[c] = r /\ \A d \in Conn : d # c => sess'[d] = sess[d]
      BY <3>1, <3>5, Updated DEF Update
    <3>8. \A d \in Conn : SessionTyped(sess[d], P[d])'
      BY <3>6, <3>7, UpdateTyped
    <3>9. s2c' = [d \in Conn |-> s2c'[d]] /\ \A d \in Conn : s2c'[d] \in Seq(Requests)
      <4>1. CASE s2c' = s2c
        BY <4>1 DEF Typed
      <4>2. CASE s2c' = [s2c EXCEPT ![c] = Append(s2c[c], Head(q))]
        <5>1. s2c' = [d \in Conn |-> IF d = c THEN Append(s2c[c], Head(q)) ELSE s2c[d]]
          BY <4>2, Zenon DEF Typed
        <5>2. Append(s2c[c], Head(q)) \in Seq(Requests)
          BY <3>2 DEF Typed
        <5>3. \A d \in Conn : s2c'[d] = (IF d = c THEN Append(s2c[c], Head(q)) ELSE s2c[d])
          BY <5>1, Zenon
        <5>4. s2c' = [d \in Conn |-> s2c'[d]]
          BY <5>1, Zenon
        <5>5. \A d \in Conn : s2c'[d] \in Seq(Requests)
          BY <5>2, <5>3, Zenon DEF Typed
        <5> QED
          BY <5>4, <5>5
      <4> QED
        BY <3>1, <4>1, <4>2
    <3>10. peer' = [d \in Conn |-> peer'[d]] /\ \A d \in Conn : peer'[d] \in PeerState
      <4>1. CASE peer' = peer
        BY <4>1 DEF Typed
      <4>2. CASE peer' = [peer EXCEPT ![c] = "reset"]
        <5>1. peer' = [d \in Conn |-> IF d = c THEN "reset" ELSE peer[d]]
          BY <4>2, Zenon DEF Typed
        <5>2. \A d \in Conn : peer'[d] \in PeerState
          BY <5>1 DEF Typed, PeerState
        <5>3. peer' = [d \in Conn |-> peer'[d]]
          BY <5>1, Zenon
        <5> QED
          BY <5>2, <5>3
      <4> QED
        BY <3>1, <4>1, <4>2
    <3> QED
      BY <2>1, <3>8, <3>9, <3>10 DEF Typed
  <2> QED
    BY <2>2, <2>3
<1>10. ASSUME NEW c \in Conn, WriteFails(c)
       PROVE  Typed(P)'
  <2>1. UNCHANGED <<wire, sock, s2c, peer>> /\ Without(c)
    BY <1>10 DEF WriteFails, RemoveCurrent, netVars
  <2> QED
    BY <1>3, <2>1 DEF Typed
<1>11. ASSUME NEW c \in Conn, TailStep(c)
       PROVE  Typed(P)'
  <2>1. UNCHANGED <<wire, sock, s2c, peer>> /\ (OnAcceptance(c) \/ (sess[c].is_scr /\ OnScreens(c)))
    BY <1>11 DEF TailStep, netVars
  <2>2. PICK r : /\ ClientOK(r) /\ Update(c, r)
                 /\ Greeted(sess[c], r) \/ TookScreens(sess[c], r)
    BY <2>1, TailDoes DEF Shape
  <2>3. sess'[c] = r /\ \A d \in Conn : d # c => sess'[d] = sess[d]
    BY <2>2, Updated
  <2>4. SessionTyped(r, P[c])
    BY <2>2, TailTyped DEF Typed
  <2>5. \A d \in Conn : SessionTyped(sess[d], P[d])'
    BY <2>3, <2>4, UpdateTyped
  <2> QED
    BY <2>1, <2>5 DEF Typed
<1>12. ASSUME NEW c \in Conn, TailThrows(c)
       PROVE  Typed(P)'
  BY <1>1, <1>12 DEF TailThrows, netVars
<1> QED
  BY <1>4, <1>5, <1>6, <1>7, <1>8, <1>9, <1>10, <1>11, <1>12 DEF ServerNext

-----------------------------------------------------------------------------
(* The lists.                                                              *)

(* A list without repetitions, of the members of S. *)
Listing(s, S) == s \in Seq(S) /\ IsInjective(s)

LEMMA ListedIn ==
  ASSUME NEW S, NEW s \in Seq(S)
  PROVE  /\ ToSet(s) \subseteq S
         /\ \A x : x \in ToSet(s) <=> \E i \in 1..Len(s) : s[i] = x
BY DEF ToSet

(* erase() takes out the one element. *)
LEMMA ListingRemove ==
  ASSUME NEW S, NEW s, Listing(s, S), NEW k \in 1..Len(s)
  PROVE  /\ Listing(RemoveAt(s, k), S)
         /\ ToSet(RemoveAt(s, k)) = ToSet(s) \ {s[k]}
<1> DEFINE a == SubSeq(s, 1, k - 1)
           b == SubSeq(s, k + 1, Len(s))
           t == a \o b
<1>1. s \in Seq(S) /\ Len(s) \in Nat /\ k \in Nat /\ k - 1 \in 0..Len(s)
  BY DEF Listing
<1>2. a \in Seq(S) /\ Len(a) = k - 1 /\ \A i \in 1..(k - 1) : a[i] = s[i]
  BY <1>1, FrontProperties
<1>3. b \in Seq(S) /\ Len(b) = Len(s) - k /\ \A i \in 1..Len(b) : b[i] = s[k + i]
  <2>1. b = Drop(s, k)
    BY DEF Drop
  <2> QED
    BY <1>1, <2>1, DropProperties
<1> HIDE DEF a, b
<1>4. /\ t \in Seq(S) /\ Len(t) = Len(a) + Len(b)
      /\ \A i \in 1..(Len(a) + Len(b)) : t[i] = IF i <= Len(a) THEN a[i] ELSE b[i - Len(a)]
  BY <1>2, <1>3, ConcatProperties
<1> HIDE DEF t
<1>5. Len(t) = Len(s) - 1
  BY <1>1, <1>2, <1>3, <1>4
<1>6. \A i \in 1..Len(t) : t[i] = IF i < k THEN s[i] ELSE s[i + 1]
  <2> SUFFICES ASSUME NEW i \in 1..Len(t) PROVE t[i] = IF i < k THEN s[i] ELSE s[i + 1]
    OBVIOUS
  <2>1. CASE i < k
    BY <1>1, <1>2, <1>3, <1>4, <2>1
  <2>2. CASE ~(i < k)
    <3>1. i - (k - 1) \in 1..Len(b) /\ k + (i - (k - 1)) = i + 1
      BY <1>1, <1>3, <1>5, <2>2
    <3>2. t[i] = b[i - (k - 1)]
      BY <1>1, <1>2, <1>3, <1>4, <1>5, <2>2
    <3> QED
      BY <1>3, <2>2, <3>1, <3>2
  <2> QED
    BY <2>1, <2>2
<1>7. \A i, j \in 1..Len(s) : s[i] = s[j] => i = j
  BY <1>1 DEF Listing, IsInjective
<1>8. DOMAIN t = 1..Len(t) /\ DOMAIN s = 1..Len(s)
  BY <1>1, <1>4
<1>9. IsInjective(t)
  <2>1. ASSUME NEW i \in 1..Len(t), NEW j \in 1..Len(t), t[i] = t[j]
        PROVE  i = j
    <3> DEFINE x == IF i < k THEN i ELSE i + 1
               y == IF j < k THEN j ELSE j + 1
    <3>1. x \in 1..Len(s) /\ y \in 1..Len(s) /\ t[i] = s[x] /\ t[j] = s[y]
      BY <1>1, <1>5, <1>6
    <3>2. x = y
      BY <1>7, <2>1, <3>1
    <3> QED
      BY <1>1, <1>5, <3>2
  <2> QED
    BY <1>8, <2>1 DEF IsInjective
<1>10. ASSUME NEW x
       PROVE  (\E i \in 1..Len(t) : t[i] = x) <=> ((\E i \in 1..Len(s) : s[i] = x) /\ x # s[k])
  <2>1. ASSUME NEW i \in 1..Len(t), t[i] = x
        PROVE  (\E j \in 1..Len(s) : s[j] = x) /\ x # s[k]
    <3> DEFINE j == IF i < k THEN i ELSE i + 1
    <3>1. j \in 1..Len(s) /\ s[j] = x /\ j # k
      BY <1>1, <1>5, <1>6, <2>1
    <3> HIDE DEF j
    <3>2. x # s[k]
      BY <1>7, <3>1
    <3> QED
      BY <3>1, <3>2
  <2>2. ASSUME NEW i \in 1..Len(s), s[i] = x, x # s[k]
        PROVE  \E j \in 1..Len(t) : t[j] = x
    <3> DEFINE j == IF i < k THEN i ELSE i - 1
    <3>1. i # k
      BY <2>2
    <3>2. j \in 1..Len(t) /\ t[j] = s[i]
      BY <1>1, <1>5, <1>6, <3>1
    <3> HIDE DEF j
    <3> QED
      BY <2>2, <3>2
  <2> QED
    BY <2>1, <2>2
<1>11. ToSet(t) = ToSet(s) \ {s[k]}
  BY <1>8, <1>10 DEF ToSet
<1>12. RemoveAt(s, k) = t
  BY DEF RemoveAt, t, a, b
<1> QED
  BY <1>4, <1>9, <1>11, <1>12 DEF Listing

(* push_back of what the list does not hold. *)
LEMMA ListingAppend ==
  ASSUME NEW S, NEW s, Listing(s, S), NEW x \in S, x \notin ToSet(s)
  PROVE  /\ Listing(Append(s, x), S) /\ ToSet(Append(s, x)) = ToSet(s) \cup {x}
         /\ Append(s, x) = s \o <<x>>
<1> DEFINE t == Append(s, x)
<1>1. s \in Seq(S) /\ Len(s) \in Nat
  BY DEF Listing
<1>2. /\ t \in Seq(S) /\ Len(t) = Len(s) + 1
      /\ \A i \in 1..Len(s) : t[i] = s[i]
      /\ t[Len(s) + 1] = x
  BY <1>1, AppendProperties
<1> HIDE DEF t
<1>3. \A i \in 1..Len(s) : s[i] # x
  BY <1>1 DEF ToSet
<1>4. \A i, j \in 1..Len(s) : s[i] = s[j] => i = j
  BY <1>1 DEF Listing, IsInjective
<1>5. ASSUME NEW i \in 1..Len(t), NEW j \in 1..Len(t), t[i] = t[j]
      PROVE  i = j
  <2>1. (i \in 1..Len(s) \/ i = Len(s) + 1) /\ (j \in 1..Len(s) \/ j = Len(s) + 1)
    BY <1>1, <1>2
  <2> QED
    BY <1>2, <1>3, <1>4, <1>5, <2>1
<1>6. DOMAIN t = 1..Len(t) /\ DOMAIN s = 1..Len(s) /\ Len(s) + 1 \in 1..Len(t)
      /\ 1..Len(t) = (1..Len(s)) \cup {Len(s) + 1}
  BY <1>1, <1>2
<1>7. IsInjective(t)
  BY <1>5, <1>6 DEF IsInjective
<1>8. ToSet(t) = ToSet(s) \cup {x}
  BY <1>2, <1>6 DEF ToSet
<1>9. t = s \o <<x>>
  BY <1>1, AppendIsConcat DEF t
<1> QED
  BY <1>2, <1>7, <1>8, <1>9 DEF Listing, t

LEMMA ListingTail ==
  ASSUME NEW S, NEW s, Listing(s, S), s # <<>>
  PROVE  /\ Listing(Tail(s), S) /\ Head(s) \in S /\ Head(s) \in ToSet(s)
         /\ ToSet(Tail(s)) = ToSet(s) \ {Head(s)}
<1>1. s \in Seq(S) /\ Len(s) \in Nat /\ 1 \in 1..Len(s) /\ Head(s) = s[1]
  <2>1. s \in Seq(S) /\ s # <<>>
    BY DEF Listing
  <2> QED
    BY <2>1
<1>2. Tail(s) = RemoveAt(s, 1)
  <2>1. SubSeq(s, 1, 1 - 1) = <<>>
    BY SubSeqEmpty
  <2>2. Tail(s) = SubSeq(s, 2, Len(s)) /\ Tail(s) \in Seq(S)
    BY <1>1, TailIsSubSeq, HeadTailProperties
  <2>3. <<>> \o Tail(s) = Tail(s)
    BY <2>2, ConcatEmptySeq
  <2> QED
    BY <2>1, <2>2, <2>3 DEF RemoveAt
<1>3. s[1] \in ToSet(s) /\ s[1] \in S
  BY <1>1 DEF ToSet
<1>4. Listing(RemoveAt(s, 1), S) /\ ToSet(RemoveAt(s, 1)) = ToSet(s) \ {s[1]}
  BY <1>1, ListingRemove, Zenon
<1> QED
  BY <1>1, <1>2, <1>3, <1>4, Zenon

(* The lists of the server name only sessions it has, and a connection is  *)
(* waiting to be accepted or accepted, once.                               *)
Held == ToSet(session_set)

Lists == /\ Listing(session_set, Conn) /\ Listing(backlog, Conn)
         /\ ToSet(backlog) \cap Held = {}
         /\ todo \subseteq Held /\ ready \subseteq Held
         /\ \A c \in Conn : c \notin Held => sess[c] = NewClient
         /\ phase \in {"visit", "tail"}
         /\ phase = "visit" /\ incoming => backlog # <<>>

(* The connections a server can still serve. *)
Serving == Held \cup ToSet(backlog)

(* A connection that is not used yet is on no list. *)
Quiet == \A c \in Conn : peer[c] = "idle" => c \notin Serving

LEMMA PositionOf ==
  ASSUME Lists, NEW c \in Held
  PROVE  Position(c) \in 1..Len(session_set) /\ session_set[Position(c)] = c
<1>1. \E i \in DOMAIN session_set : session_set[i] = c
  BY DEF Held, ToSet
<1>2. Position(c) \in DOMAIN session_set /\ session_set[Position(c)] = c
  BY <1>1, Zenon DEF Position
<1>3. DOMAIN session_set = 1..Len(session_set)
  BY DEF Lists, Listing
<1> QED
  BY <1>2, <1>3

LEMMA WithoutLists ==
  ASSUME Lists, Shape, NEW c \in Held, Without(c)
  PROVE  /\ Listing(session_set', Conn) /\ Held' = Held \ {c}
         /\ sess'[c] = NewClient /\ \A d \in Conn : d # c => sess'[d] = sess[d]
<1>1. c \in Conn
  BY ListedIn DEF Lists, Listing, Held
<1>2. Listing(session_set', Conn) /\ Held' = Held \ {c}
  BY PositionOf, ListingRemove DEF Without, Lists, Held
<1>3. Update(c, NewClient)
  BY DEF Without, Update
<1>4. sess'[c] = NewClient /\ \A d \in Conn : d # c => sess'[d] = sess[d]
  BY <1>1, <1>3, NewClientOK, Updated
<1> QED
  BY <1>2, <1>4

(* A step that gives one session it has new contents. *)
LEMMA SessionLists ==
  ASSUME Lists, UNCHANGED <<session_set, backlog, phase, incoming>>,
         todo' \subseteq todo, ready' \subseteq ready,
         NEW c \in Held, \A d \in Conn : d # c => sess'[d] = sess[d]
  PROVE  Lists' /\ UNCHANGED <<Held, Serving>>
BY DEF Lists, Held, Serving, Listing

LEMMA RemovalLists ==
  ASSUME Lists, Shape, NEW c \in Held, Without(c), UNCHANGED <<backlog, phase, incoming>>,
         todo' \subseteq todo \ {c}, ready' \subseteq ready \ {c}
  PROVE  Lists' /\ Serving' = Serving \ {c} /\ Held' = Held \ {c}
<1>1. /\ Listing(session_set', Conn) /\ Held' = Held \ {c}
      /\ sess'[c] = NewClient /\ \A d \in Conn : d # c => sess'[d] = sess[d]
  BY WithoutLists
<1>2. ToSet(backlog)' = ToSet(backlog) /\ ToSet(backlog) \cap Held = {}
  BY DEF Lists
<1>3. Serving' = Serving \ {c}
  BY <1>1, <1>2 DEF Serving
<1>4. Listing(backlog, Conn)'
  BY DEF Lists
<1>5. \A d \in Conn : d \notin Held' => sess'[d] = NewClient
  BY <1>1 DEF Lists
<1>6. todo' \subseteq Held' /\ ready' \subseteq Held'
  BY <1>1 DEF Lists
<1> QED
  BY <1>1, <1>2, <1>3, <1>4, <1>5, <1>6 DEF Lists

(* No connection comes back.  Each one the server deals with it has. *)
LEMMA ServerLists ==
  ASSUME Lists, Shape, ServerNext
  PROVE  Lists' /\ Serving' \subseteq Serving
<1>1. todo \subseteq Held /\ Held \subseteq Conn
  BY ListedIn DEF Lists, Listing, Held
<1>2. CASE Select
  <2>1. /\ UNCHANGED <<session_set, backlog, sess>>
        /\ phase' = "visit" /\ incoming' = (backlog # <<>>)
        /\ \A x \in todo' \cup ready' : x \in Held
    BY <1>2 DEF Select, netVars, Held
  <2> QED
    BY <2>1 DEF Lists, Held, Serving, Listing
<1>3. CASE Accept
  <2>1. /\ UNCHANGED <<sess, ready>> /\ phase' = "tail" /\ phase = "visit"
        /\ todo' \subseteq Held'
    BY <1>3 DEF Accept, Running, Held
  <2>2. CASE incoming
    <3> DEFINE x == Head(backlog)
    <3>1. session_set' = session_set \o <<x>> /\ backlog' = Tail(backlog)
      BY <1>3, <2>2 DEF Accept
    <3>2. /\ Listing(backlog', Conn) /\ x \in Conn /\ x \in ToSet(backlog)
          /\ ToSet(backlog') = ToSet(backlog) \ {x}
      BY <2>1, <2>2, <3>1, ListingTail DEF Lists
    <3>3. x \notin ToSet(session_set)
      BY <3>2 DEF Lists, Held
    <3>4. Listing(session_set', Conn) /\ ToSet(session_set') = ToSet(session_set) \cup {x}
      <4>1. /\ Listing(Append(session_set, x), Conn)
            /\ ToSet(Append(session_set, x)) = ToSet(session_set) \cup {x}
            /\ Append(session_set, x) = session_set \o <<x>>
        BY <3>2, <3>3, ListingAppend DEF Lists
      <4> QED
        BY <3>1, <4>1
    <3> HIDE DEF x
    <3>5. Held' = Held \cup {x}
      BY <3>4 DEF Held
    <3>6. Serving' \subseteq Serving
      BY <3>2, <3>5 DEF Serving
    <3>7. ToSet(backlog') \cap Held' = {}
      BY <3>2, <3>5 DEF Lists
    <3>8. \A c \in Conn : c \notin Held' => sess'[c] = NewClient
      BY <2>1, <3>5 DEF Lists
    <3> QED
      BY <2>1, <3>2, <3>4, <3>5, <3>6, <3>7, <3>8 DEF Lists
  <2>3. CASE ~incoming
    <3>1. session_set' = session_set \o <<>> /\ backlog' = backlog
      BY <1>3, <2>3 DEF Accept
    <3>2. session_set' = session_set
      BY <3>1, ConcatEmptySeq DEF Lists, Listing
    <3> QED
      BY <2>1, <3>1, <3>2 DEF Lists, Held, Serving, Listing
  <2> QED
    BY <2>2, <2>3
<1>4. ASSUME NEW c \in Conn, ReadPacket(c)
      PROVE  Lists' /\ Serving' \subseteq Serving
  <2>1. /\ c \in ready /\ ready' = ready \ {c} /\ UNCHANGED <<session_set, backlog, phase, incoming, todo>>
        /\ Dispatch(c, Received(c))
    BY <1>4 DEF ReadPacket, Receive
  <2>2. PICK r : ClientOK(r) /\ Update(c, r)
    BY <2>1, DispatchDoes DEF Shape
  <2>3. \A d \in Conn : d # c => sess'[d] = sess[d]
    BY <2>2, Updated
  <2> QED
    BY <2>1, <2>3, SessionLists DEF Lists
<1>5. ASSUME NEW c \in Conn, ReadRefused(c) \/ ReadBroken(c)
      PROVE  Lists' /\ Serving' \subseteq Serving
  <2>1. /\ Without(c) /\ c \in ready /\ UNCHANGED <<backlog, phase, incoming>>
        /\ todo' \subseteq todo \ {c} /\ ready' = ready \ {c}
    BY <1>5 DEF ReadRefused, ReadBroken, RemoveCurrent, Receive
  <2> QED
    BY <2>1, RemovalLists DEF Lists
<1>6. ASSUME NEW c \in Conn, OnWildPointer(c)
      PROVE  Lists' /\ Serving' \subseteq Serving
  <2>1. /\ c \in ready /\ ready' = ready \ {c} /\ sess' = sess
        /\ UNCHANGED <<session_set, backlog, phase, incoming, todo>>
    BY <1>6 DEF OnWildPointer, Receive
  <2> QED
    BY <2>1, SessionLists DEF Lists
<1>7. ASSUME NEW c \in Conn, Write(c)
      PROVE  Lists' /\ Serving' \subseteq Serving
  <2>1. /\ c \in todo /\ todo' = todo \ {c}
        /\ UNCHANGED <<session_set, backlog, phase, incoming, ready>>
    BY <1>7 DEF Write, Visiting, IsNext
  <2>2. \A d \in Conn : d # c => sess'[d] = sess[d]
    BY <1>7, Zenon DEF Write, Shape
  <2> QED
    BY <1>1, <2>1, <2>2, SessionLists
<1>8. ASSUME NEW c \in Conn, WriteFails(c)
      PROVE  Lists' /\ Serving' \subseteq Serving
  <2>1. /\ Without(c) /\ c \in todo /\ UNCHANGED <<backlog, phase, incoming>>
        /\ todo' = todo \ {c} /\ ready' = ready /\ c \notin ready
    BY <1>8 DEF WriteFails, RemoveCurrent, Visiting, IsNext, netVars
  <2> QED
    BY <1>1, <2>1, RemovalLists
<1>9. ASSUME NEW c \in Conn, TailStep(c)
      PROVE  Lists' /\ Serving' \subseteq Serving
  <2>1. /\ c \in todo /\ todo' = todo \ {c}
        /\ UNCHANGED <<session_set, backlog, phase, incoming, ready>>
        /\ OnAcceptance(c) \/ (sess[c].is_scr /\ OnScreens(c))
    BY <1>9 DEF TailStep, IsNext, netVars
  <2>2. PICK r : ClientOK(r) /\ Update(c, r)
    BY <2>1, TailDoes DEF Shape
  <2>3. \A d \in Conn : d # c => sess'[d] = sess[d]
    BY <2>2, Updated
  <2> QED
    BY <1>1, <2>1, <2>3, SessionLists
<1>10. ASSUME NEW c \in Conn, TailThrows(c)
      PROVE  Lists' /\ Serving' \subseteq Serving
  <2>1. UNCHANGED <<session_set, backlog, phase, incoming, ready, todo, sess>>
    BY <1>10 DEF TailThrows, netVars
  <2> QED
    BY <2>1 DEF Lists, Held, Serving, Listing
<1> QED
  BY <1>2, <1>3, <1>4, <1>5, <1>6, <1>7, <1>8, <1>9, <1>10 DEF ServerNext

-----------------------------------------------------------------------------
(* The tables.  D[c] are the devices for which a session of c can          *)
(* authenticate: every session beyond that is one of them, every row is.   *)

Ids(D) == UNION {D[c] : c \in Conn}

IsBaseRow(r) == r = [f \in {"dev", "parts", "tty_configed", "tty_connected"} |-> r[f]]

TtyRows(I) == [dev : I, tty : Nat, scrnum : Nat]
ScrRows(I) == [dev : I, tty : Nat, scrno : 0..(ScrMod - 1), of : Nat]

BaseTyped(I) == base = {} \/ \E r : base = {r} /\ IsBaseRow(r) /\ r.dev \in I

RowsTyped(I) == /\ BaseTyped(I)
                /\ ttyinfo \in Seq(TtyRows(I))
                /\ scrinfo \in Seq(ScrRows(I))
                /\ global_number \in 0..(ScrMod - 1)

Identified(D) == \A c \in Conn :
  sess[c].state \notin {"Acceptance", "WaitAuth"} => sess[c].devid \in D[c]

(* Only the device of D[c] gets past decrypt_auth. *)
Admits(P, D) == \A c \in Conn : \A p \in P[c] :
  p.type = "auth" /\ Authentic(p) => p.dev \in D[c]

(* An update of the columns of one row leaves the row and its key. *)
LEMMA BaseUpdate ==
  ASSUME NEW I, BaseTyped(I), NEW dev,
         \/ \E part : OnRecvPart(dev, part)
         \/ \E n : OnRecvTermResponse(dev, n) \/ UpdateTTYConnected(dev, n)
  PROVE  BaseTyped(I)' /\ UNCHANGED <<ttyinfo, scrinfo, global_number>>
<1> DEFINE F == {"dev", "parts", "tty_configed", "tty_connected"}
<1>1. UNCHANGED <<ttyinfo, scrinfo, global_number>>
  BY DEF OnRecvPart, OnRecvTermResponse, UpdateTTYConnected
<1>2. CASE base = {}
  <2>1. base' = {}
    BY <1>2 DEF OnRecvPart, OnRecvTermResponse, UpdateTTYConnected
  <2> QED
    BY <1>1, <2>1 DEF BaseTyped
<1>3. CASE \E r : base = {r} /\ IsBaseRow(r) /\ r.dev \in I
  <2>1. PICK r : base = {r} /\ IsBaseRow(r) /\ r.dev \in I
    BY <1>3
  <2>2. ASSUME NEW part
        PROVE  IsBaseRow([r EXCEPT !.parts = part]) /\ [r EXCEPT !.parts = part].dev = r.dev
    BY <2>1, Zenon DEF IsBaseRow
  <2>3. ASSUME NEW n
        PROVE  IsBaseRow([r EXCEPT !.tty_configed = n]) /\ [r EXCEPT !.tty_configed = n].dev = r.dev
    BY <2>1, Zenon DEF IsBaseRow
  <2>4. ASSUME NEW n
        PROVE  IsBaseRow([r EXCEPT !.tty_connected = n]) /\ [r EXCEPT !.tty_connected = n].dev = r.dev
    BY <2>1, Zenon DEF IsBaseRow
  <2>5. \E q : base' = {q} /\ IsBaseRow(q) /\ q.dev = r.dev
    <3>1. CASE \E part : OnRecvPart(dev, part)
      <4>1. PICK part : OnRecvPart(dev, part)
        BY <3>1
      <4>2. base' = {IF r.dev = dev THEN [r EXCEPT !.parts = r.parts \cup {part}] ELSE r}
        BY <2>1, <4>1 DEF OnRecvPart
      <4> QED
        BY <2>1, <2>2, <4>2, Zenon
    <3>2. CASE \E n : OnRecvTermResponse(dev, n)
      <4>1. PICK n : OnRecvTermResponse(dev, n)
        BY <3>2
      <4>2. base' = {IF r.dev = dev THEN [r EXCEPT !.tty_configed = n] ELSE r}
        BY <2>1, <4>1 DEF OnRecvTermResponse
      <4> QED
        BY <2>1, <2>3, <4>2, Zenon
    <3>3. CASE \E n : UpdateTTYConnected(dev, n)
      <4>1. PICK n : UpdateTTYConnected(dev, n)
        BY <3>3
      <4>2. base' = {IF r.dev = dev THEN [r EXCEPT !.tty_connected = n] ELSE r}
        BY <2>1, <4>1 DEF UpdateTTYConnected
      <4> QED
        BY <2>1, <2>4, <4>2, Zenon
    <3> QED
      BY <3>1, <3>2, <3>3
  <2>6. PICK q : base' = {q} /\ IsBaseRow(q) /\ q.dev = r.dev
    BY <2>5
  <2>7. q.dev \in I
    BY <2>1, <2>6
  <2> QED
    BY <1>1, <2>6, <2>7 DEF BaseTyped
<1> QED
  BY <1>2, <1>3 DEF BaseTyped

(* The inserts of the screens of a terminal. *)
LEMMA ScreenRows ==
  ASSUME NEW I, RowsTyped(I), NEW dev \in I, NEW tty \in Nat, NEW n \in Nat, NEW whose,
         whose \in [1..n -> Nat], OnRecvScreenInfoPackets(dev, tty, whose)
  PROVE  RowsTyped(I)'
<1> DEFINE Row(i) == [dev |-> dev, tty |-> tty, scrno |-> (global_number + i - 1) % ScrMod,
                      of |-> whose[i]]
           rows == [i \in 1..n |-> Row(i)]
<1>1. /\ Len(whose) = n
      /\ ScrMod \in Nat \ {0} /\ global_number \in Nat
  BY ScrModAssumption DEF RowsTyped
<1>2. scrinfo' = scrinfo \o rows /\ global_number' = (global_number + n) % ScrMod
      /\ UNCHANGED <<base, ttyinfo>>
  BY <1>1 DEF OnRecvScreenInfoPackets
<1>3. ASSUME NEW k \in Nat PROVE k % ScrMod \in 0..(ScrMod - 1)
  BY <1>1
<1>4. ASSUME NEW i \in 1..n PROVE Row(i) \in ScrRows(I)
  <2>1. global_number + i - 1 \in Nat
    BY <1>1
  <2>2. (global_number + i - 1) % ScrMod \in 0..(ScrMod - 1) /\ whose[i] \in Nat
    BY <1>3, <2>1
  <2> QED
    BY <2>2 DEF ScrRows
<1> HIDE DEF Row
<1>5. rows \in Seq(ScrRows(I))
  BY <1>4
<1> HIDE DEF rows
<1>6. scrinfo' \in Seq(ScrRows(I))
  BY <1>2, <1>5, ConcatProperties DEF RowsTyped
<1>7. global_number' \in 0..(ScrMod - 1)
  <2>1. global_number + n \in Nat
    BY <1>1
  <2> QED
    BY <1>2, <1>3, <2>1
<1>8. BaseTyped(I)' /\ ttyinfo' \in Seq(TtyRows(I))
  BY <1>2 DEF RowsTyped, BaseTyped
<1> QED
  BY <1>6, <1>7, <1>8 DEF RowsTyped

(* A handler writes rows of its own session only. *)
LEMMA HandledRows ==
  ASSUME NEW I, RowsTyped(I), NEW P, \A p \in P : PacketOK(p), NEW s, SessionTyped(s, P),
         NEW buf \in Seq(UnitsOf(P)), buf # <<>>, NEW r, Handled(s, buf, r),
         NEW mine \in SUBSET I,
         s.state \notin {"Acceptance", "WaitAuth"} => s.devid \in mine,
         \A p \in P : p.type = "auth" /\ Authentic(p) => p.dev \in mine
  PROVE  RowsTyped(I)' /\ r.devid \in mine
<1>1. First(buf) \in P /\ PacketOK(First(buf))
  BY FirstTyped
<1>2. CASE HandledAuth(s, buf, r)
  <2> DEFINE d == First(buf).dev
  <2>1. d \in mine /\ r.devid = d
    BY <1>1, <1>2 DEF HandledAuth
  <2>2. base' = {BaseRow(d)} /\ ttyinfo' = <<>> /\ scrinfo' = <<>> /\ UNCHANGED global_number
    BY <1>2 DEF HandledAuth, OnRecvAuthResponse
  <2>3. IsBaseRow(BaseRow(d)) /\ BaseRow(d).dev = d
    BY Zenon DEF BaseRow, IsBaseRow
  <2> QED
    BY <2>1, <2>2, <2>3 DEF RowsTyped, BaseTyped
<1>3. CASE HandledPart(s, buf, r)
  <2>1. s.devid \in mine /\ r.devid = s.devid /\ \E part : OnRecvPart(s.devid, part)
    BY <1>3 DEF HandledPart, EarlyStates, SameDevice
  <2> QED
    BY <2>1, BaseUpdate DEF RowsTyped
<1>4. CASE HandledTer(s, buf, r)
  <2>1. s.devid \in mine /\ r.devid = s.devid /\ \E n : OnRecvTermResponse(s.devid, n)
    BY <1>4 DEF HandledTer, SameDevice
  <2> QED
    BY <2>1, BaseUpdate DEF RowsTyped
<1>5. ASSUME NEW tty \in Nat, NEW n \in Nat, NEW rest, s.state = "WaitIPTermInfo",
             TookTerminal(s, r, tty, n, rest)
      PROVE  RowsTyped(I)' /\ r.devid \in mine
  <2> DEFINE row == [dev |-> s.devid, tty |-> tty, scrnum |-> n]
  <2>1. s.devid \in mine /\ r.devid = s.devid
    BY <1>5 DEF TookTerminal, SameDevice
  <2>2. ttyinfo' = Append(ttyinfo, row) /\ UNCHANGED <<base, scrinfo, global_number>>
    BY <1>5 DEF TookTerminal, OnRecvIPTermResponse
  <2>3. row \in TtyRows(I)
    BY <2>1 DEF TtyRows
  <2> HIDE DEF row
  <2>4. ttyinfo' \in Seq(TtyRows(I))
    BY <2>2, <2>3 DEF RowsTyped
  <2> QED
    BY <2>1, <2>2, <2>4 DEF RowsTyped, BaseTyped
<1>6. CASE HandledIPTerm(s, buf, r)
  <2>1. First(buf).screen_num \in Nat /\ First(buf).tty \in Nat
    BY <1>1, <1>6 DEF HandledIPTerm, PacketOK, TtyTypes
  <2> QED
    BY <1>5, <1>6, <2>1 DEF HandledIPTerm
<1>7. CASE HandledDumb(s, buf, r)
  <2>2. PICK tty \in WildByte, n \in WildByte, gone \in 1..Len(buf) :
          TookTerminal(s, r, tty, n, Drop(buf, gone))
    BY <1>7 DEF HandledDumb
  <2>3. n \in Nat /\ tty \in Nat
    BY <2>2, WildAssumption
  <2> QED
    BY <1>5, <1>7, <2>2, <2>3 DEF HandledDumb
<1>8. CASE HandledEnd(s, buf, r)
  <2>1. s.devid \in mine /\ r.devid = s.devid /\ \E n : UpdateTTYConnected(s.devid, n)
    BY <1>8 DEF HandledEnd, SameDevice
  <2> QED
    BY <2>1, BaseUpdate DEF RowsTyped
<1> QED
  BY <1>2, <1>3, <1>4, <1>6, <1>7, <1>8 DEF Handled

LEMMA TailRows ==
  ASSUME NEW I, RowsTyped(I), NEW P, \A p \in P : PacketOK(p), NEW s, SessionTyped(s, P),
         NEW r, Greeted(s, r) \/ TookScreens(s, r), NEW mine \in SUBSET I,
         s.state \notin {"Acceptance", "WaitAuth"} => s.devid \in mine
  PROVE  RowsTyped(I)' /\ (r.state \notin {"Acceptance", "WaitAuth"} => r.devid \in mine)
<1>1. CASE Greeted(s, r)
  BY <1>1 DEF Greeted, Leads, RowsTyped, BaseTyped, dbVars
<1>2. CASE TookScreens(s, r)
  <2>1. s.devid \in mine /\ r.devid = s.devid
    BY <1>2 DEF TookScreens, SameDevice
  <2>2. PICK taken, gone :
          /\ OnRecvScreenInfoPackets(s.devid, s.current_tty, Decoded(s, taken))
          /\ \/ taken = s.scr_num /\ gone = s.scr_num /\ s.scr_num <= Len(s.recv_buffer)
             \/ taken = Len(s.recv_buffer) /\ gone = taken /\ ~(s.scr_num <= Len(s.recv_buffer))
             \/ GarbageHeader /\ gone \in (taken + 1)..Len(s.recv_buffer) /\ taken \in Nat
    BY <1>2, Zenon DEF TookScreens
  <2>3. /\ s.scr_num \in Nat /\ s.current_tty \in Nat /\ s.recv_buffer \in Seq(UnitsOf(P))
        /\ Len(s.recv_buffer) \in Nat
    BY DEF SessionTyped
  <2>4. \A i \in 1..s.scr_num : i <= taken => i \in 1..Len(s.recv_buffer)
    BY <2>2, <2>3
  <2>5. \A i \in 1..Len(s.recv_buffer) :
          s.recv_buffer[i].part = "scr" => s.recv_buffer[i].pkt.tty \in Nat
    BY <2>3 DEF UnitsOf, PacketOK
  <2>6. Decoded(s, taken) \in [1..s.scr_num -> Nat]
    BY <2>4, <2>5 DEF Decoded
  <2>7. RowsTyped(I)'
    BY <2>1, <2>2, <2>3, <2>6, ScreenRows
  <2> QED
    BY <2>1, <2>7
<1> QED
  BY <1>1, <1>2

LEMMA ServerRows ==
  ASSUME NEW P, NEW D, Typed(P), Shape, Admits(P, D), RowsTyped(Ids(D)), Identified(D), ServerNext
  PROVE  RowsTyped(Ids(D))' /\ Identified(D)'
<1>1. ASSUME UNCHANGED dbVars PROVE RowsTyped(Ids(D))'
  BY <1>1 DEF RowsTyped, BaseTyped, dbVars
<1>2. ASSUME NEW c \in Conn, \A d \in Conn : d # c => sess'[d] = sess[d],
             sess'[c].state \notin {"Acceptance", "WaitAuth"} => sess'[c].devid \in D[c]
      PROVE  Identified(D)'
  BY <1>2 DEF Identified
<1>3. ASSUME NEW c \in Conn, Without(c) PROVE Identified(D)'
  <2>1. Update(c, NewClient)
    BY <1>3 DEF Without, Update
  <2>2. sess'[c] = NewClient /\ \A d \in Conn : d # c => sess'[d] = sess[d]
    BY <2>1, NewClientOK, Updated
  <2>3. NewClient.state = "Acceptance"
    BY DEF NewClient
  <2> QED
    BY <1>2, <2>2, <2>3
<1>4. ASSUME NEW c \in Conn PROVE D[c] \in SUBSET Ids(D)
  BY DEF Ids
<1>5. CASE UNCHANGED <<dbVars, sess>>
  BY <1>1, <1>5 DEF Identified
<1>6. ASSUME NEW c \in Conn, ReadPacket(c)
      PROVE  RowsTyped(Ids(D))' /\ Identified(D)'
  <2>1. ~RecvFails(c) /\ Dispatch(c, Received(c))
    BY <1>6 DEF ReadPacket
  <2>2. PICK r : ClientOK(r) /\ Update(c, r) /\ Handled(sess[c], Received(c), r)
    BY <2>1, DispatchDoes DEF Shape
  <2>3. sess'[c] = r /\ \A d \in Conn : d # c => sess'[d] = sess[d]
    BY <2>2, Updated
  <2>4. /\ Received(c) \in Seq(UnitsOf(P[c])) /\ Received(c) # <<>>
    BY <2>1, ReceivedTyped
  <2>5. SessionTyped(sess[c], P[c]) /\ \A p \in P[c] : PacketOK(p)
    BY DEF Typed
  <2>6. sess[c].state \notin {"Acceptance", "WaitAuth"} => sess[c].devid \in D[c]
    BY DEF Identified
  <2>7. \A p \in P[c] : p.type = "auth" /\ Authentic(p) => p.dev \in D[c]
    BY DEF Admits
  <2>8. RowsTyped(Ids(D))' /\ r.devid \in D[c]
    BY <1>4, <2>2, <2>4, <2>5, <2>6, <2>7, HandledRows
  <2> QED
    BY <1>2, <2>3, <2>8
<1>7. ASSUME NEW c \in Conn, ReadRefused(c) \/ ReadBroken(c) \/ WriteFails(c)
      PROVE  RowsTyped(Ids(D))' /\ Identified(D)'
  <2>1. Without(c) /\ UNCHANGED dbVars
    BY <1>7 DEF ReadRefused, ReadBroken, WriteFails, RemoveCurrent, dbVars
  <2> QED
    BY <1>1, <1>3, <2>1
<1>8. ASSUME NEW c \in Conn, Write(c)
      PROVE  RowsTyped(Ids(D))' /\ Identified(D)'
  <2> DEFINE r == [sess[c] EXCEPT !.send_buffer = Tail(sess[c].send_buffer)]
  <2>1. UNCHANGED dbVars /\ (sess' = sess \/ sess' = [sess EXCEPT ![c] = r])
    BY <1>8, Zenon DEF Write
  <2>2. CASE sess' = sess
    BY <1>5, <2>1, <2>2
  <2>3. CASE sess' = [sess EXCEPT ![c] = r]
    <3>1. IsClient(sess[c])
      BY DEF Shape, ClientOK
    <3>2. IsClient(r) /\ r.state = sess[c].state /\ SameDevice(sess[c], r) /\ SameScreens(sess[c], r)
      BY <3>1, SetSend, Zenon
    <3> HIDE DEF r
    <3>3. ClientOK(r)
      BY <3>2 DEF Shape, ClientOK, SameScreens
    <3>4. sess'[c] = r /\ \A d \in Conn : d # c => sess'[d] = sess[d]
      BY <2>3, <3>3, Updated DEF Update
    <3>5. Identified(D)'
      BY <1>2, <3>2, <3>4 DEF Identified, SameDevice
    <3> QED
      BY <1>1, <2>1, <3>5
  <2> QED
    BY <2>1, <2>2, <2>3
<1>9. ASSUME NEW c \in Conn, TailStep(c)
      PROVE  RowsTyped(Ids(D))' /\ Identified(D)'
  <2>1. OnAcceptance(c) \/ (sess[c].is_scr /\ OnScreens(c))
    BY <1>9 DEF TailStep
  <2>2. PICK r : /\ ClientOK(r) /\ Update(c, r)
                 /\ Greeted(sess[c], r) \/ TookScreens(sess[c], r)
    BY <2>1, TailDoes DEF Shape
  <2>3. sess'[c] = r /\ \A d \in Conn : d # c => sess'[d] = sess[d]
    BY <2>2, Updated
  <2>4. SessionTyped(sess[c], P[c]) /\ \A p \in P[c] : PacketOK(p)
    BY DEF Typed
  <2>5. sess[c].state \notin {"Acceptance", "WaitAuth"} => sess[c].devid \in D[c]
    BY DEF Identified
  <2>6. RowsTyped(Ids(D))' /\ (r.state \notin {"Acceptance", "WaitAuth"} => r.devid \in D[c])
    BY <1>4, <2>2, <2>4, <2>5, TailRows
  <2> QED
    BY <1>2, <2>3, <2>6
<1> QED
  BY <1>5, <1>6, <1>7, <1>8, <1>9
     DEF ServerNext, Select, Accept, OnWildPointer, TailThrows, dbVars

-----------------------------------------------------------------------------
(* What a client has sent and the server has not looked at, in the order   *)
(* it was sent, wherever it is now.                                        *)
Stream(c) == sess[c].recv_buffer \o (sock[c] \o wire[c])

LEMMA DropSuffix ==
  ASSUME NEW S, NEW s \in Seq(S), NEW k \in Nat
  PROVE  \E a \in Seq(S) : s = a \o Drop(s, k)
<1>1. Len(s) \in Nat
  BY LenProperties
<1>2. CASE k <= Len(s)
  <2>1. k \in 0..Len(s)
    BY <1>1, <1>2
  <2>2. SubSeq(s, 1, k) \in Seq(S)
    BY <2>1, FrontProperties
  <2>3. s = SubSeq(s, 1, k) \o Drop(s, k)
    BY <2>1, FrontAndRest
  <2> QED
    BY <2>2, <2>3
<1>3. CASE ~(k <= Len(s))
  <2>1. Drop(s, k) \in Seq(S) /\ Len(Drop(s, k)) = 0
    BY <1>3, DropProperties
  <2>2. Drop(s, k) = <<>>
    BY <2>1, EmptySeq
  <2>3. s \o <<>> = s
    BY ConcatEmptySeq
  <2> QED
    BY <2>2, <2>3
<1> QED
  BY <1>2, <1>3

(* Concatenation is associative: with a name for the law, so that the      *)
(* prover looks for one instance of it and not for all.                    *)
Associate(s, t, u) == (s \o t) \o u = s \o (t \o u)

LEMMA Associates ==
  ASSUME NEW S, NEW s \in Seq(S), NEW t \in Seq(S), NEW u \in Seq(S)
  PROVE  Associate(s, t, u)
BY ConcatAssociative DEF Associate

(* Where the parts of a sequence are cut does not matter. *)
Regrouped(r, f, g, w, a, y) == r \o f = a \o y => r \o ((f \o g) \o w) = a \o (y \o (g \o w))

LEMMA Regroup ==
  ASSUME NEW U, NEW r \in Seq(U), NEW f \in Seq(U), NEW g \in Seq(U), NEW w \in Seq(U),
         NEW a \in Seq(U), NEW y \in Seq(U)
  PROVE  Regrouped(r, f, g, w, a, y)
<1> DEFINE v == g \o w
<1>1. v \in Seq(U)
  BY ConcatProperties
<1> HIDE DEF v
<1>2. Associate(r, f, v) /\ Associate(a, y, v)
  BY <1>1, Associates, Zenon
<1>3. Associate(f, g, w)
  BY Associates, Zenon
<1>4. (f \o g) \o w = f \o v
  BY <1>3, Zenon DEF Associate, v
<1>5. (r \o f) \o v = r \o (f \o v) /\ (a \o y) \o v = a \o (y \o v)
  BY <1>2, Zenon DEF Associate
<1> QED
  BY <1>4, <1>5, Zenon DEF v, Regrouped

(* y is what is left of x when something is taken from its front. *)
LEMMA ThreeParts ==
  ASSUME NEW U, NEW b \in Seq(U), NEW s \in Seq(U), NEW w \in Seq(U)
  PROVE  b \o (s \o w) \in Seq(U)
<1> DEFINE t == s \o w
<1>1. t \in Seq(U)
  BY ConcatProperties
<1> HIDE DEF t
<1>2. b \o t \in Seq(U)
  BY <1>1, ConcatProperties
<1> QED
  BY <1>2 DEF t

LEMMA StreamTyped ==
  ASSUME NEW P, Typed(P), NEW c \in Conn
  PROVE  Stream(c) \in Seq(UnitsOf(P[c]))
BY ThreeParts DEF Stream, Typed, SessionTyped

LEMMA NextStreamTyped ==
  ASSUME NEW P, Typed(P)', NEW c \in Conn
  PROVE  Stream(c)' \in Seq(UnitsOf(P[c]))
BY ThreeParts DEF Stream, Typed, SessionTyped

RestOf(S, x, y) == \E a \in Seq(S) : x = a \o y

(* Read moves the front of the socket into the buffer, and the fsm takes   *)
(* something from the front of the buffer.                                 *)
LEMMA StreamTail ==
  ASSUME NEW U, NEW r \in Seq(U), NEW s \in Seq(U), NEW w \in Seq(U),
         NEW k \in 0..Len(s), NEW m \in Nat
  PROVE  RestOf(U, r \o (s \o w), Drop(r \o SubSeq(s, 1, k), m) \o (Drop(s, k) \o w))
<1> DEFINE f == SubSeq(s, 1, k)
           g == Drop(s, k)
           x == r \o f
           y == Drop(x, m)
<1>1. f \in Seq(U) /\ s = f \o g
  BY FrontProperties, FrontAndRest
<1>2. k \in Nat
  BY LenProperties
<1>3. g \in Seq(U)
  BY <1>2, DropProperties
<1> HIDE DEF f, g
<1>4. x \in Seq(U)
  BY <1>1, ConcatProperties
<1>5. y \in Seq(U)
  BY <1>4, DropProperties
<1>6. PICK a \in Seq(U) : x = a \o y
  BY <1>4, DropSuffix
<1> HIDE DEF y
<1>7. r \o ((f \o g) \o w) = a \o (y \o (g \o w))
  <2>1. f \in Seq(U) /\ g \in Seq(U) /\ y \in Seq(U)
    BY <1>1, <1>3, <1>5
  <2>2. Regrouped(r, f, g, w, a, y)
    BY <2>1, Regroup, Zenon
  <2> QED
    BY <1>6, <2>2, Zenon DEF Regrouped
<1>8. r \o (s \o w) = a \o (y \o (g \o w))
  BY <1>1, <1>7, Zenon
<1> QED
  BY <1>8 DEF y, f, g, RestOf

(* Where no terminal is dumb, the handler of dumb terminals never runs. *)
LEMMA NoneDumb ==
  ASSUME Dumb = {}, NEW P, \A p \in P : PacketOK(p), NEW buf \in Seq(UnitsOf(P)), buf # <<>>,
         NEW s, NEW r
  PROVE  ~HandledDumb(s, buf, r)
<1>1. PacketOK(First(buf))
  BY FirstTyped
<1> QED
  BY <1>1 DEF PacketOK, HandledDumb

(* A handler takes something from the front of the buffer. *)
LEMMA HandledDrops ==
  ASSUME NEW s, NEW buf, Len(buf) \in Nat, NEW r, Handled(s, buf, r)
  PROVE  \E k \in Nat : r.recv_buffer = Drop(buf, k)
<1>1. 1 \in Nat /\ 2 \in Nat /\ \A gone \in 1..Len(buf) : gone \in Nat
  OBVIOUS
<1>2. ASSUME NEW tty, NEW n, NEW k \in Nat, TookTerminal(s, r, tty, n, Drop(buf, k))
      PROVE  r.recv_buffer = Drop(buf, k)
  BY <1>2, Zenon DEF TookTerminal, Leads
<1>3. CASE HandledIPTerm(s, buf, r)
  BY <1>1, <1>2, <1>3, Zenon DEF HandledIPTerm
<1>4. CASE HandledDumb(s, buf, r)
  BY <1>1, <1>2, <1>4, Zenon DEF HandledDumb
<1>5. CASE \/ HandledAuth(s, buf, r) \/ HandledPart(s, buf, r) \/ HandledTer(s, buf, r)
           \/ HandledEnd(s, buf, r)
  <2>1. r.recv_buffer = Drop(buf, 2) \/ r.recv_buffer = Drop(buf, 1)
    BY <1>5, Zenon DEF HandledAuth, HandledPart, HandledTer, HandledEnd, Leads
  <2> QED
    BY <1>1, <2>1
<1> QED
  BY <1>3, <1>4, <1>5, Zenon DEF Handled

(* A step of the server only takes units from the front of a stream; but   *)
(* for a process that dies at the wild pointer.                            *)
LEMMA ServerStream ==
  ASSUME NEW P, Typed(P), Shape, ServerNext, NEW c \in Conn
  PROVE  /\ status' = "up" => RestOf(UnitsOf(P[c]), Stream(c), Stream(c)')
         /\ peer'[c] \in {"idle", "open"} => peer'[c] = peer[c]
         /\ wire' = wire
<1> DEFINE U == UnitsOf(P[c])
           Takes == RestOf(U, Stream(c), Stream(c)')
           Peer == peer'[c] \in {"idle", "open"} => peer'[c] = peer[c]
<1>1. /\ sess[c].recv_buffer \in Seq(U) /\ sock[c] \in Seq(U) /\ wire[c] \in Seq(U)
  BY DEF Typed, SessionTyped
<1>2. sock[c] \o wire[c] \in Seq(U)
  BY <1>1, ConcatProperties
<1>3. Stream(c) \in Seq(U)
  BY <1>1, <1>2, ConcatProperties DEF Stream
<1>4. ASSUME wire' = wire, sock' = sock, sess'[c].recv_buffer = sess[c].recv_buffer
      PROVE  Takes
  <2>1. Stream(c)' = Stream(c)
    BY <1>4 DEF Stream
  <2>2. Stream(c) = <<>> \o Stream(c)'
    BY <1>3, <2>1, ConcatEmptySeq
  <2>3. <<>> \in Seq(U)
    OBVIOUS
  <2> QED
    BY <2>2, <2>3 DEF RestOf
<1>5. ASSUME wire' = wire, sock' = sock, NEW k \in Nat,
             sess'[c].recv_buffer = Drop(sess[c].recv_buffer, k)
      PROVE  Takes
  <2>1. PICK a \in Seq(U) : sess[c].recv_buffer = a \o Drop(sess[c].recv_buffer, k)
    BY <1>1, DropSuffix
  <2>2. Drop(sess[c].recv_buffer, k) \in Seq(U)
    BY <1>1, DropProperties
  <2>3. (a \o Drop(sess[c].recv_buffer, k)) \o (sock[c] \o wire[c])
          = a \o (Drop(sess[c].recv_buffer, k) \o (sock[c] \o wire[c]))
    <3> DEFINE y == Drop(sess[c].recv_buffer, k)
               v == sock[c] \o wire[c]
    <3>1. a \in Seq(U) /\ y \in Seq(U) /\ v \in Seq(U)
      BY <1>2, <2>2
    <3> HIDE DEF y, v
    <3>2. Associate(a, y, v)
      BY <3>1, Associates, Zenon
    <3> QED
      BY <3>2, Zenon DEF Associate, y, v
  <2>4. Stream(c)' = Drop(sess[c].recv_buffer, k) \o (sock[c] \o wire[c])
    BY <1>5, Zenon DEF Stream
  <2>5. Stream(c) = a \o Stream(c)'
    BY <2>1, <2>3, <2>4, Zenon DEF Stream
  <2> QED
    BY <2>5 DEF RestOf
<1>6. ASSUME Receive(c), NEW k \in Nat, sess'[c].recv_buffer = Drop(Received(c), k)
      PROVE  Takes
  <2>1. wire' = wire /\ sock'[c] = Drop(sock[c], Taken(c))
    BY <1>6, ReceiveTyped DEF Receive
  <2>2. Taken(c) \in 0..Len(sock[c])
    BY ReceivedTyped
  <2>3. PICK a \in Seq(U) :
          sess[c].recv_buffer \o (sock[c] \o wire[c])
            = a \o (Drop(sess[c].recv_buffer \o SubSeq(sock[c], 1, Taken(c)), k)
                      \o (Drop(sock[c], Taken(c)) \o wire[c]))
    <3> DEFINE held == sess[c].recv_buffer
               here == sock[c]
               coming == wire[c]
               n == Taken(c)
    <3>1. /\ held \in Seq(U) /\ here \in Seq(U) /\ coming \in Seq(U)
          /\ n \in 0..Len(here)
      BY <1>1, <2>2
    <3> HIDE DEF held, here, coming, n, U
    <3>2. RestOf(U, held \o (here \o coming),
                 Drop(held \o SubSeq(here, 1, n), k) \o (Drop(here, n) \o coming))
      BY <3>1, StreamTail, Zenon
    <3> QED
      BY <3>2 DEF held, here, coming, n, RestOf
  <2>4. Stream(c)' = Drop(Received(c), k) \o (Drop(sock[c], Taken(c)) \o wire[c])
    BY <1>6, <2>1, Zenon DEF Stream
  <2>5. Stream(c) = a \o Stream(c)'
    BY <2>3, <2>4, Zenon DEF Stream, Received
  <2> QED
    BY <2>5 DEF RestOf
<1>7. ASSUME Receive(c), Without(c)
      PROVE  Takes
  <2>1. sess'[c] = NewClient
    <3>1. Update(c, NewClient)
      BY <1>7 DEF Without, Update
    <3> QED
      BY <3>1, NewClientOK, Updated
  <2>2. sess'[c].recv_buffer = <<>>
    BY <2>1 DEF NewClient
  <2>3. Received(c) \in Seq(U)
    BY ReceivedTyped
  <2>4. Len(Received(c)) \in Nat
    BY <2>3, LenProperties
  <2>5. /\ Drop(Received(c), Len(Received(c))) \in Seq(U)
        /\ Len(Drop(Received(c), Len(Received(c)))) = 0
    BY <2>3, <2>4, DropProperties
  <2>6. Drop(Received(c), Len(Received(c))) = <<>>
    BY <2>5, EmptySeq
  <2> QED
    BY <1>6, <1>7, <2>2, <2>4, <2>6
<1>8. ASSUME NEW d \in Conn, d # c, Receive(d), sess'[c] = sess[c]
      PROVE  Takes
  <2>1. wire' = wire /\ sock'[c] = sock[c]
    BY <1>8, ReceiveTyped DEF Receive
  <2>2. Stream(c)' = Stream(c)
    BY <1>8, <2>1 DEF Stream
  <2>3. Stream(c) = <<>> \o Stream(c)'
    BY <1>3, <2>2, ConcatEmptySeq
  <2>4. <<>> \in Seq(U)
    OBVIOUS
  <2> QED
    BY <2>3, <2>4 DEF RestOf
<1>9. CASE Select \/ Accept
  <2>1. UNCHANGED <<wire, sock, peer, sess>>
    BY <1>9 DEF Select, Accept, netVars
  <2> QED
    BY <1>4, <2>1
<1>10. ASSUME NEW d \in Conn, ReadPacket(d)
       PROVE  Takes /\ Peer /\ wire' = wire
  <2>1. /\ Receive(d) /\ Dispatch(d, Received(d)) /\ UNCHANGED <<wire, peer>>
    BY <1>10 DEF ReadPacket, Receive
  <2>2. PICK r : ClientOK(r) /\ Update(d, r) /\ Handled(sess[d], Received(d), r)
    BY <2>1, DispatchDoes DEF Shape
  <2>3. sess'[d] = r /\ \A e \in Conn : e # d => sess'[e] = sess[e]
    BY <2>2, Updated
  <2>4. CASE d = c
    <3>1. Received(c) \in Seq(U)
      BY ReceivedTyped
    <3>2. Len(Received(c)) \in Nat
      BY <3>1, LenProperties
    <3>3. PICK k \in Nat : r.recv_buffer = Drop(Received(c), k)
      BY <2>2, <2>4, <3>2, HandledDrops
    <3> QED
      BY <1>6, <2>1, <2>3, <2>4, <3>3
  <2>5. CASE d # c
    BY <1>8, <2>1, <2>3, <2>5
  <2> QED
    BY <2>1, <2>4, <2>5
<1>11. ASSUME NEW d \in Conn, ReadRefused(d) \/ ReadBroken(d)
       PROVE  Takes /\ Peer /\ wire' = wire
  <2>1. Receive(d) /\ Without(d) /\ UNCHANGED <<wire, peer>>
    BY <1>11 DEF ReadRefused, ReadBroken, RemoveCurrent, Receive
  <2>2. \A e \in Conn : e # d => sess'[e] = sess[e]
    BY <2>1, WithoutOK
  <2> QED
    BY <1>7, <1>8, <2>1, <2>2
<1>12. ASSUME NEW d \in Conn, OnWildPointer(d)
       PROVE  status' # "up" /\ Peer /\ wire' = wire
  BY <1>12 DEF OnWildPointer, Receive
<1>13. ASSUME NEW d \in Conn, Write(d)
       PROVE  Takes /\ Peer /\ wire' = wire
  <2> DEFINE r == [sess[d] EXCEPT !.send_buffer = Tail(sess[d].send_buffer)]
  <2>1. /\ UNCHANGED <<wire, sock>>
        /\ sess' = sess \/ sess' = [sess EXCEPT ![d] = r]
        /\ peer' = peer \/ peer' = [peer EXCEPT ![d] = "reset"]
    BY <1>13 DEF Write
  <2>2. Peer
    BY <2>1 DEF Typed
  <2>3. sess'[c].recv_buffer = sess[c].recv_buffer
    <3>1. CASE sess' = sess
      BY <3>1
    <3>2. CASE sess' = [sess EXCEPT ![d] = r]
      <4>1. IsClient(sess[d])
        BY DEF Shape, ClientOK
      <4>2. IsClient(r) /\ r.state = sess[d].state /\ SameScreens(sess[d], r)
            /\ r.recv_buffer = sess[d].recv_buffer
        BY <4>1, SetSend
      <4> HIDE DEF r
      <4>3. ClientOK(r)
        BY <4>2 DEF ClientOK, Shape, SameScreens
      <4>4. sess'[d] = r /\ \A e \in Conn : e # d => sess'[e] = sess[e]
        BY <3>2, <4>3, Updated DEF Update
      <4> QED
        BY <4>2, <4>4
    <3> QED
      BY <2>1, <3>1, <3>2
  <2> QED
    BY <1>4, <2>1, <2>2, <2>3
<1>14. ASSUME NEW d \in Conn, WriteFails(d)
       PROVE  Takes /\ Peer /\ wire' = wire
  <2>1. UNCHANGED <<wire, sock, peer>> /\ Without(d)
    BY <1>14 DEF WriteFails, RemoveCurrent, netVars
  <2>2. Update(d, NewClient)
    BY <2>1 DEF Without, Update
  <2>3. sess'[d] = NewClient /\ \A e \in Conn : e # d => sess'[e] = sess[e]
    BY <2>2, NewClientOK, Updated
  <2>4. CASE d = c
    <3>1. sess'[c].recv_buffer = <<>>
      BY <2>3, <2>4 DEF NewClient
    <3>2. Len(sess[c].recv_buffer) \in Nat
      BY <1>1, LenProperties
    <3>3. /\ Drop(sess[c].recv_buffer, Len(sess[c].recv_buffer)) \in Seq(U)
          /\ Len(Drop(sess[c].recv_buffer, Len(sess[c].recv_buffer))) = 0
      BY <1>1, <3>2, DropProperties
    <3>4. Drop(sess[c].recv_buffer, Len(sess[c].recv_buffer)) = <<>>
      BY <3>3, EmptySeq
    <3> QED
      BY <1>5, <2>1, <3>1, <3>2, <3>4
  <2>5. CASE d # c
    BY <1>4, <2>1, <2>3, <2>5
  <2> QED
    BY <2>1, <2>4, <2>5
<1>15. ASSUME NEW d \in Conn, TailStep(d)
       PROVE  Takes /\ Peer /\ wire' = wire
  <2>1. UNCHANGED <<wire, sock, peer>> /\ (OnAcceptance(d) \/ (sess[d].is_scr /\ OnScreens(d)))
    BY <1>15 DEF TailStep, netVars
  <2>2. PICK r : /\ ClientOK(r) /\ Update(d, r)
                 /\ Greeted(sess[d], r) \/ TookScreens(sess[d], r)
    BY <2>1, TailDoes DEF Shape
  <2>3. sess'[d] = r /\ \A e \in Conn : e # d => sess'[e] = sess[e]
    BY <2>2, Updated
  <2>4. CASE d # c
    BY <1>4, <2>1, <2>3, <2>4
  <2>5. CASE d = c /\ Greeted(sess[d], r)
    BY <1>4, <2>1, <2>3, <2>5 DEF Greeted, Leads
  <2>6. CASE d = c /\ TookScreens(sess[d], r)
    <3>1. Len(sess[c].recv_buffer) \in Nat /\ sess[c].scr_num \in Nat
      BY <1>1, LenProperties DEF Typed, SessionTyped
    <3>2. PICK taken, gone :
            /\ \/ taken = sess[c].scr_num /\ gone = sess[c].scr_num /\ sess[c].scr_num <= Len(sess[c].recv_buffer)
               \/ taken = Len(sess[c].recv_buffer) /\ gone = taken /\ ~(sess[c].scr_num <= Len(sess[c].recv_buffer))
               \/ GarbageHeader /\ gone \in (taken + 1)..Len(sess[c].recv_buffer) /\ taken \in Nat
            /\ \/ Leads(sess[c], r, "End", Drop(sess[c].recv_buffer, gone), <<Request("end")>>)
               \/ Leads(sess[c], r, "WaitIPTermInfo", Drop(sess[c].recv_buffer, gone), <<>>)
      BY <2>6, Zenon DEF TookScreens
    <3>3. gone \in Nat
      BY <3>1, <3>2
    <3>4. r.recv_buffer = Drop(sess[c].recv_buffer, gone)
      BY <3>2 DEF Leads
    <3> QED
      BY <1>5, <2>1, <2>3, <2>6, <3>3, <3>4
  <2> QED
    BY <2>1, <2>2, <2>4, <2>5, <2>6
<1>16. ASSUME NEW d \in Conn, TailThrows(d)
       PROVE  Takes /\ Peer /\ wire' = wire
  BY <1>4, <1>16 DEF TailThrows, netVars
<1>17. (status' = "up" => Takes) /\ Peer /\ wire' = wire
  <2>1. CASE Select \/ Accept
    <3>1. UNCHANGED <<wire, peer>>
      BY <2>1 DEF Select, Accept, netVars
    <3> QED
      BY <1>9, <2>1, <3>1
  <2>2. CASE ~(Select \/ Accept)
    <3>1. PICK d \in Conn : \/ ReadPacket(d) \/ ReadRefused(d) \/ ReadBroken(d)
                            \/ OnWildPointer(d) \/ Write(d) \/ WriteFails(d)
                            \/ TailStep(d) \/ TailThrows(d)
      BY <2>2, Zenon DEF ServerNext
    <3> HIDE DEF Takes, Peer
    <3> QED
      BY <1>10, <1>11, <1>12, <1>13, <1>14, <1>15, <1>16, <3>1, Zenon
  <2> QED
    BY <2>1, <2>2
<1> QED
  BY <1>17

-----------------------------------------------------------------------------
(* Framing: behind a head comes the rest of its packet, as far as it has   *)
(* been sent; and in a complete stream all of it has.                      *)
Framed(x) == \A i, j \in 1..Len(x) :
  x[i].part = "head" /\ i < j /\ j < i + PacketUnits(x[i].pkt)
    => x[j] = Unit(IF j = i + 1 THEN "body" ELSE "scr", x[i].pkt)

Complete(x) == \A i \in 1..Len(x) :
  x[i].part = "head" => i + PacketUnits(x[i].pkt) <= Len(x) + 1

LEMMA ScreensAreNat == ASSUME NEW p, PacketOK(p) PROVE Screens(p) \in Nat /\ PacketUnits(p) \in Nat
<1>1. Screens(p) \in Nat
  BY DEF PacketOK, Screens, TtyTypes
<1> QED
  BY <1>1 DEF PacketUnits

LEMMA UnitsAreNat ==
  ASSUME NEW P, \A p \in P : PacketOK(p), NEW x \in Seq(UnitsOf(P)), NEW i \in 1..Len(x)
  PROVE  x[i].pkt \in P /\ PacketUnits(x[i].pkt) \in Nat
<1>1. x[i] \in UnitsOf(P)
  BY ElementOfSeq
<1>2. x[i].pkt \in P
  BY <1>1 DEF UnitsOf
<1> QED
  BY <1>2, ScreensAreNat

(* What is left when something is taken from the front. *)
LEMMA FramedRest ==
  ASSUME NEW P, \A p \in P : PacketOK(p),
         NEW x \in Seq(UnitsOf(P)), NEW y \in Seq(UnitsOf(P)), RestOf(UnitsOf(P), x, y)
  PROVE  (Framed(x) => Framed(y)) /\ (Complete(x) => Complete(y))
<1>1. PICK a \in Seq(UnitsOf(P)) : x = a \o y
  BY DEF RestOf
<1> DEFINE n == Len(a)
<1>2. /\ n \in Nat /\ Len(y) \in Nat /\ Len(x) = n + Len(y)
      /\ \A i \in 1..(n + Len(y)) : x[i] = IF i <= n THEN a[i] ELSE y[i - n]
  BY <1>1, ConcatProperties, LenProperties
<1> HIDE DEF n
<1>3. \A i \in 1..Len(y) : n + i \in 1..Len(x) /\ x[n + i] = y[i]
  <2> SUFFICES ASSUME NEW i \in 1..Len(y) PROVE n + i \in 1..Len(x) /\ x[n + i] = y[i]
    OBVIOUS
  <2>1. n + i \in 1..(n + Len(y)) /\ ~(n + i <= n) /\ (n + i) - n = i
    BY <1>2
  <2> QED
    BY <1>2, <2>1
<1>4. \A i \in 1..Len(y) : PacketUnits(y[i].pkt) \in Nat
  BY UnitsAreNat
<1>5. ASSUME Framed(x) PROVE Framed(y)
  <2> SUFFICES ASSUME NEW i \in 1..Len(y), NEW j \in 1..Len(y), y[i].part = "head",
                      i < j, j < i + PacketUnits(y[i].pkt)
               PROVE  y[j] = Unit(IF j = i + 1 THEN "body" ELSE "scr", y[i].pkt)
    BY DEF Framed
  <2>1. /\ n + i \in 1..Len(x) /\ x[n + i] = y[i]
        /\ n + j \in 1..Len(x) /\ x[n + j] = y[j]
    BY <1>3
  <2>2. /\ n + i < n + j /\ n + j < (n + i) + PacketUnits(y[i].pkt)
        /\ (n + j = (n + i) + 1 <=> j = i + 1)
    BY <1>2, <1>4
  <2>3. x[n + j] = Unit(IF n + j = (n + i) + 1 THEN "body" ELSE "scr", x[n + i].pkt)
    BY <1>5, <2>1, <2>2 DEF Framed
  <2> QED
    BY <2>1, <2>2, <2>3
<1>6. ASSUME Complete(x) PROVE Complete(y)
  <2> SUFFICES ASSUME NEW i \in 1..Len(y), y[i].part = "head"
               PROVE  i + PacketUnits(y[i].pkt) <= Len(y) + 1
    BY DEF Complete
  <2>1. n + i \in 1..Len(x) /\ x[n + i] = y[i]
    BY <1>3
  <2>2. (n + i) + PacketUnits(y[i].pkt) <= Len(x) + 1
    BY <1>6, <2>1 DEF Complete
  <2> QED
    BY <1>2, <1>4, <2>2
<1> QED
  BY <1>5, <1>6

(* The front of a stream. *)
LEMMA FramedFront ==
  ASSUME NEW S, NEW x \in Seq(S), NEW y \in Seq(S), Framed(x \o y)
  PROVE  Framed(x)
<1> DEFINE z == x \o y
<1>1. /\ Len(x) \in Nat /\ Len(y) \in Nat /\ Len(z) = Len(x) + Len(y)
      /\ \A i \in 1..(Len(x) + Len(y)) : z[i] = IF i <= Len(x) THEN x[i] ELSE y[i - Len(x)]
  BY ConcatProperties, LenProperties
<1>2. Framed(z)
  OBVIOUS
<1> HIDE DEF z
<1>3. \A i \in 1..Len(x) : i \in 1..Len(z) /\ z[i] = x[i]
  BY <1>1
<1> QED
  BY <1>2, <1>3 DEF Framed

(* More is sent only behind complete packets. *)
LEMMA FramedAppend ==
  ASSUME NEW P, \A p \in P : PacketOK(p),
         NEW x \in Seq(UnitsOf(P)), NEW y \in Seq(UnitsOf(P)),
         Framed(x), Complete(x), Framed(y)
  PROVE  Framed(x \o y) /\ (Complete(y) => Complete(x \o y))
<1> DEFINE z == x \o y
           n == Len(x)
<1>1. /\ n \in Nat /\ Len(y) \in Nat /\ Len(z) = n + Len(y)
      /\ \A i \in 1..(n + Len(y)) : z[i] = IF i <= n THEN x[i] ELSE y[i - n]
  BY ConcatProperties, LenProperties
<1>2. \A i \in 1..n : PacketUnits(x[i].pkt) \in Nat
  BY UnitsAreNat
<1>3. \A i \in 1..Len(y) : PacketUnits(y[i].pkt) \in Nat
  BY UnitsAreNat
<1> HIDE DEF z
<1>4. \A i \in 1..n : z[i] = x[i] /\ (z[i].part = "head" => i + PacketUnits(z[i].pkt) <= n + 1)
  <2> SUFFICES ASSUME NEW i \in 1..n
               PROVE  z[i] = x[i] /\ (z[i].part = "head" => i + PacketUnits(z[i].pkt) <= n + 1)
    OBVIOUS
  <2>1. z[i] = x[i]
    BY <1>1
  <2> QED
    BY <2>1 DEF Complete
<1>5. \A i \in (n + 1)..Len(z) : i - n \in 1..Len(y) /\ z[i] = y[i - n]
  BY <1>1
<1>6. Framed(z)
  <2> SUFFICES ASSUME NEW i \in 1..Len(z), NEW j \in 1..Len(z), z[i].part = "head",
                      i < j, j < i + PacketUnits(z[i].pkt)
               PROVE  z[j] = Unit(IF j = i + 1 THEN "body" ELSE "scr", z[i].pkt)
    BY DEF Framed
  <2>1. CASE i <= n
    <3>1. i \in 1..n
      BY <2>1
    <3>2. z[i] = x[i] /\ i + PacketUnits(z[i].pkt) <= n + 1 /\ PacketUnits(z[i].pkt) \in Nat
      BY <1>2, <1>4, <3>1
    <3>3. j \in 1..n
      BY <1>1, <3>1, <3>2
    <3>4. z[j] = x[j]
      BY <1>4, <3>3
    <3> QED
      BY <3>1, <3>2, <3>3, <3>4 DEF Framed
  <2>2. CASE ~(i <= n)
    <3>1. i \in (n + 1)..Len(z) /\ j \in (n + 1)..Len(z)
      BY <1>1, <2>2
    <3>2. /\ i - n \in 1..Len(y) /\ z[i] = y[i - n]
          /\ j - n \in 1..Len(y) /\ z[j] = y[j - n]
      BY <1>5, <3>1
    <3>3. PacketUnits(z[i].pkt) \in Nat
      BY <1>3, <3>2
    <3>4. /\ i - n < j - n /\ j - n < (i - n) + PacketUnits(z[i].pkt)
          /\ (j - n = (i - n) + 1 <=> j = i + 1)
      BY <1>1, <3>3
    <3>5. y[j - n] = Unit(IF j - n = (i - n) + 1 THEN "body" ELSE "scr", y[i - n].pkt)
      BY <3>2, <3>4 DEF Framed
    <3> QED
      BY <3>2, <3>4, <3>5
  <2> QED
    BY <2>1, <2>2
<1>7. ASSUME Complete(y) PROVE Complete(z)
  <2> SUFFICES ASSUME NEW i \in 1..Len(z), z[i].part = "head"
               PROVE  i + PacketUnits(z[i].pkt) <= Len(z) + 1
    BY DEF Complete
  <2>1. CASE i <= n
    <3>1. i \in 1..n
      BY <2>1
    <3>2. i + PacketUnits(z[i].pkt) <= n + 1 /\ z[i] = x[i] /\ PacketUnits(x[i].pkt) \in Nat
      BY <1>2, <1>4, <3>1
    <3> QED
      BY <1>1, <3>2
  <2>2. CASE ~(i <= n)
    <3>1. i \in (n + 1)..Len(z)
      BY <1>1, <2>2
    <3>2. i - n \in 1..Len(y) /\ z[i] = y[i - n]
      BY <1>5, <3>1
    <3>3. PacketUnits(z[i].pkt) \in Nat
      BY <1>3, <3>2
    <3>4. (i - n) + PacketUnits(y[i - n].pkt) <= Len(y) + 1
      BY <1>7, <3>2 DEF Complete
    <3> QED
      BY <1>1, <3>2, <3>3, <3>4
  <2> QED
    BY <2>1, <2>2
<1> QED
  BY <1>6, <1>7 DEF z

(* A packet, as it is sent. *)
Whole(p) == HeadBlock(p) \o (IF HasData(p) THEN DataBlock(p) ELSE <<>>)

LEMMA DataUnits ==
  ASSUME NEW P, NEW p \in P, PacketOK(p)
  PROVE  /\ DataBlock(p) \in Seq(UnitsOf(P))
         /\ Len(DataBlock(p)) = 1 + Screens(p)
         /\ DataBlock(p)[1] = Unit("body", p)
         /\ \A i \in 2..(1 + Screens(p)) : DataBlock(p)[i] = Unit("scr", p)
<1> DEFINE U == UnitsOf(P)
           n == Screens(p)
           b == <<Unit("body", p)>>
           t == [i \in 1..n |-> Unit("scr", p)]
<1>1. n \in Nat /\ (n # 0 => p.type \in TtyTypes)
  BY ScreensAreNat DEF Screens, TtyTypes
<1>2. Unit("body", p) \in U
  BY DEF Unit, UnitsOf
<1>3. n # 0 => Unit("scr", p) \in U
  BY <1>1 DEF Unit, UnitsOf
<1> HIDE DEF n, U
<1>4. b \in Seq(U) /\ Len(b) = 1 /\ b[1] = Unit("body", p)
  BY <1>2
<1>5. t \in Seq(U) /\ Len(t) = n /\ \A i \in 1..n : t[i] = Unit("scr", p)
  <2>1. \A i \in 1..n : Unit("scr", p) \in U
    BY <1>1, <1>3
  <2> QED
    BY <1>1, <2>1
<1> HIDE DEF b, t
<1>6. /\ b \o t \in Seq(U) /\ Len(b \o t) = 1 + n
      /\ \A i \in 1..(1 + n) : (b \o t)[i] = IF i <= 1 THEN b[i] ELSE t[i - 1]
  <2>1. /\ b \o t \in Seq(U) /\ Len(b \o t) = Len(b) + Len(t)
        /\ \A i \in 1..(Len(b) + Len(t)) : (b \o t)[i] = IF i <= Len(b) THEN b[i] ELSE t[i - Len(b)]
    BY <1>4, <1>5, ConcatProperties
  <2>2. Len(b) + Len(t) = 1 + n /\ Len(b) = 1
    BY <1>1, <1>4, <1>5
  <2> QED
    BY <2>1, <2>2
<1>7. (b \o t)[1] = Unit("body", p) /\ \A i \in 2..(1 + n) : (b \o t)[i] = Unit("scr", p)
  BY <1>1, <1>4, <1>5, <1>6
<1> QED
  BY <1>6, <1>7 DEF DataBlock, b, t, n, U

LEMMA WholeUnits ==
  ASSUME NEW P, NEW p \in P, PacketOK(p)
  PROVE  /\ Whole(p) \in Seq(UnitsOf(P))
         /\ Len(Whole(p)) = PacketUnits(p)
         /\ Whole(p)[1] = Unit("head", p)
         /\ \A i \in 2..PacketUnits(p) : Whole(p)[i] = Unit(IF i = 2 THEN "body" ELSE "scr", p)
<1> DEFINE U == UnitsOf(P)
           h == HeadBlock(p)
           b == IF HasData(p) THEN DataBlock(p) ELSE <<>>
<1>1. Screens(p) \in Nat
  BY ScreensAreNat
<1>2. Unit("head", p) \in U
  BY DEF Unit, UnitsOf
<1>3. h \in Seq(U) /\ Len(h) = 1 /\ h[1] = Unit("head", p)
  BY <1>2 DEF HeadBlock
<1>4. CASE HasData(p)
  <2>1. /\ b \in Seq(U) /\ Len(b) = 1 + Screens(p) /\ b[1] = Unit("body", p)
        /\ \A i \in 2..(1 + Screens(p)) : b[i] = Unit("scr", p)
    BY <1>4, DataUnits
  <2>2. PacketUnits(p) = 2 + Screens(p)
    BY <1>4 DEF PacketUnits
  <2> HIDE DEF b, h, U
  <2>3. /\ h \o b \in Seq(U) /\ Len(h \o b) = 2 + Screens(p)
        /\ \A i \in 1..(2 + Screens(p)) : (h \o b)[i] = IF i <= 1 THEN h[i] ELSE b[i - 1]
    <3>1. /\ h \o b \in Seq(U) /\ Len(h \o b) = Len(h) + Len(b)
          /\ \A i \in 1..(Len(h) + Len(b)) : (h \o b)[i] = IF i <= Len(h) THEN h[i] ELSE b[i - Len(h)]
      BY <1>3, <2>1, ConcatProperties
    <3>2. Len(h) + Len(b) = 2 + Screens(p) /\ Len(h) = 1
      BY <1>1, <1>3, <2>1
    <3> QED
      BY <3>1, <3>2
  <2>4. (h \o b)[1] = Unit("head", p)
    BY <1>1, <1>3, <2>3
  <2>5. (h \o b)[2] = Unit("body", p)
    BY <1>1, <2>1, <2>3
  <2>6. ASSUME NEW i \in 3..(2 + Screens(p)) PROVE (h \o b)[i] = Unit("scr", p)
    <3>1. i \in 1..(2 + Screens(p)) /\ ~(i <= 1) /\ i - 1 \in 2..(1 + Screens(p))
      BY <1>1
    <3> QED
      BY <2>1, <2>3, <3>1
  <2>7. ASSUME NEW i \in 2..(2 + Screens(p))
        PROVE  (h \o b)[i] = Unit(IF i = 2 THEN "body" ELSE "scr", p)
    <3>1. i = 2 \/ (i # 2 /\ i \in 3..(2 + Screens(p)))
      BY <1>1
    <3> QED
      BY <2>5, <2>6, <3>1
  <2> QED
    BY <2>2, <2>3, <2>4, <2>7 DEF Whole, h, b, U
<1>5. CASE ~HasData(p)
  <2>1. b = <<>> /\ PacketUnits(p) = 1
    BY <1>5 DEF PacketUnits
  <2>2. h \o b = h
    BY <1>3, <2>1, ConcatEmptySeq
  <2>3. 2..PacketUnits(p) = {}
    BY <2>1
  <2> HIDE DEF h
  <2> QED
    BY <1>3, <2>1, <2>2, <2>3 DEF Whole, h
<1> QED
  BY <1>4, <1>5

LEMMA WholeFramed ==
  ASSUME NEW P, NEW p \in P, PacketOK(p)
  PROVE  Framed(Whole(p)) /\ Complete(Whole(p))
<1> DEFINE w == Whole(p)
           n == PacketUnits(p)
<1>1. /\ n \in Nat /\ Len(w) = n /\ w[1] = Unit("head", p)
      /\ \A i \in 2..n : w[i] = Unit(IF i = 2 THEN "body" ELSE "scr", p)
  BY WholeUnits, ScreensAreNat
<1> HIDE DEF w, n
<1>2. ASSUME NEW i \in 1..n, i # 1 PROVE w[i].part # "head"
  <2>1. i \in 2..n
    BY <1>1, <1>2
  <2>2. w[i] = Unit("body", p) \/ w[i] = Unit("scr", p)
    BY <1>1, <2>1
  <2> QED
    BY <2>2 DEF Unit
<1>3. w[1].pkt = p
  BY <1>1 DEF Unit
<1>4. Framed(w)
  <2> SUFFICES ASSUME NEW i \in 1..n, NEW j \in 1..n, w[i].part = "head", i < j
               PROVE  w[j] = Unit(IF j = i + 1 THEN "body" ELSE "scr", w[i].pkt)
    BY <1>1 DEF Framed
  <2>1. i = 1 /\ j \in 2..n
    BY <1>1, <1>2
  <2> QED
    BY <1>1, <1>3, <2>1
<1>5. Complete(w)
  <2> SUFFICES ASSUME NEW i \in 1..n, w[i].part = "head"
               PROVE  i + PacketUnits(w[i].pkt) <= n + 1
    BY <1>1 DEF Complete
  <2>1. i = 1
    BY <1>2
  <2>2. PacketUnits(w[i].pkt) = n
    BY <1>3, <2>1 DEF n
  <2> QED
    BY <1>1, <2>1, <2>2
<1> QED
  BY <1>4, <1>5 DEF w

-----------------------------------------------------------------------------
(* ScreensWhole: the packet of a terminal that the fsm takes is whole, and *)
(* its screens stay at the front of the buffer until they are decoded.     *)
ScreensAt(s) == /\ s.scr_num <= Len(s.recv_buffer)
                /\ \A i \in 1..s.scr_num : /\ s.recv_buffer[i].part = "scr"
                                           /\ s.recv_buffer[i].pkt.tty = s.current_tty

(* What a session has received is the front of its stream. *)
Coming(c) == Drop(sock[c], Taken(c)) \o wire[c]

LEMMA StreamSplit ==
  ASSUME NEW P, Typed(P), NEW c \in Conn
  PROVE  /\ Received(c) \in Seq(UnitsOf(P[c])) /\ Coming(c) \in Seq(UnitsOf(P[c]))
         /\ Stream(c) = Received(c) \o Coming(c)
<1> DEFINE U == UnitsOf(P[c])
           held == sess[c].recv_buffer
           here == sock[c]
           coming == wire[c]
           n == Taken(c)
           f == SubSeq(here, 1, n)
           g == Drop(here, n)
           x == held \o f
<1>1. held \in Seq(U) /\ here \in Seq(U) /\ coming \in Seq(U) /\ n \in 0..Len(here)
  BY ReceivedTyped DEF Typed, SessionTyped
<1>2. Stream(c) = held \o (here \o coming) /\ Coming(c) = g \o coming
  BY DEF Stream, Coming
<1>3. x = Received(c)
  BY DEF Received
<1> HIDE DEF held, here, coming, n, U
<1>4. f \in Seq(U) /\ here = f \o g
  BY <1>1, FrontProperties, FrontAndRest
<1>5. g \in Seq(U)
  <2>1. n \in Nat
    BY <1>1, LenProperties
  <2> QED
    BY <1>1, <2>1, DropProperties
<1> HIDE DEF f, g
<1>6. x \in Seq(U) /\ g \o coming \in Seq(U)
  BY <1>1, <1>4, <1>5, ConcatProperties
<1>7. <<>> \in Seq(U) /\ x \o <<>> = x /\ <<>> \o (g \o coming) = g \o coming
  BY <1>6, ConcatEmptySeq
<1>8. held \o ((f \o g) \o coming) = x \o (g \o coming)
  <2>1. f \in Seq(U)
    BY <1>4
  <2> HIDE DEF x
  <2>2. Regrouped(held, f, g, coming, x, <<>>)
    BY <1>1, <1>5, <1>6, <1>7, <2>1, Regroup, Zenon
  <2> QED
    BY <1>7, <2>2, Zenon DEF Regrouped, x
<1>9. Stream(c) = x \o (g \o coming)
  BY <1>2, <1>4, <1>8, Zenon
<1> QED
  BY <1>2, <1>3, <1>6, <1>9, Zenon DEF U

(* Read has moved a framed stream into the buffer. *)
LEMMA ReceivedFramed ==
  ASSUME NEW P, Typed(P), NEW c \in Conn, Framed(Stream(c))
  PROVE  Framed(Received(c))
<1>1. /\ Received(c) \in Seq(UnitsOf(P[c])) /\ Coming(c) \in Seq(UnitsOf(P[c]))
      /\ Framed(Received(c) \o Coming(c))
  BY StreamSplit
<1> QED
  BY <1>1, FramedFront

(* The screens of the terminal at the front of the buffer. *)
LEMMA TerminalScreens ==
  ASSUME NEW P, \A p \in P : PacketOK(p), NEW s, NEW r, NEW buf \in Seq(UnitsOf(P)),
         buf # <<>>, Framed(buf), HoldsPacket(buf), HandledIPTerm(s, buf, r),
         r.state = "WaitScrInfo"
  PROVE  ScreensAt(r)
<1> DEFINE p == First(buf)
           n == First(buf).screen_num
           left == Drop(buf, 2)
<1>1. /\ p \in P /\ Head(buf) = buf[1] /\ p.type = "ipterm" /\ Len(buf) \in Nat
      /\ buf[1].part = "head" /\ Len(buf) >= PacketUnits(p) /\ p = buf[1].pkt
  <2>1. First(buf) \in P /\ Head(buf) = buf[1]
    BY FirstTyped
  <2>2. Len(buf) \in Nat
    BY LenProperties
  <2> QED
    BY <2>1, <2>2 DEF HandledIPTerm, HoldsPacket, First
<1>2. n \in Nat /\ PacketUnits(p) = 2 + n
  <2>1. PacketOK(p)
    BY <1>1
  <2> QED
    BY <1>1, <2>1 DEF PacketOK, TtyTypes, PacketUnits, HasData, Screens
<1>3. r.scr_num = n /\ r.current_tty = p.tty /\ r.recv_buffer = left
  BY Zenon DEF HandledIPTerm, TookTerminal, Leads
<1>4. Len(left) = Len(buf) - 2 /\ \A i \in 1..Len(left) : left[i] = buf[2 + i]
  BY <1>1, <1>2, DropProperties
<1> HIDE DEF n, p, left
<1>5. n <= Len(left)
  BY <1>1, <1>2, <1>4
<1>6. ASSUME NEW i \in 1..n
      PROVE  left[i].part = "scr" /\ left[i].pkt.tty = p.tty
  <2>1. /\ 1 \in 1..Len(buf) /\ 2 + i \in 1..Len(buf) /\ i \in 1..Len(left)
        /\ 1 < 2 + i /\ 2 + i < 1 + PacketUnits(p) /\ 2 + i # 1 + 1
    BY <1>1, <1>2, <1>4, <1>5
  <2>2. buf[2 + i] = Unit("scr", p)
    BY <1>1, <2>1 DEF Framed
  <2> QED
    BY <1>4, <2>1, <2>2 DEF Unit
<1> QED
  BY <1>3, <1>5, <1>6, Zenon DEF ScreensAt

LEMMA ServerScreens ==
  ASSUME NEW P, Typed(P), Shape, Dumb = {},
         \A c \in Conn : Framed(Stream(c)), ScreensWhole, ServerNext
  PROVE  ScreensWhole'
<1>1. SUFFICES ASSUME NEW c \in Conn, sess'[c].is_scr
               PROVE  ScreensAt(sess'[c])
  BY DEF ScreensWhole, ScreensAt
<1>2. ASSUME sess'[c] = sess[c]
      PROVE  ScreensAt(sess'[c])
  BY <1>1, <1>2 DEF ScreensWhole, ScreensAt
<1>3. ASSUME NEW d \in Conn, NEW r, ClientOK(r), Update(d, r), d = c => r.state # "WaitScrInfo"
      PROVE  ScreensAt(sess'[c])
  <2>1. sess'[d] = r /\ \A e \in Conn : e # d => sess'[e] = sess[e]
    BY <1>3, Updated
  <2>2. d # c
    BY <1>1, <1>3, <2>1 DEF ClientOK
  <2> QED
    BY <1>2, <2>1, <2>2
<1>4. CASE Select \/ Accept
  BY <1>2, <1>4 DEF Select, Accept
<1>5. ASSUME NEW d \in Conn, ReadPacket(d)
      PROVE  ScreensAt(sess'[c])
  <2>1. /\ Receive(d) /\ ~RecvFails(d) /\ HoldsPacket(Received(d)) /\ Dispatch(d, Received(d))
    BY <1>5 DEF ReadPacket
  <2>2. PICK r : ClientOK(r) /\ Update(d, r) /\ Handled(sess[d], Received(d), r)
    BY <2>1, DispatchDoes DEF Shape
  <2>3. CASE d # c
    BY <1>3, <2>2, <2>3
  <2>4. CASE d = c
    <3>1. /\ Received(c) \in Seq(UnitsOf(P[c])) /\ Received(c) # <<>>
          /\ \A p \in P[c] : PacketOK(p)
      BY <2>1, <2>4, ReceivedTyped DEF Typed
    <3>2. CASE r.state # "WaitScrInfo"
      BY <1>3, <2>2, <3>2
    <3>3. CASE r.state = "WaitScrInfo"
      <4>1. HandledIPTerm(sess[c], Received(c), r)
        <5>1. "WaitScrInfo" \notin EarlyNext
          BY DEF EarlyNext
        <5>2. ~HandledDumb(sess[c], Received(c), r)
          BY <3>1, NoneDumb
        <5>3. ~HandledPart(sess[c], Received(c), r)
          BY <3>3, <5>1 DEF HandledPart, Leads
        <5>4. /\ ~HandledAuth(sess[c], Received(c), r)
              /\ ~HandledTer(sess[c], Received(c), r)
              /\ ~HandledEnd(sess[c], Received(c), r)
          BY <3>3 DEF HandledAuth, HandledTer, HandledEnd, Leads
        <5> QED
          BY <2>2, <2>4, <5>2, <5>3, <5>4, Zenon DEF Handled
      <4>2. Framed(Received(c))
        BY ReceivedFramed
      <4>3. HoldsPacket(Received(c))
        BY <2>1, <2>4
      <4>4. ScreensAt(r)
        BY <3>1, <3>3, <4>1, <4>2, <4>3, TerminalScreens
      <4>5. sess'[d] = r
        BY <2>2, Updated
      <4> QED
        BY <2>4, <4>4, <4>5
    <3> QED
      BY <3>2, <3>3
  <2> QED
    BY <2>3, <2>4
<1>6. ASSUME NEW d \in Conn, ReadRefused(d) \/ ReadBroken(d) \/ WriteFails(d)
      PROVE  ScreensAt(sess'[c])
  <2>1. Update(d, NewClient)
    BY <1>6 DEF ReadRefused, ReadBroken, WriteFails, RemoveCurrent, Without, Update
  <2>2. NewClient.state = "Acceptance"
    BY DEF NewClient
  <2> QED
    BY <1>3, <2>1, <2>2, NewClientOK
<1>7. ASSUME NEW d \in Conn, OnWildPointer(d) \/ TailThrows(d)
      PROVE  ScreensAt(sess'[c])
  BY <1>2, <1>7 DEF OnWildPointer, TailThrows
<1>8. ASSUME NEW d \in Conn, Write(d)
      PROVE  ScreensAt(sess'[c])
  <2> DEFINE r == [sess[d] EXCEPT !.send_buffer = Tail(sess[d].send_buffer)]
  <2>1. sess' = sess \/ sess' = [sess EXCEPT ![d] = r]
    BY <1>8 DEF Write
  <2>2. CASE sess' = sess
    BY <1>2, <2>2
  <2>3. CASE sess' = [sess EXCEPT ![d] = r]
    <3>1. IsClient(sess[d])
      BY DEF Shape, ClientOK
    <3>2. /\ IsClient(r) /\ r.state = sess[d].state /\ SameScreens(sess[d], r)
          /\ r.recv_buffer = sess[d].recv_buffer
      BY <3>1, SetSend
    <3> HIDE DEF r
    <3>3. ClientOK(r)
      BY <3>2 DEF ClientOK, Shape, SameScreens
    <3>4. sess'[d] = r /\ \A e \in Conn : e # d => sess'[e] = sess[e]
      BY <2>3, <3>3, Updated DEF Update
    <3>5. CASE d # c
      BY <1>2, <3>4, <3>5
    <3>6. CASE d = c
      <4>1. ScreensAt(sess[c])
        BY <1>1, <3>2, <3>4, <3>6 DEF ScreensWhole, ScreensAt, SameScreens
      <4> QED
        BY <3>2, <3>4, <3>6, <4>1 DEF ScreensAt, SameScreens
    <3> QED
      BY <3>5, <3>6
  <2> QED
    BY <2>1, <2>2, <2>3
<1>9. ASSUME NEW d \in Conn, TailStep(d)
      PROVE  ScreensAt(sess'[c])
  <2>1. OnAcceptance(d) \/ (sess[d].is_scr /\ OnScreens(d))
    BY <1>9 DEF TailStep
  <2>2. PICK r : ClientOK(r) /\ Update(d, r) /\ r.state \notin {"Acceptance", "WaitScrInfo"}
    BY <2>1, TailDoes DEF Shape
  <2> QED
    BY <1>3, <2>2
<1> QED
  BY <1>4, <1>5, <1>6, <1>7, <1>8, <1>9, Zenon DEF ServerNext

-----------------------------------------------------------------------------
(* What clients and the network do to the streams.                         *)

LEMMA Exchanged ==
  ASSUME NEW f, f = [d \in Conn |-> f[d]], NEW c \in Conn, NEW v, NEW g, g = [f EXCEPT ![c] = v]
  PROVE  g = [d \in Conn |-> g[d]] /\ g[c] = v /\ \A d \in Conn : d # c => g[d] = f[d]
<1>1. g = [d \in Conn |-> IF d = c THEN v ELSE f[d]]
  BY Zenon
<1>2. g[c] = v /\ \A d \in Conn : d # c => g[d] = f[d]
  BY <1>1
<1>3. g = [d \in Conn |-> g[d]]
  BY <1>1, Zenon
<1> QED
  BY <1>2, <1>3

(* The network moves units along. *)
LEMMA DeliverDoes ==
  ASSUME NEW P, Typed(P), NEW c \in Conn, Deliver(c), UNCHANGED serverVars
  PROVE  /\ Typed(P)'
         /\ \A d \in Conn : UNCHANGED Stream(d)
         /\ \A d \in Conn : sock[d] # <<>> => sock'[d] # <<>>
         /\ UNCHANGED peer
<1> DEFINE U == UnitsOf(P[c])
           w == wire[c]
           here == sock[c]
<1>0. PICK n \in Bursts(c) :
        /\ n <= Len(w)
        /\ sock' = [sock EXCEPT ![c] = here \o SubSeq(w, 1, n)]
        /\ wire' = [wire EXCEPT ![c] = SubSeq(w, n + 1, Len(w))]
  BY DEF Deliver
<1> DEFINE f == SubSeq(w, 1, n)
           g == Drop(w, n)
<1>1. /\ w # <<>> /\ n <= Len(w)
      /\ sock' = [sock EXCEPT ![c] = here \o f]
      /\ wire' = [wire EXCEPT ![c] = g]
      /\ UNCHANGED <<s2c, peer>>
  BY <1>0 DEF Deliver, Drop
<1>2. /\ w \in Seq(U) /\ here \in Seq(U) /\ sess[c].recv_buffer \in Seq(U)
      /\ wire = [d \in Conn |-> wire[d]] /\ sock = [d \in Conn |-> sock[d]]
  BY DEF Typed, SessionTyped
<1>3. n \in 0..Len(w)
  <2>1. Len(w) \in Nat /\ 1 \in 1..Len(w) /\ Head(w) = w[1]
    BY <1>1, <1>2, EmptySeq
  <2>2. PacketUnits(w[1].pkt) \in Nat /\ w[1].pkt \in P[c]
    BY <1>2, <2>1, UnitsAreNat DEF Typed
  <2>3. Bursts(c) \subseteq Nat
    BY <2>1, <2>2, DeliveryAssumption DEF Bursts
  <2> QED
    BY <1>0, <2>1, <2>3
<1>4. f \in Seq(U) /\ w = f \o g
  BY <1>2, <1>3, FrontProperties, FrontAndRest
<1>5. g \in Seq(U)
  <2>1. n \in Nat
    BY <1>2, <1>3, LenProperties
  <2> QED
    BY <1>2, <2>1, DropProperties
<1> HIDE DEF f, g
<1>6. here \o f \in Seq(U)
  BY <1>2, <1>4, ConcatProperties
<1>7. /\ sock' = [d \in Conn |-> sock'[d]] /\ sock'[c] = here \o f
      /\ \A d \in Conn : d # c => sock'[d] = sock[d]
  BY <1>1, <1>2, Exchanged, Zenon
<1>8. /\ wire' = [d \in Conn |-> wire'[d]] /\ wire'[c] = g
      /\ \A d \in Conn : d # c => wire'[d] = wire[d]
  BY <1>1, <1>2, Exchanged, Zenon
<1>9. \A d \in Conn : sock'[d] \in Seq(UnitsOf(P[d])) /\ wire'[d] \in Seq(UnitsOf(P[d]))
  BY <1>5, <1>6, <1>7, <1>8 DEF Typed
<1>10. Typed(P)'
  BY <1>1, <1>7, <1>8, <1>9 DEF Typed, serverVars
<1>11. (here \o f) \o g = here \o w
  <2>1. f \in Seq(U)
    BY <1>4
  <2> HIDE DEF here, w
  <2>2. Associate(here, f, g)
    BY <1>2, <1>5, <2>1, Associates, Zenon
  <2> QED
    BY <1>4, <2>2, Zenon DEF Associate
<1>12. sess' = sess
  BY DEF serverVars
<1>13. ASSUME NEW d \in Conn PROVE UNCHANGED Stream(d)
  <2>1. CASE d = c
    BY <1>7, <1>8, <1>11, <1>12, <2>1 DEF Stream
  <2>2. CASE d # c
    BY <1>7, <1>8, <1>12, <2>2 DEF Stream
  <2> QED
    BY <2>1, <2>2
<1>14. here # <<>> => here \o f # <<>>
  <2>1. f \in Seq(U)
    BY <1>4
  <2> HIDE DEF here, U
  <2>2. Len(here \o f) = Len(here) + Len(f) /\ Len(f) \in Nat
    BY <1>2, <2>1, ConcatProperties, LenProperties
  <2>3. here # <<>> => Len(here) \in Nat \ {0}
    BY <1>2, EmptySeq
  <2>4. Len(<<>>) = 0
    OBVIOUS
  <2> QED
    BY <2>2, <2>3, <2>4
<1>15. \A d \in Conn : sock[d] # <<>> => sock'[d] # <<>>
  BY <1>7, <1>14 DEF here
<1> QED
  BY <1>1, <1>10, <1>13, <1>15

(* What is put on the wire of a connection is at the end of its stream. *)
Longer(b, s, w, x) == b \o (s \o (w \o x)) = (b \o (s \o w)) \o x

LEMMA StreamEnd ==
  ASSUME NEW U, NEW b \in Seq(U), NEW s \in Seq(U), NEW w \in Seq(U), NEW x \in Seq(U)
  PROVE  Longer(b, s, w, x)
<1>1. Associate(s, w, x)
  BY Associates, Zenon
<1> DEFINE t == s \o w
<1>2. t \in Seq(U)
  BY ConcatProperties
<1>3. s \o (w \o x) = t \o x
  BY <1>1, Zenon DEF Associate
<1> HIDE DEF t
<1>4. Associate(b, t, x)
  BY <1>2, Associates, Zenon
<1>5. b \o (t \o x) = (b \o t) \o x
  BY <1>4, Zenon DEF Associate
<1>6. b \o (s \o (w \o x)) = (b \o t) \o x
  BY <1>3, <1>5, Zenon
<1> QED
  BY <1>6, Zenon DEF t, Longer

(* The server touches only the connections of its list. *)
LEMMA ServerPeers ==
  ASSUME NEW P, Typed(P), Lists, ServerNext, NEW c \in Conn, c \notin Held
  PROVE  peer'[c] = peer[c]
<1>1. todo \subseteq Held /\ peer = [d \in Conn |-> peer[d]]
  BY DEF Lists, Typed
<1>2. CASE \E d \in Conn : Write(d)
  <2>1. PICK d \in Conn : Write(d)
    BY <1>2
  <2>2. d # c
    BY <1>1, <2>1 DEF Write, Visiting, IsNext
  <2>3. peer' = peer \/ peer' = [peer EXCEPT ![d] = "reset"]
    BY <2>1 DEF Write
  <2> QED
    BY <1>1, <2>2, <2>3
<1>3. CASE UNCHANGED peer
  BY <1>3
<1>4. (\E d \in Conn : Write(d)) \/ UNCHANGED peer
  BY DEF ServerNext, Select, Accept, ReadPacket, ReadRefused, ReadBroken, OnWildPointer,
         WriteFails, TailStep, TailThrows, Receive, netVars
<1> QED
  BY <1>2, <1>3, <1>4

(* A new connection is in the backlog. *)
LEMMA BacklogGrows ==
  ASSUME Lists, NEW c \in Conn, c \notin ToSet(backlog), NEW b, b = Append(backlog, c)
  PROVE  Listing(b, Conn) /\ ToSet(b) = ToSet(backlog) \cup {c} /\ b # <<>>
<1>1. PICK q : q = backlog
  OBVIOUS
<1>2. Listing(q, Conn) /\ c \notin ToSet(q) /\ b = Append(q, c)
  BY <1>1 DEF Lists
<1>3. Listing(b, Conn) /\ ToSet(b) = ToSet(q) \cup {c}
  <2>1. /\ Listing(Append(q, c), Conn)
        /\ ToSet(Append(q, c)) = ToSet(q) \cup {c}
        /\ Append(q, c) = q \o <<c>>
    BY <1>2, ListingAppend
  <2> QED
    BY <1>2, <2>1
<1>4. ToSet(b) # {}
  BY <1>3
<1>5. b # <<>>
  BY <1>4 DEF ToSet
<1> QED
  BY <1>1, <1>3, <1>5

LEMMA ServerStatus == ServerNext => status = "up" /\ status' \in {"up", "crashed"}
BY DEF ServerNext, Select, Accept, ReadPacket, ReadRefused, ReadBroken, OnWildPointer, Write,
       WriteFails, TailStep, TailThrows, Receive, RemoveCurrent, Visiting, Running

-----------------------------------------------------------------------------
(* The order of the terminals.  A session asks for its authentication once *)
(* and for each terminal once, the terminals in the order of their         *)
(* numbers.  The key of a request, and of the head of its answer, is the   *)
(* number of the terminal, 0 for the authentication.                       *)
UnitKey(u) == CASE u.part = "head" /\ u.pkt.type = "ipterm"              -> {u.pkt.tty}
                [] u.part = "head" /\ u.pkt.type \in {"auth", "version"} -> {0}
                [] OTHER                                                 -> {}

AskKey(q) == CASE q.type = "ipterm" -> {q.no}
               [] q.type = "auth"   -> {0}
               [] OTHER             -> {}

UnitKeys(x) == [i \in 1..Len(x) |-> UnitKey(x[i])]
AskKeys(x)  == [i \in 1..Len(x) |-> AskKey(x[i])]

Before(A, B) == \A a \in A, b \in B : a < b

All(z) == UNION {z[i] : i \in 1..Len(z)}

Rising(z) == \A i, j \in 1..Len(z) : i < j => Before(z[i], z[j])

KeySeq == Seq(SUBSET Nat)

LEMMA RisingJoin ==
  ASSUME NEW z \in KeySeq, NEW w \in KeySeq
  PROVE  /\ z \o w \in KeySeq
         /\ All(z \o w) = All(z) \cup All(w)
         /\ Rising(z \o w) <=> Rising(z) /\ Rising(w) /\ Before(All(z), All(w))
<1> DEFINE y == z \o w
           m == Len(z)
           n == Len(w)
<1>1. /\ y \in KeySeq /\ Len(y) = m + n /\ m \in Nat /\ n \in Nat
      /\ \A i \in 1..m : y[i] = z[i]
  BY ConcatProperties, LenProperties DEF KeySeq
<1>2. \A i \in 1..n : y[m + i] = w[i]
  <2> SUFFICES ASSUME NEW i \in 1..n PROVE y[m + i] = w[i]
    OBVIOUS
  <2>1. m + i \in 1..(m + n) /\ ~(m + i <= m) /\ (m + i) - m = i
    BY <1>1
  <2> QED
    BY <1>1, <2>1, ConcatProperties DEF KeySeq
<1> HIDE DEF y, m, n
<1>3. \A k \in 1..(m + n) : k \in 1..m \/ \E i \in 1..n : k = m + i
  <2> SUFFICES ASSUME NEW k \in 1..(m + n), k \notin 1..m PROVE \E i \in 1..n : k = m + i
    OBVIOUS
  <2>1. k - m \in 1..n /\ k = m + (k - m)
    BY <1>1
  <2> QED
    BY <2>1
<1>4. \A i \in 1..m : i \in 1..(m + n)
  BY <1>1
<1>5. \A i \in 1..n : m + i \in 1..(m + n)
  BY <1>1
<1>6. All(y) = All(z) \cup All(w)
  <2>1. All(y) = UNION {y[k] : k \in 1..(m + n)} /\ All(z) = UNION {z[i] : i \in 1..m}
        /\ All(w) = UNION {w[i] : i \in 1..n}
    BY <1>1 DEF All, m, n
  <2>2. ASSUME NEW e \in All(y) PROVE e \in All(z) \cup All(w)
    <3>1. PICK k \in 1..(m + n) : e \in y[k]
      BY <2>1, <2>2
    <3>2. CASE k \in 1..m
      BY <1>1, <2>1, <3>1, <3>2
    <3>3. CASE \E i \in 1..n : k = m + i
      BY <1>2, <2>1, <3>1, <3>3
    <3> QED
      BY <1>3, <3>2, <3>3
  <2>3. ASSUME NEW e \in All(z) PROVE e \in All(y)
    <3>1. PICK i \in 1..m : e \in z[i]
      BY <2>1, <2>3
    <3> QED
      BY <1>1, <1>4, <2>1, <3>1
  <2>4. ASSUME NEW e \in All(w) PROVE e \in All(y)
    <3>1. PICK i \in 1..n : e \in w[i]
      BY <2>1, <2>4
    <3>2. m + i \in 1..(m + n) /\ y[m + i] = w[i]
      BY <1>2, <1>5
    <3> QED
      BY <2>1, <3>1, <3>2
  <2> QED
    BY <2>2, <2>3, <2>4
<1>7. ASSUME Rising(y) PROVE Rising(z) /\ Rising(w) /\ Before(All(z), All(w))
  <2>1. \A i, j \in 1..(m + n) : i < j => Before(y[i], y[j])
    BY <1>1, <1>7 DEF Rising
  <2>2. Rising(z)
    <3> SUFFICES ASSUME NEW i \in 1..m, NEW j \in 1..m, i < j PROVE Before(z[i], z[j])
      BY DEF Rising, m
    <3>1. i \in 1..(m + n) /\ j \in 1..(m + n) /\ y[i] = z[i] /\ y[j] = z[j]
      BY <1>1, <1>4
    <3>2. Before(y[i], y[j])
      BY <2>1, <3>1
    <3> QED
      BY <3>1, <3>2
  <2>3. Rising(w)
    <3> SUFFICES ASSUME NEW i \in 1..n, NEW j \in 1..n, i < j PROVE Before(w[i], w[j])
      BY DEF Rising, n
    <3>1. m + i \in 1..(m + n) /\ m + j \in 1..(m + n) /\ y[m + i] = w[i] /\ y[m + j] = w[j]
      BY <1>2, <1>5
    <3>2. m + i < m + j
      BY <1>1
    <3>3. Before(y[m + i], y[m + j])
      BY <2>1, <3>1, <3>2
    <3> QED
      BY <3>1, <3>3
  <2>4. ASSUME NEW a \in All(z), NEW b \in All(w) PROVE a < b
    <3>1. PICK i \in 1..m : a \in z[i]
      BY DEF All, m
    <3>2. PICK j \in 1..n : b \in w[j]
      BY DEF All, n
    <3>3. i \in 1..(m + n) /\ m + j \in 1..(m + n) /\ y[i] = z[i] /\ y[m + j] = w[j]
      BY <1>1, <1>2, <1>4, <1>5
    <3>4. i < m + j
      BY <1>1
    <3>5. Before(y[i], y[m + j])
      BY <2>1, <3>3, <3>4
    <3> QED
      BY <3>1, <3>2, <3>3, <3>5 DEF Before
  <2> QED
    BY <2>2, <2>3, <2>4 DEF Before
<1>8. ASSUME Rising(z), Rising(w), Before(All(z), All(w)) PROVE Rising(y)
  <2> SUFFICES ASSUME NEW i \in 1..(m + n), NEW j \in 1..(m + n), i < j
               PROVE  Before(y[i], y[j])
    BY <1>1 DEF Rising
  <2>1. CASE i \in 1..m /\ j \in 1..m
    <3>1. Before(z[i], z[j])
      BY <1>8, <2>1 DEF Rising, m
    <3> QED
      BY <1>1, <2>1, <3>1
  <2>2. CASE i \in 1..m /\ \E l \in 1..n : j = m + l
    <3>1. PICK l \in 1..n : j = m + l
      BY <2>2
    <3>2. y[i] \subseteq All(z) /\ y[j] \subseteq All(w)
      BY <1>1, <1>2, <2>2, <3>1 DEF All, m, n
    <3> QED
      BY <1>8, <3>2 DEF Before
  <2>3. CASE (\E k \in 1..n : i = m + k) /\ j \in 1..m
    BY <1>1, <2>3
  <2>4. CASE (\E k \in 1..n : i = m + k) /\ \E l \in 1..n : j = m + l
    <3>1. PICK k \in 1..n : i = m + k
      BY <2>4
    <3>2. PICK l \in 1..n : j = m + l
      BY <2>4
    <3>3. k < l
      BY <1>1, <3>1, <3>2
    <3>4. Before(w[k], w[l])
      BY <1>8, <3>3 DEF Rising, n
    <3> QED
      BY <1>2, <3>1, <3>2, <3>4
  <2> QED
    BY <1>3, <2>1, <2>2, <2>3, <2>4
<1> QED
  BY <1>1, <1>6, <1>7, <1>8 DEF y

LEMMA RisingOne ==
  /\ <<>> \in KeySeq /\ All(<<>>) = {} /\ Rising(<<>>)
  /\ \A K \in SUBSET Nat : <<K>> \in KeySeq /\ All(<<K>>) = K /\ Rising(<<K>>)
<1>1. <<>> \in KeySeq /\ All(<<>>) = {} /\ Rising(<<>>)
  BY DEF KeySeq, All, Rising
<1>2. ASSUME NEW K \in SUBSET Nat PROVE <<K>> \in KeySeq /\ All(<<K>>) = K /\ Rising(<<K>>)
  <2>1. <<K>> \in KeySeq /\ Len(<<K>>) = 1 /\ <<K>>[1] = K
    BY DEF KeySeq
  <2>2. \A i \in 1..Len(<<K>>) : i = 1
    BY <2>1
  <2>3. 1 \in 1..Len(<<K>>)
    BY <2>1
  <2>4. All(<<K>>) = K
    BY <2>1, <2>2, <2>3 DEF All
  <2>5. Rising(<<K>>)
    BY <2>2 DEF Rising
  <2> QED
    BY <2>1, <2>4, <2>5
<1> QED
  BY <1>1, <1>2

(* What is on its way, oldest first: answers and what is left of them (a), *)
(* requests sent (b) and requests queued (d).                              *)
Ascend(a, b, d) == /\ Rising(a) /\ Rising(b) /\ Rising(d)
                   /\ Before(All(a), All(b)) /\ Before(All(a), All(d)) /\ Before(All(b), All(d))

Reach(a, b, d) == All(a) \cup All(b) \cup All(d)

(* Something is taken from the front. *)
LEMMA AscendRest ==
  ASSUME NEW h \in KeySeq, NEW a \in KeySeq, NEW b, NEW d, Ascend(h \o a, b, d)
  PROVE  /\ Ascend(a, b, d) /\ Reach(h \o a, b, d) = All(h) \cup Reach(a, b, d)
         /\ Rising(h) /\ Before(All(h), Reach(a, b, d))
<1>1. /\ All(h \o a) = All(h) \cup All(a)
      /\ Rising(h) /\ Rising(a) /\ Before(All(h), All(a))
  BY RisingJoin DEF Ascend
<1> QED
  BY <1>1 DEF Ascend, Reach, Before

(* The oldest request is answered. *)
LEMMA AscendAnswered ==
  ASSUME NEW a \in KeySeq, NEW b \in KeySeq, NEW K \in SUBSET Nat, NEW v \in KeySeq, NEW d,
         All(v) \subseteq K, Rising(v), Ascend(a, <<K>> \o b, d)
  PROVE  Ascend(a \o v, b, d) /\ Reach(a \o v, b, d) \subseteq Reach(a, <<K>> \o b, d)
<1>1. <<K>> \in KeySeq /\ All(<<K>>) = K
  BY RisingOne
<1> DEFINE o == <<K>>
<1>2. o \in KeySeq /\ All(o) = K /\ Ascend(a, o \o b, d)
  BY <1>1
<1> HIDE DEF o
<1>3. /\ All(o \o b) = K \cup All(b)
      /\ Rising(b) /\ Before(K, All(b)) /\ Rising(a) /\ Rising(d)
      /\ Before(All(a), K \cup All(b)) /\ Before(All(a), All(d)) /\ Before(K \cup All(b), All(d))
  BY <1>2, RisingJoin DEF Ascend
<1>4. All(a \o v) = All(a) \cup All(v)
  BY RisingJoin
<1>5. Before(All(a), All(v))
  BY <1>3 DEF Before
<1>6. Rising(a \o v)
  BY <1>3, <1>5, RisingJoin
<1>7. Ascend(a \o v, b, d)
  BY <1>3, <1>4, <1>6 DEF Ascend, Before
<1>8. Reach(a \o v, b, d) \subseteq Reach(a, o \o b, d)
  BY <1>3, <1>4 DEF Reach
<1> QED
  BY <1>7, <1>8 DEF o

(* The oldest of the queued requests is sent, or lost. *)
LEMMA AscendWritten ==
  ASSUME NEW a, NEW b \in KeySeq, NEW K \in SUBSET Nat, NEW d \in KeySeq,
         Ascend(a, b, <<K>> \o d), NEW e, e \in {b, b \o <<K>>}
  PROVE  Ascend(a, e, d) /\ Reach(a, e, d) \subseteq Reach(a, b, <<K>> \o d)
<1> DEFINE o == <<K>>
<1>1. o \in KeySeq /\ All(o) = K /\ Rising(o) /\ Ascend(a, b, o \o d) /\ e \in {b, b \o o}
  BY RisingOne
<1> HIDE DEF o
<1>2. /\ All(o \o d) = K \cup All(d)
      /\ Rising(d) /\ Before(K, All(d)) /\ Rising(a) /\ Rising(b)
      /\ Before(All(a), All(b)) /\ Before(All(a), K \cup All(d)) /\ Before(All(b), K \cup All(d))
  BY <1>1, RisingJoin DEF Ascend
<1>3. All(b \o o) = All(b) \cup K
  BY <1>1, RisingJoin
<1>4. Before(All(b), K)
  BY <1>2 DEF Before
<1>5. Rising(b \o o)
  BY <1>1, <1>2, <1>4, RisingJoin
<1>6. Rising(e) /\ All(e) \subseteq All(b) \cup K
  BY <1>1, <1>2, <1>3, <1>5
<1>7. Ascend(a, e, d)
  BY <1>1, <1>2, <1>3, <1>6 DEF Ascend, Before
<1>8. Reach(a, e, d) \subseteq Reach(a, b, o \o d)
  BY <1>2, <1>6 DEF Reach
<1> QED
  BY <1>7, <1>8 DEF o

(* Requests are queued. *)
LEMMA AscendAsked ==
  ASSUME NEW a, NEW b, NEW d \in KeySeq, NEW e \in KeySeq, Ascend(a, b, d),
         Rising(e), Before(Reach(a, b, d), All(e))
  PROVE  Ascend(a, b, d \o e) /\ Reach(a, b, d \o e) = Reach(a, b, d) \cup All(e)
<1>1. All(d \o e) = All(d) \cup All(e)
  BY RisingJoin
<1>2. Before(All(d), All(e))
  BY DEF Before, Reach
<1>3. Rising(d \o e)
  BY <1>2, RisingJoin DEF Ascend
<1> QED
  BY <1>1, <1>3 DEF Ascend, Reach, Before

LEMMA Halves == ASSUME NEW m \in Nat, NEW n \in Nat, NEW i \in 1..(m + n)
                PROVE  IF i <= m THEN i \in 1..m ELSE i - m \in 1..n
OBVIOUS

(* The keys of the parts of a sequence; f gives the key. *)
Maps(f, V, x, a) == a \in Seq(V) /\ Len(a) = Len(x) /\ \A i \in 1..Len(x) : a[i] = f[x[i]]

LEMMA MapJoin ==
  ASSUME NEW S, NEW x \in Seq(S), NEW y \in Seq(S), NEW V, NEW f, NEW a, NEW b, NEW u,
         Maps(f, V, x, a), Maps(f, V, y, b), Maps(f, V, x \o y, u)
  PROVE  u = a \o b
<1> DEFINE m == Len(x)
           n == Len(y)
           z == x \o y
<1>1. /\ z \in Seq(S) /\ Len(z) = m + n /\ m \in Nat /\ n \in Nat
      /\ \A i \in 1..m : z[i] = x[i]
      /\ \A i \in 1..(m + n) : ~(i <= m) => z[i] = y[i - m]
  BY ConcatProperties, LenProperties
<1>2. /\ Len(a) = m /\ Len(b) = n /\ Len(u) = m + n
      /\ \A i \in 1..m : a[i] = f[x[i]]
      /\ \A i \in 1..n : b[i] = f[y[i]]
      /\ \A i \in 1..(m + n) : u[i] = f[z[i]]
      /\ a \in Seq(V) /\ b \in Seq(V) /\ u \in Seq(V)
  BY <1>1 DEF Maps
<1> HIDE DEF z, m, n
<1>4. \A i \in 1..(m + n) : IF i <= m THEN i \in 1..m ELSE i - m \in 1..n
  BY <1>1, Halves, Zenon
<1> DEFINE w == a \o b
<1>8. /\ w \in Seq(V) /\ Len(w) = m + n
      /\ \A i \in 1..(m + n) : w[i] = IF i <= m THEN a[i] ELSE b[i - m]
  BY <1>2, ConcatProperties
<1> HIDE DEF w
<1>9. ASSUME NEW i \in 1..(m + n) PROVE u[i] = w[i]
  <2>1. CASE i <= m
    <3>1. i \in 1..m
      BY <1>4, <2>1
    <3>2. w[i] = a[i] /\ a[i] = f[x[i]] /\ z[i] = x[i]
      BY <1>1, <1>2, <1>8, <2>1, <3>1
    <3> QED
      BY <1>2, <3>2
  <2>2. CASE ~(i <= m)
    <3>1. i - m \in 1..n
      BY <1>4, <2>2
    <3>2. w[i] = b[i - m] /\ b[i - m] = f[y[i - m]] /\ z[i] = y[i - m]
      BY <1>1, <1>2, <1>8, <2>2, <3>1
    <3> QED
      BY <1>2, <3>2
  <2> QED
    BY <2>1, <2>2
<1>10. Len(u) = Len(w) /\ \A i \in 1..Len(u) : u[i] = w[i]
  BY <1>2, <1>8, <1>9
<1>11. u = w
  <2>1. u \in Seq(V) /\ w \in Seq(V)
    BY <1>2, <1>8
  <2> QED
    BY <1>10, <2>1, SeqEqual
<1> QED
  BY <1>11 DEF w

LEMMA KeysJoin ==
  ASSUME NEW S, NEW x \in Seq(S), NEW y \in Seq(S)
  PROVE  /\ UnitKeys(x \o y) = UnitKeys(x) \o UnitKeys(y)
         /\ AskKeys(x \o y) = AskKeys(x) \o AskKeys(y)
<1>1. \A i \in 1..Len(x) : x[i] \in S
  BY ElementOfSeq
<1>2. \A i \in 1..Len(y) : y[i] \in S
  BY ElementOfSeq
<1> DEFINE z == x \o y
<1>3. z \in Seq(S)
  BY ConcatProperties
<1>4. \A i \in 1..Len(z) : z[i] \in S
  BY <1>3, ElementOfSeq
<1> HIDE DEF z
<1>5. UnitKeys(z) = UnitKeys(x) \o UnitKeys(y)
  <2> DEFINE V == {UnitKey(e) : e \in S}
             f == [e \in S |-> UnitKey(e)]
  <2>1. /\ UnitKeys(x) \in Seq(V) /\ UnitKeys(y) \in Seq(V) /\ UnitKeys(z) \in Seq(V)
        /\ Len(UnitKeys(x)) = Len(x) /\ Len(UnitKeys(y)) = Len(y) /\ Len(UnitKeys(z)) = Len(z)
    <3>1. Len(x) \in Nat /\ Len(y) \in Nat /\ Len(z) \in Nat
      BY <1>3, LenProperties
    <3> QED
      BY <1>1, <1>2, <1>4, <3>1 DEF UnitKeys
  <2>2. /\ \A i \in 1..Len(x) : UnitKeys(x)[i] = f[x[i]]
        /\ \A i \in 1..Len(y) : UnitKeys(y)[i] = f[y[i]]
        /\ \A i \in 1..Len(z) : UnitKeys(z)[i] = f[z[i]]
    BY <1>1, <1>2, <1>4 DEF UnitKeys
  <2> DEFINE a == UnitKeys(x)
             b == UnitKeys(y)
             u == UnitKeys(z)
  <2>3. Maps(f, V, x, a) /\ Maps(f, V, y, b) /\ Maps(f, V, x \o y, u)
    BY <2>1, <2>2 DEF Maps, z
  <2> HIDE DEF V, f, a, b, u
  <2>4. u = a \o b
    BY <2>3, MapJoin
  <2> QED
    BY <2>4 DEF a, b, u
<1>6. AskKeys(z) = AskKeys(x) \o AskKeys(y)
  <2> DEFINE V == {AskKey(e) : e \in S}
             f == [e \in S |-> AskKey(e)]
  <2>1. /\ AskKeys(x) \in Seq(V) /\ AskKeys(y) \in Seq(V) /\ AskKeys(z) \in Seq(V)
        /\ Len(AskKeys(x)) = Len(x) /\ Len(AskKeys(y)) = Len(y) /\ Len(AskKeys(z)) = Len(z)
    <3>1. Len(x) \in Nat /\ Len(y) \in Nat /\ Len(z) \in Nat
      BY <1>3, LenProperties
    <3> QED
      BY <1>1, <1>2, <1>4, <3>1 DEF AskKeys
  <2>2. /\ \A i \in 1..Len(x) : AskKeys(x)[i] = f[x[i]]
        /\ \A i \in 1..Len(y) : AskKeys(y)[i] = f[y[i]]
        /\ \A i \in 1..Len(z) : AskKeys(z)[i] = f[z[i]]
    BY <1>1, <1>2, <1>4 DEF AskKeys
  <2> DEFINE a == AskKeys(x)
             b == AskKeys(y)
             u == AskKeys(z)
  <2>3. Maps(f, V, x, a) /\ Maps(f, V, y, b) /\ Maps(f, V, x \o y, u)
    BY <2>1, <2>2 DEF Maps, z
  <2> HIDE DEF V, f, a, b, u
  <2>4. u = a \o b
    BY <2>3, MapJoin
  <2> QED
    BY <2>4 DEF a, b, u
<1> QED
  BY <1>5, <1>6 DEF z

-----------------------------------------------------------------------------
(* What a step of the server does, one of five things.                     *)

Others(c) == \A d \in Conn : d # c => sess'[d] = sess[d]

Apart(c) == wire' = wire /\ \A d \in Conn : d # c => sock'[d] = sock[d]

(* The fsm takes the packet at the front of the buffer: k units leave it.  *)
TakesFront(c, k) == /\ k \in 1..Len(Received(c))
                    /\ sess'[c].recv_buffer = Drop(Received(c), k)
                    /\ Stream(c) = SubSeq(Received(c), 1, k) \o Stream(c)'

Reads(c) == /\ Others(c) /\ Apart(c) /\ s2c' = s2c /\ status' = status
            /\ HoldsPacket(Received(c)) /\ Received(c) # <<>>
            /\ Handled(sess[c], Received(c), sess'[c])
            /\ \E k : TakesFront(c, k)
            /\ ClientOK(sess'[c])

(* A queued request is sent, or lost if the client has gone. *)
Writes(c) == /\ Others(c) /\ UNCHANGED <<dbVars, status, session_set, sock, wire>>
             /\ sess[c].send_buffer # <<>>
             /\ sess'[c].send_buffer = Tail(sess[c].send_buffer)
             /\ sess'[c].state = sess[c].state /\ sess'[c].recv_buffer = sess[c].recv_buffer
             /\ SameDevice(sess[c], sess'[c]) /\ SameCount(sess[c], sess'[c])
             /\ SameScreens(sess[c], sess'[c]) /\ sess'[c].ethnum = sess[c].ethnum
             /\ \A d \in Conn : d # c => s2c'[d] = s2c[d]
             /\ s2c'[c] \in {s2c[c], Append(s2c[c], Head(sess[c].send_buffer))}
             /\ peer'[c] = "open" => s2c'[c] = Append(s2c[c], Head(sess[c].send_buffer))

(* The second loop. *)
Settles(c) == /\ Others(c) /\ UNCHANGED <<s2c, sock, wire, status>>
              /\ ClientOK(sess'[c])
              /\ Greeted(sess[c], sess'[c]) \/ TookScreens(sess[c], sess'[c])

Removes(c) == /\ Others(c) /\ Apart(c) /\ UNCHANGED <<dbVars, s2c>>
              /\ sess'[c] = NewClient /\ c \in Serving /\ c \notin Serving'

(* Nothing that matters to a session; the bytes a dying process received   *)
(* are gone.                                                               *)
Rests == /\ UNCHANGED <<sess, s2c, dbVars>>
         /\ UNCHANGED <<sock, wire>> \/ \E c \in Conn : OnWildPointer(c)

(* A stream of a buffer r, a socket s and the wire w, when k units are      *)
(* received and m handled.                                                 *)
CutAt(r, s, w, k, m) ==
  r \o (s \o w) = SubSeq(r \o SubSeq(s, 1, k), 1, m)
                   \o (Drop(r \o SubSeq(s, 1, k), m) \o (Drop(s, k) \o w))

LEMMA ReadCut ==
  ASSUME NEW U, NEW r \in Seq(U), NEW s \in Seq(U), NEW w \in Seq(U),
         NEW k \in 0..Len(s), NEW m \in 0..Len(r \o SubSeq(s, 1, k))
  PROVE  CutAt(r, s, w, k, m)
<1> DEFINE f == SubSeq(s, 1, k)
           g == Drop(s, k)
           x == r \o f
           a == SubSeq(x, 1, m)
           y == Drop(x, m)
<1>1. f \in Seq(U) /\ s = f \o g
  BY FrontProperties, FrontAndRest
<1>2. k \in Nat
  BY LenProperties
<1>3. g \in Seq(U)
  BY <1>2, DropProperties
<1> HIDE DEF f, g
<1>4. x \in Seq(U)
  BY <1>1, ConcatProperties
<1>5. m \in 0..Len(x)
  BY DEF f
<1> HIDE DEF x
<1>6. m \in Nat
  BY <1>4, <1>5, LenProperties
<1>7. y \in Seq(U)
  BY <1>4, <1>6, DropProperties
<1>8. a \in Seq(U) /\ x = a \o y
  BY <1>4, <1>5, FrontProperties, FrontAndRest
<1> HIDE DEF a, y
<1>9. r \o f = a \o y
  BY <1>8, Zenon DEF x
<1>10. Regrouped(r, f, g, w, a, y)
  BY <1>1, <1>3, <1>7, <1>8, Regroup, Zenon
<1>11. r \o ((f \o g) \o w) = a \o (y \o (g \o w))
  BY <1>9, <1>10, Zenon DEF Regrouped
<1>12. r \o (s \o w) = a \o (y \o (g \o w))
  BY <1>1, <1>11, Zenon
<1> QED
  BY <1>12, Zenon DEF CutAt, a, y, x, f, g

(* How much of the buffer a handler takes. *)
LEMMA HandledTakes ==
  ASSUME NEW P, \A p \in P : PacketOK(p), NEW s, NEW buf \in Seq(UnitsOf(P)), buf # <<>>,
         HoldsPacket(buf), NEW r, Handled(s, buf, r)
  PROVE  \E k \in 1..Len(buf) : r.recv_buffer = Drop(buf, k)
<1> DEFINE p == First(buf)
<1>1. p \in P /\ Len(buf) \in Nat /\ Len(buf) # 0
  BY FirstTyped, LenProperties, EmptySeq
<1>2. PacketUnits(p) <= Len(buf)
  BY DEF HoldsPacket
<1>3. Screens(p) \in Nat
  BY <1>1, ScreensAreNat
<1>4. p.type # "end" => 2 \in 1..Len(buf)
  BY <1>1, <1>2, <1>3 DEF PacketUnits, HasData
<1>5. 1 \in 1..Len(buf)
  BY <1>1
<1> HIDE DEF p
<1>6. CASE HandledAuth(s, buf, r) \/ HandledPart(s, buf, r) \/ HandledTer(s, buf, r)
  <2>1. r.recv_buffer = Drop(buf, 2) /\ p.type # "end"
    BY <1>6 DEF HandledAuth, HandledPart, HandledTer, Leads, p
  <2> QED
    BY <1>4, <2>1
<1>7. CASE HandledIPTerm(s, buf, r)
  <2>1. r.recv_buffer = Drop(buf, 2) /\ p.type # "end"
    BY <1>7 DEF HandledIPTerm, TookTerminal, Leads, p
  <2> QED
    BY <1>4, <2>1
<1>8. CASE HandledDumb(s, buf, r)
  <2>1. PICK gone \in 1..Len(buf) : r.recv_buffer = Drop(buf, gone)
    BY <1>8, Zenon DEF HandledDumb, TookTerminal, Leads
  <2> QED
    BY <2>1
<1>9. CASE HandledEnd(s, buf, r)
  BY <1>5, <1>9 DEF HandledEnd, Leads
<1> QED
  BY <1>6, <1>7, <1>8, <1>9 DEF Handled

LEMMA ServerDoes ==
  ASSUME NEW P, Typed(P), Shape, Lists, ServerNext
  PROVE  Rests \/ \E c \in Conn : Reads(c) \/ Writes(c) \/ Settles(c) \/ Removes(c)
<1>1. CASE Select \/ Accept
  BY <1>1 DEF Select, Accept, netVars, Rests
<1>2. ASSUME NEW c \in Conn, ReadPacket(c)
      PROVE  Reads(c)
  <2> DEFINE U == UnitsOf(P[c])
             buf == Received(c)
  <2>1. /\ Receive(c) /\ ~RecvFails(c) /\ HoldsPacket(buf) /\ Dispatch(c, buf)
        /\ UNCHANGED <<wire, s2c, status>>
    BY <1>2 DEF ReadPacket, Receive
  <2>2. PICK r : ClientOK(r) /\ Update(c, r) /\ Handled(sess[c], buf, r)
    BY <2>1, DispatchDoes DEF Shape
  <2>3. sess'[c] = r /\ Others(c)
    BY <2>2, Updated DEF Others
  <2>4. buf \in Seq(U) /\ buf # <<>> /\ \A p \in P[c] : PacketOK(p)
    BY <2>1, ReceivedTyped DEF Typed
  <2>5. PICK k \in 1..Len(buf) : r.recv_buffer = Drop(buf, k)
    <3> HIDE DEF buf
    <3> QED
      BY <2>1, <2>2, <2>4, HandledTakes
  <2>6. sock'[c] = Drop(sock[c], Taken(c)) /\ Taken(c) \in 0..Len(sock[c])
    BY <2>1, ReceiveTyped, ReceivedTyped
  <2>7. Stream(c)' = Drop(buf, k) \o (Drop(sock[c], Taken(c)) \o wire[c])
    BY <2>1, <2>3, <2>5, <2>6, Zenon DEF Stream
  <2>8. Stream(c) = SubSeq(buf, 1, k) \o (Drop(buf, k) \o (Drop(sock[c], Taken(c)) \o wire[c]))
    <3> DEFINE held == sess[c].recv_buffer
               here == sock[c]
               coming == wire[c]
               n == Taken(c)
    <3>1. /\ held \in Seq(U) /\ here \in Seq(U) /\ coming \in Seq(U)
          /\ n \in 0..Len(here)
      BY <2>6 DEF Typed, SessionTyped
    <3>2. buf = held \o SubSeq(here, 1, n)
      BY DEF Received
    <3>3. k \in 0..Len(buf)
      BY <2>4, LenProperties
    <3> HIDE DEF held, here, coming, n, U, buf
    <3>4. k \in 0..Len(held \o SubSeq(here, 1, n))
      BY <3>2, <3>3
    <3>5. CutAt(held, here, coming, n, k)
      BY <3>1, <3>4, ReadCut
    <3>6. held \o (here \o coming) = SubSeq(buf, 1, k) \o (Drop(buf, k) \o (Drop(here, n) \o coming))
      BY <3>2, <3>5, Zenon DEF CutAt
    <3>7. Stream(c) = held \o (here \o coming) /\ Drop(here, n) = Drop(sock[c], Taken(c))
          /\ coming = wire[c]
      BY Zenon DEF Stream, held, here, coming, n
    <3> QED
      BY <3>6, <3>7, Zenon
  <2>9. Stream(c) = SubSeq(buf, 1, k) \o Stream(c)'
    BY <2>7, <2>8, Zenon
  <2>10. TakesFront(c, k)
    BY <2>3, <2>5, <2>9 DEF TakesFront
  <2>11. /\ Others(c) /\ HoldsPacket(Received(c)) /\ Received(c) # <<>>
         /\ Handled(sess[c], Received(c), sess'[c]) /\ ClientOK(sess'[c])
    <3> HIDE DEF U
    <3> QED
      BY <2>1, <2>2, <2>3, <2>4
  <2>12. s2c' = s2c /\ status' = status
    BY <2>1
  <2>13. Apart(c)
    BY <2>1, ReceiveTyped DEF Apart
  <2> QED
    BY <2>10, <2>11, <2>12, <2>13, Zenon DEF Reads
<1>3. ASSUME NEW c \in Conn, Without(c), Apart(c), c \in Held, UNCHANGED <<backlog, dbVars, s2c>>
      PROVE  Removes(c)
  <2>1. Held' = Held \ {c} /\ sess'[c] = NewClient /\ Others(c)
    BY <1>3, WithoutLists DEF Others
  <2>2. c \notin Serving'
    BY <1>3, <2>1 DEF Serving, Lists
  <2>3. c \in Serving
    BY <1>3 DEF Serving
  <2> QED
    BY <1>3, <2>1, <2>2, <2>3 DEF Removes
<1>4. ASSUME NEW c \in Conn, ReadRefused(c) \/ ReadBroken(c) \/ WriteFails(c)
      PROVE  Removes(c)
  <2>1. Without(c) /\ UNCHANGED <<backlog, dbVars, s2c>>
    BY <1>4 DEF ReadRefused, ReadBroken, WriteFails, RemoveCurrent, Receive, netVars
  <2>2. c \in ready \/ c \in todo
    BY <1>4 DEF ReadRefused, ReadBroken, WriteFails, Receive, Visiting, IsNext
  <2>3. Apart(c)
    <3>1. CASE WriteFails(c)
      BY <3>1 DEF WriteFails, netVars, Apart
    <3>2. CASE ~WriteFails(c)
      <4>1. Receive(c) /\ wire' = wire
        BY <1>4, <3>2 DEF ReadRefused, ReadBroken, Receive
      <4> QED
        BY <4>1, ReceiveTyped DEF Apart
    <3> QED
      BY <3>1, <3>2
  <2> QED
    BY <1>3, <2>1, <2>2, <2>3 DEF Lists
<1>5. ASSUME NEW c \in Conn, OnWildPointer(c) \/ TailThrows(c)
      PROVE  Rests
  BY <1>5 DEF OnWildPointer, TailThrows, Receive, netVars, Rests
<1>6. ASSUME NEW c \in Conn, Write(c)
      PROVE  Rests \/ Writes(c)
  <2> DEFINE q == sess[c].send_buffer
             r == [sess[c] EXCEPT !.send_buffer = Tail(q)]
  <2>1. UNCHANGED <<dbVars, status, session_set, sock, wire>>
    BY <1>6 DEF Write
  <2>2. CASE q = <<>>
    BY <1>6, <2>1, <2>2 DEF Write, Rests
  <2>3. CASE q # <<>>
    <3>1. /\ sess' = [sess EXCEPT ![c] = r]
          /\ IF peer[c] = "open"
               THEN s2c' = [s2c EXCEPT ![c] = Append(s2c[c], Head(q))] /\ peer' = peer
               ELSE s2c' = s2c /\ peer' = [peer EXCEPT ![c] = "reset"]
      BY <1>6, <2>3 DEF Write
    <3>2. IsClient(sess[c])
      BY DEF Shape, ClientOK
    <3>3. /\ IsClient(r) /\ r.state = sess[c].state /\ r.send_buffer = Tail(q)
          /\ r.recv_buffer = sess[c].recv_buffer
          /\ SameDevice(sess[c], r) /\ SameCount(sess[c], r) /\ SameScreens(sess[c], r)
      BY <3>2, SetSend
    <3>9. r.ethnum = sess[c].ethnum
      BY <3>2, SetPorts, Zenon
    <3> HIDE DEF r
    <3>4. ClientOK(r)
      BY <3>3 DEF ClientOK, Shape, SameScreens
    <3>5. sess'[c] = r /\ Others(c)
      BY <3>1, <3>4, Updated DEF Update, Others
    <3>6. s2c = [d \in Conn |-> s2c[d]] /\ peer = [d \in Conn |-> peer[d]]
      BY DEF Typed
    <3>7. CASE peer[c] = "open"
      <4>1. s2c' = [s2c EXCEPT ![c] = Append(s2c[c], Head(q))]
        BY <3>1, <3>7
      <4>2. s2c'[c] = Append(s2c[c], Head(q)) /\ \A d \in Conn : d # c => s2c'[d] = s2c[d]
        BY <3>6, <4>1, Zenon
      <4> QED
        BY <2>1, <2>3, <3>3, <3>5, <3>9, <4>2 DEF Writes
    <3>8. CASE peer[c] # "open"
      <4>1. s2c' = s2c /\ peer' = [peer EXCEPT ![c] = "reset"]
        BY <3>1, <3>8
      <4>2. peer'[c] = "reset"
        BY <3>6, <4>1, Zenon
      <4> QED
        BY <2>1, <2>3, <3>3, <3>5, <3>9, <4>1, <4>2 DEF Writes
    <3> QED
      BY <3>7, <3>8
  <2> QED
    BY <2>2, <2>3
<1>7. ASSUME NEW c \in Conn, TailStep(c)
      PROVE  Settles(c)
  <2>1. /\ OnAcceptance(c) \/ (sess[c].is_scr /\ OnScreens(c))
        /\ UNCHANGED <<s2c, sock, wire, status>>
    BY <1>7 DEF TailStep, netVars
  <2>2. PICK r : /\ ClientOK(r) /\ Update(c, r)
                 /\ Greeted(sess[c], r) \/ TookScreens(sess[c], r)
    BY <2>1, TailDoes DEF Shape
  <2>3. sess'[c] = r /\ Others(c)
    BY <2>2, Updated DEF Others
  <2> QED
    BY <2>1, <2>2, <2>3 DEF Settles
<1> QED
  <2>1. CASE Select \/ Accept
    BY <1>1, <2>1
  <2>2. CASE ~(Select \/ Accept)
    <3>1. PICK c \in Conn : \/ ReadPacket(c) \/ ReadRefused(c) \/ ReadBroken(c)
                            \/ OnWildPointer(c) \/ Write(c) \/ WriteFails(c)
                            \/ TailStep(c) \/ TailThrows(c)
      BY <2>2, Zenon DEF ServerNext
    <3> QED
      BY <1>2, <1>4, <1>5, <1>6, <1>7, <3>1, Zenon
  <2> QED
    BY <2>1, <2>2

-----------------------------------------------------------------------------
(* The order is kept by what the server does.                              *)

(* A list of terminals is of T, and no terminal has the number 0. *)
Describes(T, p) == p.type = "ter" => p.ttys \subseteq T /\ 0 \notin p.ttys

LEMMA UnitKeysTyped ==
  ASSUME NEW P, \A p \in P : PacketOK(p), NEW x \in Seq(UnitsOf(P))
  PROVE  /\ UnitKeys(x) \in KeySeq /\ Len(UnitKeys(x)) = Len(x)
         /\ \A i \in 1..Len(x) : UnitKeys(x)[i] = UnitKey(x[i])
<1>1. ASSUME NEW i \in 1..Len(x) PROVE UnitKey(x[i]) \in SUBSET Nat
  <2>1. x[i] \in UnitsOf(P)
    BY ElementOfSeq
  <2>2. PacketOK(x[i].pkt)
    BY <2>1 DEF UnitsOf
  <2> QED
    BY <2>2 DEF UnitKey, PacketOK, TtyTypes
<1>2. Len(x) \in Nat
  BY LenProperties
<1> QED
  BY <1>1, <1>2 DEF UnitKeys, KeySeq

LEMMA AskKeysTyped ==
  ASSUME NEW q \in Seq(Requests)
  PROVE  /\ AskKeys(q) \in KeySeq /\ Len(AskKeys(q)) = Len(q)
         /\ \A i \in 1..Len(q) : AskKeys(q)[i] = AskKey(q[i])
<1>1. ASSUME NEW i \in 1..Len(q) PROVE AskKey(q[i]) \in SUBSET Nat
  <2>1. q[i] \in Requests
    BY ElementOfSeq
  <2> QED
    BY <2>1 DEF AskKey, Requests
<1>2. Len(q) \in Nat
  BY LenProperties
<1> QED
  BY <1>1, <1>2 DEF AskKeys, KeySeq

(* Requests without a key. *)
LEMMA NoKeys ==
  ASSUME NEW q \in Seq(Requests), \A i \in 1..Len(q) : q[i].type \notin {"ipterm", "auth"}
  PROVE  AskKeys(q) \in KeySeq /\ All(AskKeys(q)) = {} /\ Rising(AskKeys(q))
<1>1. \A i \in 1..Len(q) : AskKeys(q)[i] = {}
  BY AskKeysTyped DEF AskKey
<1>2. AskKeys(q) \in KeySeq /\ Len(AskKeys(q)) = Len(q)
  BY AskKeysTyped
<1> QED
  BY <1>1, <1>2 DEF All, Rising, Before

LEMMA NoKeysOf ==
  /\ AskKeys(<<>>) \in KeySeq /\ All(AskKeys(<<>>)) = {} /\ Rising(AskKeys(<<>>))
  /\ \A q \in {<<Request("sys")>>, <<Request("end")>>} :
       AskKeys(q) \in KeySeq /\ All(AskKeys(q)) = {} /\ Rising(AskKeys(q))
  /\ \A q \in Seq([type : EarlyTypes, no : Nat]) :
       AskKeys(q) \in KeySeq /\ All(AskKeys(q)) = {} /\ Rising(AskKeys(q))
  /\ LET a == AskKeys(<<Request("auth")>>)
     IN  a \in KeySeq /\ All(a) = {0} /\ Rising(a)
<1>1. AskKeys(<<>>) \in KeySeq /\ All(AskKeys(<<>>)) = {} /\ Rising(AskKeys(<<>>))
  <2>1. AskKeys(<<>>) = <<>>
    BY DEF AskKeys
  <2> QED
    BY <2>1, RisingOne
<1>2. ASSUME NEW t \in {"sys", "end"}
      PROVE  LET q == <<Request(t)>> IN AskKeys(q) \in KeySeq /\ All(AskKeys(q)) = {} /\ Rising(AskKeys(q))
  <2> DEFINE q == <<Request(t)>>
  <2>1. q \in Seq(Requests) /\ Len(q) = 1 /\ q[1] = Request(t)
    BY SmallRequests
  <2>2. \A i \in 1..Len(q) : q[i].type \notin {"ipterm", "auth"}
    BY <2>1 DEF Request
  <2> HIDE DEF q
  <2>3. AskKeys(q) \in KeySeq /\ All(AskKeys(q)) = {} /\ Rising(AskKeys(q))
    BY <2>1, <2>2, NoKeys
  <2> QED
    BY <2>3 DEF q
<1>3. ASSUME NEW q \in Seq([type : EarlyTypes, no : Nat])
      PROVE  AskKeys(q) \in KeySeq /\ All(AskKeys(q)) = {} /\ Rising(AskKeys(q))
  <2>1. \A i \in 1..Len(q) : q[i].type \notin {"ipterm", "auth"}
    <3> SUFFICES ASSUME NEW i \in 1..Len(q) PROVE q[i].type \notin {"ipterm", "auth"}
      OBVIOUS
    <3>1. q[i] \in [type : EarlyTypes, no : Nat]
      BY ElementOfSeq
    <3> QED
      BY <3>1 DEF EarlyTypes
  <2>2. q \in Seq(Requests)
    BY SmallRequests
  <2> QED
    BY <2>1, <2>2, NoKeys
<1>4. AskKeys(<<Request("auth")>>) = <<{0}>>
  BY DEF AskKeys, AskKey, Request
<1>5. <<{0}>> \in KeySeq /\ All(<<{0}>>) = {0} /\ Rising(<<{0}>>)
  <2>1. {0} \in SUBSET Nat
    OBVIOUS
  <2> QED
    BY <2>1, RisingOne
<1> QED
  BY <1>1, <1>2, <1>3, <1>4, <1>5

(* The terminals are asked about in the order of their numbers. *)
LEMMA TtyRequestsRise ==
  ASSUME Dumb = {}, NEW ttys \in SUBSET Nat, IsFiniteSet(ttys)
  PROVE  LET a == AskKeys(TtyRequests(ttys))
         IN  a \in KeySeq /\ All(a) \subseteq ttys /\ Rising(a)
<1> DEFINE q == TtyRequests(ttys)
           s == Sorted(ttys)
           e == [i \in 1..Len(s) |-> RequestOf("ipterm", s[i])]
<1>1. /\ Len(s) \in Nat /\ s \in [1..Len(s) -> ttys] /\ InOrder(s)
  BY SortedOrders
<1>2. q = e
  <2>1. ttys \cap Dumb = {} /\ ttys \ Dumb = ttys
    OBVIOUS
  <2>2. Len(Sorted({})) = 0
    <3>1. {} \in SUBSET Nat /\ IsFiniteSet({}) /\ Cardinality({}) = 0
      BY FS_EmptySet
    <3> QED
      BY <3>1, SortedOrders
  <2>3. [i \in 1..0 |-> RequestOf("dumbterm", Sorted({})[i])] = <<>>
    OBVIOUS
  <2>4. q = <<>> \o e
    BY <2>1, <2>2, <2>3 DEF TtyRequests
  <2>5. e \in Seq({e[i] : i \in 1..Len(s)})
    <3> HIDE DEF s
    <3> QED
      BY <1>1
  <2> HIDE DEF e
  <2> QED
    BY <2>4, <2>5, ConcatEmptySeq
<1>3. q \in Seq(Requests)
  BY TtyRequestsTyped
<1>4. Len(q) = Len(s) /\ \A i \in 1..Len(s) : q[i].type = "ipterm" /\ q[i].no = s[i]
  BY <1>1, <1>2 DEF RequestOf
<1> HIDE DEF q, s, e
<1>5. AskKeys(q) \in KeySeq /\ Len(AskKeys(q)) = Len(s) /\ \A i \in 1..Len(s) : AskKeys(q)[i] = {s[i]}
  BY <1>3, <1>4, AskKeysTyped DEF AskKey
<1>6. All(AskKeys(q)) \subseteq ttys
  BY <1>1, <1>5 DEF All
<1>7. Rising(AskKeys(q))
  BY <1>1, <1>5 DEF Rising, Before, InOrder
<1> QED
  BY <1>5, <1>6, <1>7 DEF q

Late == {"WaitIPTermInfo", "WaitScrInfo", "End"}

(* The keys K that are still to come, given how far the session is: none   *)
(* twice, and later only terminals of T behind the current one.            *)
Fits(s, K, T) ==
  /\ s.state = "Acceptance" => K = {}
  /\ s.state = "WaitAuth" => K \subseteq {0}
  /\ s.state \in EarlyStates \cup {"WaitTermInfo"} => K = {}
  /\ s.state \in Late => Before({s.current_tty}, K) /\ K \subseteq T
  /\ s.state \notin Late => s.current_tty = 0

(* A session s with the stream x and the requests b on their way. *)
Keyed(s, x, b, T) ==
  LET a == UnitKeys(x)
      e == AskKeys(b)
      d == AskKeys(s.send_buffer)
  IN  Ascend(a, e, d) /\ Fits(s, Reach(a, e, d), T)

Ordered(c, T) == Keyed(sess[c], Stream(c), s2c[c], T)

LEMMA FitsLess ==
  ASSUME NEW s, NEW K, NEW T, Fits(s, K, T), NEW r, r.state = s.state,
         r.current_tty = s.current_tty, NEW L, L \subseteq K
  PROVE  Fits(r, L, T)
BY DEF Fits, Before

LEMMA KeysAfter ==
  ASSUME NEW P, \A p \in P : PacketOK(p), NEW f \in Seq(UnitsOf(P)), NEW y \in Seq(UnitsOf(P)),
         NEW b, NEW d, Ascend(UnitKeys(f \o y), b, d)
  PROVE  /\ Ascend(UnitKeys(y), b, d)
         /\ Reach(UnitKeys(y), b, d) \subseteq Reach(UnitKeys(f \o y), b, d)
         /\ f # <<>> => /\ UnitKey(f[1]) \subseteq Reach(UnitKeys(f \o y), b, d)
                        /\ Before(UnitKey(f[1]), Reach(UnitKeys(y), b, d))
<1> DEFINE h == UnitKeys(f)
           a == UnitKeys(y)
           z == UnitKeys(f \o y)
<1>1. /\ h \in KeySeq /\ a \in KeySeq /\ Len(h) = Len(f)
      /\ \A i \in 1..Len(f) : h[i] = UnitKey(f[i])
  BY UnitKeysTyped
<1>2. z = h \o a
  BY KeysJoin
<1>3. Ascend(z, b, d)
  OBVIOUS
<1>4. f # <<>> => 1 \in 1..Len(f)
  BY EmptySeq, LenProperties
<1>5. f # <<>> => UnitKey(f[1]) \subseteq All(h)
  <2> SUFFICES ASSUME f # <<>> PROVE UnitKey(f[1]) \subseteq All(h)
    OBVIOUS
  <2>1. 1 \in 1..Len(h) /\ h[1] = UnitKey(f[1])
    BY <1>1, <1>4
  <2> QED
    BY <2>1 DEF All
<1> HIDE DEF h, a, z
<1>6. Ascend(h \o a, b, d)
  BY <1>2, <1>3
<1>7. /\ Ascend(a, b, d) /\ Reach(h \o a, b, d) = All(h) \cup Reach(a, b, d)
      /\ Before(All(h), Reach(a, b, d))
  BY <1>1, <1>6, AscendRest
<1>8. /\ Ascend(a, b, d) /\ Reach(a, b, d) \subseteq Reach(z, b, d)
      /\ f # <<>> => UnitKey(f[1]) \subseteq Reach(z, b, d) /\ Before(UnitKey(f[1]), Reach(a, b, d))
  BY <1>2, <1>5, <1>7 DEF Before
<1> QED
  BY <1>8 DEF a, z

LEMMA KeysQueued ==
  ASSUME NEW a \in KeySeq, NEW b \in KeySeq, NEW q \in Seq(Requests), NEW e \in Seq(Requests),
         Ascend(a, b, AskKeys(q)), Rising(AskKeys(e)),
         Before(Reach(a, b, AskKeys(q)), All(AskKeys(e)))
  PROVE  /\ Ascend(a, b, AskKeys(q \o e))
         /\ Reach(a, b, AskKeys(q \o e)) = Reach(a, b, AskKeys(q)) \cup All(AskKeys(e))
<1>1. AskKeys(q \o e) = AskKeys(q) \o AskKeys(e)
  BY KeysJoin
<1>2. AskKeys(q) \in KeySeq /\ AskKeys(e) \in KeySeq
  BY AskKeysTyped
<1> DEFINE d == AskKeys(q)
           v == AskKeys(e)
<1>3. d \in KeySeq /\ v \in KeySeq /\ Ascend(a, b, d) /\ Rising(v) /\ Before(Reach(a, b, d), All(v))
  BY <1>2
<1> HIDE DEF d, v
<1>4. Ascend(a, b, d \o v) /\ Reach(a, b, d \o v) = Reach(a, b, d) \cup All(v)
  BY <1>3, AscendAsked
<1> QED
  BY <1>1, <1>4 DEF d, v

(* A handler takes the first key, and what it asks for is behind the rest. *)
LEMMA HandledOrder ==
  ASSUME Dumb = {}, NEW P, \A p \in P : PacketOK(p), NEW T, \A p \in P : Describes(T, p),
         NEW s, SessionTyped(s, P),
         NEW buf \in Seq(UnitsOf(P)), buf # <<>>, HoldsPacket(buf), NEW r, Handled(s, buf, r),
         NEW k \in 1..Len(buf), NEW y \in Seq(UnitsOf(P)), NEW b \in KeySeq,
         Ascend(UnitKeys(SubSeq(buf, 1, k) \o y), b, AskKeys(s.send_buffer)),
         Fits(s, Reach(UnitKeys(SubSeq(buf, 1, k) \o y), b, AskKeys(s.send_buffer)), T)
  PROVE  /\ Ascend(UnitKeys(y), b, AskKeys(r.send_buffer))
         /\ Fits(r, Reach(UnitKeys(y), b, AskKeys(r.send_buffer)), T)
         /\ HandledIPTerm(s, buf, r) => First(buf).tty \in T /\ s.current_tty < First(buf).tty
<1> DEFINE f == SubSeq(buf, 1, k)
           p == First(buf)
           q == s.send_buffer
           a == UnitKeys(y)
           d == AskKeys(q)
           J == Reach(UnitKeys(f \o y), b, d)
           K == Reach(a, b, d)
           L == Reach(a, b, AskKeys(r.send_buffer))
<1>1. p \in P /\ PacketOK(p) /\ Describes(T, p) /\ Head(buf) = buf[1] /\ Head(buf).part = "head"
  BY FirstTyped DEF HoldsPacket
<1>2. q \in Seq(Requests) /\ d \in KeySeq /\ a \in KeySeq
  BY AskKeysTyped, UnitKeysTyped DEF SessionTyped
<1>3. f \in Seq(UnitsOf(P)) /\ f # <<>> /\ f[1] = buf[1]
  <2>1. k \in 0..Len(buf) /\ 1 \in 1..k /\ k # 0
    BY LenProperties
  <2>2. f \in Seq(UnitsOf(P)) /\ Len(f) = k /\ f[1] = buf[1]
    BY <2>1, FrontProperties
  <2>3. f # <<>>
    BY <2>1, <2>2, EmptySeq
  <2> QED
    BY <2>2, <2>3
<1>4. UnitKey(f[1]) = IF p.type = "ipterm" THEN {p.tty}
                      ELSE IF p.type \in {"auth", "version"} THEN {0} ELSE {}
  BY <1>1, <1>3 DEF UnitKey, First
<1>5. Ascend(UnitKeys(f \o y), b, d) /\ Fits(s, J, T)
  OBVIOUS
<1> HIDE DEF f
<1>6. /\ Ascend(a, b, d) /\ K \subseteq J
      /\ UnitKey(f[1]) \subseteq J /\ Before(UnitKey(f[1]), K)
  BY <1>3, <1>5, KeysAfter
<1>7. K \subseteq Nat
  BY <1>2 DEF Reach, All, KeySeq
<1> HIDE DEF p, q, J
<1>8. ASSUME NEW st, NEW rest, NEW e \in Seq(Requests), Leads(s, r, st, rest, e),
             Rising(AskKeys(e)), Before(K, All(AskKeys(e)))
      PROVE  r.state = st /\ Ascend(a, b, AskKeys(r.send_buffer)) /\ L = K \cup All(AskKeys(e))
  <2>1. r.state = st /\ r.send_buffer = q \o e
    BY <1>8 DEF Leads, q
  <2>2. Ascend(a, b, AskKeys(q \o e)) /\ Reach(a, b, AskKeys(q \o e)) = K \cup All(AskKeys(e))
    <3> HIDE DEF a
    <3> QED
      BY <1>2, <1>6, <1>8, KeysQueued
  <2> QED
    BY <2>1, <2>2
<1> HIDE DEF a, d, K, L
<1>9. ASSUME NEW st, NEW rest, NEW e \in Seq(Requests), Leads(s, r, st, rest, e),
             Rising(AskKeys(e)), All(AskKeys(e)) = {}
      PROVE  r.state = st /\ Ascend(a, b, AskKeys(r.send_buffer)) /\ L = K
  <2>1. Before(K, All(AskKeys(e)))
    BY <1>9 DEF Before
  <2> QED
    BY <1>8, <1>9, <2>1
<1>10. CASE HandledAuth(s, buf, r)
  <2>1. /\ s.state = "WaitAuth" /\ p.type = "auth"
        /\ Leads(s, r, "WaitSysInfo", Drop(buf, 2), <<Request("sys")>>)
        /\ r.current_tty = s.current_tty
    BY <1>10 DEF HandledAuth, SameScreens, p
  <2>2. r.state = "WaitSysInfo" /\ Ascend(a, b, AskKeys(r.send_buffer)) /\ L = K
    BY <1>9, <2>1, SmallRequests, NoKeysOf
  <2>3. J \subseteq {0} /\ s.current_tty = 0
    BY <1>5, <2>1 DEF Fits, Late
  <2>4. K = {}
    <3>1. UnitKey(f[1]) = {0}
      BY <1>4, <2>1
    <3>2. \A x \in K : x = 0 /\ 0 < x
      BY <1>6, <2>3, <3>1 DEF Before
    <3> QED
      BY <3>2
  <2>5. Fits(r, L, T)
    BY <2>1, <2>2, <2>3, <2>4 DEF Fits, EarlyStates, Late
  <2>6. ~HandledIPTerm(s, buf, r)
    BY <2>1 DEF HandledIPTerm
  <2> QED
    BY <2>2, <2>5, <2>6 DEF a, L
<1>11. CASE HandledPart(s, buf, r)
  <2>1. /\ s.state \in EarlyStates /\ r.current_tty = s.current_tty
    BY <1>11 DEF HandledPart, SameScreens
  <2>2. PICK st \in EarlyNext, e \in Seq([type : EarlyTypes, no : Nat]) :
          Leads(s, r, st, Drop(buf, 2), e)
    BY <1>11 DEF HandledPart
  <2>3. r.state = st /\ Ascend(a, b, AskKeys(r.send_buffer)) /\ L = K
    BY <1>9, <2>2, SmallRequests, NoKeysOf
  <2>4. K = {} /\ s.current_tty = 0
    BY <1>5, <1>6, <2>1 DEF Fits, EarlyStates, Late
  <2>5. Fits(r, L, T)
    BY <2>1, <2>3, <2>4 DEF Fits, EarlyNext, EarlyStates, Late
  <2>6. ~HandledIPTerm(s, buf, r)
    BY <2>1 DEF HandledIPTerm, EarlyStates
  <2> QED
    BY <2>3, <2>5, <2>6 DEF a, L
<1>12. CASE HandledTer(s, buf, r)
  <2> DEFINE e == TtyRequests(p.ttys)
  <2>1. /\ s.state = "WaitTermInfo" /\ p.type = "ter" /\ r.current_tty = s.current_tty
        /\ Leads(s, r, "WaitIPTermInfo", Drop(buf, 2), e)
    BY <1>12 DEF HandledTer, SameScreens, p
  <2>2. p.ttys \in SUBSET Nat /\ IsFiniteSet(p.ttys) /\ p.ttys \subseteq T /\ 0 \notin p.ttys
    BY <1>1, <2>1 DEF PacketOK, Describes
  <2>3. e \in Seq(Requests) /\ All(AskKeys(e)) \subseteq p.ttys /\ Rising(AskKeys(e))
    BY <2>2, TtyRequestsTyped, TtyRequestsRise
  <2>4. K = {} /\ s.current_tty = 0
    BY <1>5, <1>6, <2>1 DEF Fits, Late
  <2> HIDE DEF e
  <2>5. Before(K, All(AskKeys(e)))
    BY <2>4 DEF Before
  <2>6. r.state = "WaitIPTermInfo" /\ Ascend(a, b, AskKeys(r.send_buffer)) /\ L = All(AskKeys(e))
    BY <1>8, <2>1, <2>3, <2>4, <2>5
  <2>7. Before({0}, L) /\ L \subseteq T
    BY <2>2, <2>3, <2>6 DEF Before
  <2>8. Fits(r, L, T)
    BY <2>1, <2>4, <2>6, <2>7 DEF Fits, EarlyStates, Late
  <2>9. ~HandledIPTerm(s, buf, r)
    BY <2>1 DEF HandledIPTerm
  <2> QED
    BY <2>6, <2>8, <2>9 DEF a, L
<1>13. CASE HandledIPTerm(s, buf, r)
  <2>1. /\ s.state = "WaitIPTermInfo" /\ p.type = "ipterm"
        /\ TookTerminal(s, r, p.tty, p.screen_num, Drop(buf, 2))
    BY <1>13 DEF HandledIPTerm, p
  <2>2. \/ Leads(s, r, "WaitScrInfo", Drop(buf, 2), <<>>)
        \/ Leads(s, r, "End", Drop(buf, 2), <<Request("end")>>)
        \/ Leads(s, r, "WaitIPTermInfo", Drop(buf, 2), <<>>)
    BY <2>1 DEF TookTerminal
  <2>3. r.state \in Late /\ Ascend(a, b, AskKeys(r.send_buffer)) /\ L = K
    BY <1>9, <2>2, SmallRequests, NoKeysOf DEF Late
  <2>4. UnitKey(f[1]) = {p.tty}
    BY <1>4, <2>1
  <2>5. Before({s.current_tty}, J) /\ J \subseteq T
    BY <1>5, <2>1 DEF Fits, Late
  <2>6. r.current_tty = p.tty
    BY <2>1 DEF TookTerminal
  <2>7. Before({p.tty}, K) /\ K \subseteq T
    BY <1>6, <2>4, <2>5
  <2>8. Fits(r, L, T)
    BY <2>3, <2>6, <2>7 DEF Fits, EarlyStates, Late
  <2>9. p.tty \in T /\ s.current_tty < p.tty
    BY <1>6, <2>4, <2>5 DEF Before
  <2> QED
    BY <2>3, <2>8, <2>9 DEF a, L, p
<1>14. CASE HandledDumb(s, buf, r)
  BY <1>14, NoneDumb
<1>15. CASE HandledEnd(s, buf, r)
  <2>1. s.state = "End" /\ Leads(s, r, "End", Drop(buf, 1), <<>>) /\ r.current_tty = s.current_tty
    BY <1>15 DEF HandledEnd, SameScreens
  <2>2. r.state = "End" /\ Ascend(a, b, AskKeys(r.send_buffer)) /\ L = K
    BY <1>9, <2>1, SmallRequests, NoKeysOf
  <2>3. Fits(r, L, T)
    BY <1>5, <1>6, <2>1, <2>2, FitsLess
  <2>4. ~HandledIPTerm(s, buf, r)
    BY <2>1 DEF HandledIPTerm
  <2> QED
    BY <2>2, <2>3, <2>4 DEF a, L
<1> QED
  BY <1>10, <1>11, <1>12, <1>13, <1>14, <1>15 DEF Handled

LEMMA RestOrder ==
  ASSUME NEW P, \A p \in P : PacketOK(p), NEW x, NEW y \in Seq(UnitsOf(P)),
         RestOf(UnitsOf(P), x, y), NEW b, NEW d, Ascend(UnitKeys(x), b, d)
  PROVE  Ascend(UnitKeys(y), b, d) /\ Reach(UnitKeys(y), b, d) \subseteq Reach(UnitKeys(x), b, d)
<1>1. PICK f \in Seq(UnitsOf(P)) : x = f \o y
  BY DEF RestOf
<1>2. Ascend(UnitKeys(f \o y), b, d)
  BY <1>1
<1>3. Ascend(UnitKeys(y), b, d) /\ Reach(UnitKeys(y), b, d) \subseteq Reach(UnitKeys(f \o y), b, d)
  BY <1>2, KeysAfter
<1> QED
  BY <1>1, <1>3

LEMMA TailOrder ==
  ASSUME NEW P, \A p \in P : PacketOK(p), NEW T, NEW s, SessionTyped(s, P),
         NEW r, Greeted(s, r) \/ TookScreens(s, r),
         NEW x, NEW y \in Seq(UnitsOf(P)), RestOf(UnitsOf(P), x, y), NEW b \in KeySeq,
         Ascend(UnitKeys(x), b, AskKeys(s.send_buffer)),
         Fits(s, Reach(UnitKeys(x), b, AskKeys(s.send_buffer)), T)
  PROVE  /\ Ascend(UnitKeys(y), b, AskKeys(r.send_buffer))
         /\ Fits(r, Reach(UnitKeys(y), b, AskKeys(r.send_buffer)), T)
<1> DEFINE q == s.send_buffer
           a == UnitKeys(y)
           J == Reach(UnitKeys(x), b, AskKeys(q))
           K == Reach(a, b, AskKeys(q))
           L == Reach(a, b, AskKeys(r.send_buffer))
<1>1. q \in Seq(Requests) /\ a \in KeySeq
  BY UnitKeysTyped DEF SessionTyped
<1>2. Ascend(a, b, AskKeys(q)) /\ K \subseteq J
  BY RestOrder
<1>3. Fits(s, J, T)
  OBVIOUS
<1> HIDE DEF q, a, J
<1>4. ASSUME NEW st, NEW rest, NEW e \in Seq(Requests), Leads(s, r, st, rest, e),
             Rising(AskKeys(e)), K = {} \/ All(AskKeys(e)) = {}
      PROVE  r.state = st /\ Ascend(a, b, AskKeys(r.send_buffer)) /\ L = K \cup All(AskKeys(e))
  <2>1. r.state = st /\ r.send_buffer = q \o e
    BY <1>4 DEF Leads, q
  <2>2. Before(K, All(AskKeys(e)))
    BY <1>4 DEF Before
  <2> HIDE DEF K
  <2>3. Ascend(a, b, AskKeys(q \o e)) /\ Reach(a, b, AskKeys(q \o e)) = K \cup All(AskKeys(e))
    BY <1>1, <1>2, <1>4, <2>2, KeysQueued DEF K
  <2> QED
    BY <2>1, <2>3
<1> HIDE DEF K, L
<1>5. CASE Greeted(s, r)
  <2>1. /\ s.state = "Acceptance" /\ r.current_tty = s.current_tty
        /\ Leads(s, r, "WaitAuth", s.recv_buffer, <<Request("auth")>>)
    BY <1>5 DEF Greeted, SameScreens
  <2>2. K = {} /\ s.current_tty = 0
    BY <1>2, <1>3, <2>1 DEF Fits, Late
  <2>3. r.state = "WaitAuth" /\ Ascend(a, b, AskKeys(r.send_buffer)) /\ L = {0}
    BY <1>4, <2>1, <2>2, SmallRequests, NoKeysOf
  <2>4. Fits(r, L, T)
    BY <2>1, <2>2, <2>3 DEF Fits, EarlyStates, Late
  <2> QED
    BY <2>3, <2>4 DEF a, L
<1>6. CASE TookScreens(s, r)
  <2>1. /\ s.state = "WaitScrInfo" /\ r.current_tty = s.current_tty
        /\ \E rest : \/ Leads(s, r, "End", rest, <<Request("end")>>)
                     \/ Leads(s, r, "WaitIPTermInfo", rest, <<>>)
    BY <1>6, Zenon DEF TookScreens
  <2>2. r.state \in {"End", "WaitIPTermInfo"} /\ Ascend(a, b, AskKeys(r.send_buffer)) /\ L = K
    BY <1>4, <2>1, SmallRequests, NoKeysOf
  <2>3. Fits(r, L, T)
    BY <1>2, <1>3, <2>1, <2>2 DEF Fits, EarlyStates, Late, Before
  <2> QED
    BY <2>2, <2>3 DEF a, L
<1> QED
  BY <1>5, <1>6

LEMMA HeadAndTail ==
  ASSUME NEW S, NEW q \in Seq(S), q # <<>>
  PROVE  Head(q) \in S /\ Tail(q) \in Seq(S) /\ q = <<Head(q)>> \o Tail(q)
<1>1. Head(q) \in S /\ Tail(q) \in Seq(S) /\ Tail(q) = SubSeq(q, 2, Len(q))
  BY HeadTailProperties, TailIsSubSeq
<1>2. 1 \in 1..Len(q) /\ Len(q) \in 1..Len(q) /\ Head(q) = q[1]
  BY EmptySeq, LenProperties
<1>3. SubSeq(q, 1, Len(q)) = <<q[1]>> \o SubSeq(q, 1 + 1, Len(q))
  BY <1>2, SubSeqRecursiveFirst
<1>4. SubSeq(q, 1, Len(q)) = q
  BY SubSeqFull
<1> QED
  BY <1>1, <1>2, <1>3, <1>4

(* The oldest queued request leaves the queue, for the client or for good. *)
LEMMA SentOrder ==
  ASSUME NEW a, NEW b \in Seq(Requests), NEW q \in Seq(Requests), q # <<>>,
         Ascend(a, AskKeys(b), AskKeys(q)), NEW e, e \in {b, Append(b, Head(q))}
  PROVE  /\ Ascend(a, AskKeys(e), AskKeys(Tail(q)))
         /\ Reach(a, AskKeys(e), AskKeys(Tail(q))) \subseteq Reach(a, AskKeys(b), AskKeys(q))
<1> DEFINE h == Head(q)
           t == Tail(q)
           o == <<h>>
<1>1. h \in Requests /\ t \in Seq(Requests) /\ q = o \o t /\ o \in Seq(Requests)
  <2>1. h \in Requests /\ t \in Seq(Requests) /\ q = o \o t
    BY HeadAndTail
  <2> HIDE DEF h, t
  <2>2. o \in Seq(Requests)
    BY <2>1
  <2> QED
    BY <2>1, <2>2
<1>2. Append(b, h) = b \o o
  BY <1>1, AppendIsConcat
<1>3. AskKeys(o) = <<AskKey(h)>> /\ AskKey(h) \in SUBSET Nat
  <2> HIDE DEF h
  <2>1. AskKeys(o) = <<AskKey(h)>>
    BY DEF AskKeys
  <2>2. AskKey(h) \in SUBSET Nat
    BY <1>1 DEF AskKey, Requests
  <2> QED
    BY <2>1, <2>2
<1> HIDE DEF h, t, o
<1>4. AskKeys(q) = AskKeys(o) \o AskKeys(t) /\ AskKeys(b \o o) = AskKeys(b) \o AskKeys(o)
  BY <1>1, KeysJoin
<1> DEFINE K == AskKey(h)
           d == AskKeys(t)
           v == AskKeys(b)
           w == AskKeys(e)
<1>5. d \in KeySeq /\ v \in KeySeq /\ K \in SUBSET Nat
  BY <1>1, <1>3, AskKeysTyped
<1>6. Ascend(a, v, <<K>> \o d) /\ w \in {v, v \o <<K>>}
  BY <1>1, <1>2, <1>3, <1>4 DEF h
<1>7. AskKeys(q) = <<K>> \o d
  BY <1>3, <1>4
<1> HIDE DEF K, d, v, w
<1>8. Ascend(a, w, d) /\ Reach(a, w, d) \subseteq Reach(a, v, <<K>> \o d)
  BY <1>5, <1>6, AscendWritten
<1> QED
  BY <1>7, <1>8 DEF d, v, w, t

(* While the server is up, its steps keep the order in every stream.       *)
LEMMA ServerOrder ==
  ASSUME Dumb = {}, NEW P, NEW T, Typed(P), Shape, Lists,
         \A c \in Conn : \A p \in P[c] : Describes(T[c], p),
         ServerNext, status' = "up", NEW c \in Conn,
         peer[c] = "idle" => c \notin Serving,
         c \in Serving \/ peer[c] = "idle" => Ordered(c, T[c]),
         c \in Serving' \/ peer'[c] = "idle"
  PROVE  Keyed(sess'[c], Stream(c)', s2c'[c], T[c])
<1> DEFINE x == Stream(c)
           y == Stream(c)'
           s == sess[c]
           r == sess'[c]
           b == s2c[c]
           q == s.send_buffer
           U == UnitsOf(P[c])
<1>1. /\ \A p \in P[c] : PacketOK(p) /\ Describes(T[c], p)
      /\ SessionTyped(s, P[c]) /\ b \in Seq(Requests) /\ q \in Seq(Requests)
  BY DEF Typed, SessionTyped
<1>2. RestOf(U, x, y) /\ (peer'[c] = "idle" => peer[c] = "idle")
  BY ServerStream
<1>3. Typed(P)'
  BY ServerTyped
<1>4. y \in Seq(U)
  BY <1>3, NextStreamTyped
<1>5. Serving' \subseteq Serving
  BY ServerLists
<1>6. Ordered(c, T[c])
  BY <1>2, <1>5
<1> DEFINE a == UnitKeys(x)
           z == UnitKeys(y)
<1>7. Ascend(a, AskKeys(b), AskKeys(q)) /\ Fits(s, Reach(a, AskKeys(b), AskKeys(q)), T[c])
  BY <1>6 DEF Ordered, Keyed
<1>8. ASSUME Ascend(z, AskKeys(s2c'[c]), AskKeys(r.send_buffer)),
             Fits(r, Reach(z, AskKeys(s2c'[c]), AskKeys(r.send_buffer)), T[c])
      PROVE  Keyed(sess'[c], Stream(c)', s2c'[c], T[c])
  BY <1>8 DEF Keyed
<1>9. AskKeys(b) \in KeySeq
  BY <1>1, AskKeysTyped
<1> HIDE DEF x, y, s, r, b, q, U, a, z
<1>10. /\ Ascend(z, AskKeys(b), AskKeys(q))
       /\ Reach(z, AskKeys(b), AskKeys(q)) \subseteq Reach(a, AskKeys(b), AskKeys(q))
  BY <1>1, <1>2, <1>4, <1>7, RestOrder DEF a, z, U
<1>11. CASE r = s /\ s2c'[c] = b
  <2>1. Fits(s, Reach(z, AskKeys(b), AskKeys(q)), T[c])
    BY <1>7, <1>10, FitsLess
  <2> QED
    BY <1>8, <1>10, <1>11, <2>1 DEF q
<1>12. CASE Reads(c)
  <2> DEFINE buf == Received(c)
  <2>1. PICK k : TakesFront(c, k)
    BY <1>12 DEF Reads
  <2>2. /\ k \in 1..Len(buf) /\ x = SubSeq(buf, 1, k) \o y
    BY <2>1 DEF TakesFront, x, y
  <2>3. /\ s2c'[c] = b /\ HoldsPacket(buf) /\ buf # <<>> /\ Handled(s, buf, r)
    BY <1>12 DEF Reads, b, s, r
  <2>4. buf \in Seq(U)
    <3>1. Received(c) \in Seq(UnitsOf(P[c]))
      BY ReceivedTyped
    <3> QED
      BY <3>1 DEF U
  <2> HIDE DEF buf
  <2>5. /\ Ascend(UnitKeys(SubSeq(buf, 1, k) \o y), AskKeys(b), AskKeys(q))
        /\ Fits(s, Reach(UnitKeys(SubSeq(buf, 1, k) \o y), AskKeys(b), AskKeys(q)), T[c])
    BY <1>7, <2>2 DEF a
  <2>6. Ascend(z, AskKeys(b), AskKeys(r.send_buffer)) /\ Fits(r, Reach(z, AskKeys(b), AskKeys(r.send_buffer)), T[c])
    BY <1>1, <1>4, <1>9, <2>2, <2>3, <2>4, <2>5, HandledOrder DEF q, z, U
  <2> QED
    BY <1>8, <2>3, <2>6
<1>13. CASE Writes(c)
  <2>1. /\ q # <<>> /\ r.send_buffer = Tail(q) /\ r.state = s.state /\ r.current_tty = s.current_tty
        /\ s2c'[c] \in {b, Append(b, Head(q))}
    BY <1>13 DEF Writes, SameScreens, q, r, s, b
  <2>2. /\ Ascend(z, AskKeys(s2c'[c]), AskKeys(Tail(q)))
        /\ Reach(z, AskKeys(s2c'[c]), AskKeys(Tail(q))) \subseteq Reach(z, AskKeys(b), AskKeys(q))
    BY <1>1, <1>10, <2>1, SentOrder
  <2>3. Fits(r, Reach(z, AskKeys(s2c'[c]), AskKeys(Tail(q))), T[c])
    BY <1>7, <1>10, <2>1, <2>2, FitsLess
  <2> QED
    BY <1>8, <2>1, <2>2, <2>3
<1>14. CASE Settles(c)
  <2>1. s2c'[c] = b /\ (Greeted(s, r) \/ TookScreens(s, r))
    BY <1>14 DEF Settles, b, s, r
  <2>2. Ascend(z, AskKeys(b), AskKeys(r.send_buffer)) /\ Fits(r, Reach(z, AskKeys(b), AskKeys(r.send_buffer)), T[c])
    BY <1>1, <1>2, <1>4, <1>7, <1>9, <2>1, TailOrder DEF a, q, z, U
  <2> QED
    BY <1>8, <2>1, <2>2
<1>15. CASE Removes(c)
  BY <1>2, <1>15 DEF Removes
<1>16. CASE Rests
  <2>1. r = s /\ s2c'[c] = b
    BY <1>16 DEF Rests, r, s, b
  <2> QED
    BY <1>11, <2>1
<1>17. ASSUME NEW d \in Conn, d # c, Reads(d) \/ Writes(d) \/ Settles(d) \/ Removes(d)
       PROVE  Keyed(sess'[c], Stream(c)', s2c'[c], T[c])
  <2>1. r = s /\ s2c'[c] = b
    BY <1>17 DEF Reads, Writes, Settles, Removes, Others, r, s, b
  <2> QED
    BY <1>11, <2>1
<1> QED
  BY <1>12, <1>13, <1>14, <1>15, <1>16, <1>17, ServerDoes

-----------------------------------------------------------------------------
(* The screens in the table.  The numbers of a terminal's screens differ   *)
(* because they are taken one after the other, and because a session comes *)
(* to each terminal once: what is in the table of it is of earlier ones.   *)

ToldApart(q) == \A i, j \in 1..Len(q) :
  i # j /\ q[i].dev = q[j].dev /\ q[i].tty = q[j].tty => q[i].scrno # q[j].scrno

Past(s) == s.state \notin {"Acceptance", "WaitAuth"}

Below(q, s) == Past(s) => \A i \in 1..Len(q) : q[i].dev = s.devid =>
  q[i].tty <= s.current_tty /\ (s.state = "WaitScrInfo" => q[i].tty < s.current_tty)

LEMMA ModOnce ==
  ASSUME NEW a \in Nat, a < 2 * ScrMod
  PROVE  a % ScrMod = IF a < ScrMod THEN a ELSE a - ScrMod
<1>1. ScrMod \in Nat \ {0}
  BY ScrModAssumption
<1> QED
  BY <1>1, SMT

LEMMA NumbersDiffer ==
  ASSUME NEW g \in 0..(ScrMod - 1), NEW i \in 1..ScrMod, NEW j \in 1..ScrMod, i # j
  PROVE  (g + i - 1) % ScrMod # (g + j - 1) % ScrMod
<1> DEFINE a == g + i - 1
           b == g + j - 1
<1>1. ScrMod \in Nat \ {0}
  BY ScrModAssumption
<1>2. a \in Nat /\ a < 2 * ScrMod /\ b \in Nat /\ b < 2 * ScrMod
  BY <1>1
<1>3. a # b /\ (a < b => b - a < ScrMod) /\ (b < a => a - b < ScrMod)
  BY <1>1
<1> HIDE DEF a, b
<1>4. a % ScrMod = IF a < ScrMod THEN a ELSE a - ScrMod
  BY <1>2, ModOnce
<1>5. b % ScrMod = IF b < ScrMod THEN b ELSE b - ScrMod
  BY <1>2, ModOnce
<1>6. a % ScrMod # b % ScrMod
  BY <1>1, <1>2, <1>3, <1>4, <1>5
<1> QED
  BY <1>6 DEF a, b

(* The rows OnRecvScreenInfoPackets inserts. *)
Numbered(dev, tty, n, whose, g, i) ==
  [dev |-> dev, tty |-> tty, scrno |-> (g + i - 1) % ScrMod, of |-> whose[i]]

Adds(n, q, r) == /\ Len(r) = Len(q) + n /\ Len(q) \in Nat
                 /\ \A i \in 1..Len(q) : r[i] = q[i]
                 /\ \A k \in 1..(Len(q) + n) : k \in 1..Len(q) \/ \E i \in 1..n : k = Len(q) + i

LEMMA NewScreens ==
  ASSUME NEW I, RowsTyped(I), NEW dev, NEW tty, NEW n \in Nat, NEW whose,
         whose \in [1..n -> Nat], OnRecvScreenInfoPackets(dev, tty, whose)
  PROVE  /\ Adds(n, scrinfo, scrinfo')
         /\ \A i \in 1..n : scrinfo'[Len(scrinfo) + i] = Numbered(dev, tty, n, whose, global_number, i)
<1> DEFINE Row(i) == [dev |-> dev, tty |-> tty, scrno |-> (global_number + i - 1) % ScrMod,
                      of |-> whose[i]]
           rows == [i \in 1..n |-> Row(i)]
           V == {Row(i) : i \in 1..n} \cup ScrRows(I)
           m == Len(scrinfo)
<1>1. Len(whose) = n
  OBVIOUS
<1>2. scrinfo' = scrinfo \o rows
  BY <1>1 DEF OnRecvScreenInfoPackets
<1>3. scrinfo \in Seq(V) /\ m \in Nat
  <2>1. scrinfo \in Seq(ScrRows(I)) /\ ScrRows(I) \subseteq V
    BY DEF RowsTyped
  <2> HIDE DEF V
  <2> QED
    BY <2>1, SeqMonotonic, LenProperties
<1> HIDE DEF Row
<1>4. rows \in Seq(V) /\ Len(rows) = n /\ \A i \in 1..n : rows[i] = Row(i)
  OBVIOUS
<1> HIDE DEF rows, V, m
<1>5. /\ Len(scrinfo \o rows) = m + n
      /\ \A i \in 1..(m + n) : (scrinfo \o rows)[i] = IF i <= m THEN scrinfo[i] ELSE rows[i - m]
  BY <1>3, <1>4, ConcatProperties DEF m
<1>6. \A i \in 1..m : i \in 1..(m + n) /\ i <= m
  BY <1>3
<1>8. \A k \in 1..(m + n) : k \in 1..m \/ \E i \in 1..n : k = m + i
  <2> SUFFICES ASSUME NEW k \in 1..(m + n), k \notin 1..m PROVE \E i \in 1..n : k = m + i
    OBVIOUS
  <2>1. k - m \in 1..n /\ k = m + (k - m)
    BY <1>3
  <2> QED
    BY <2>1
<1>9. \A i \in 1..m : scrinfo'[i] = scrinfo[i]
  BY <1>2, <1>5, <1>6
<1>10. ASSUME NEW i \in 1..n PROVE scrinfo'[m + i] = Row(i)
  <2>1. m \in Nat /\ i \in Nat /\ i >= 1 /\ i <= n
    BY <1>3
  <2> DEFINE k == m + i
  <2>2. k \in 1..(m + n) /\ ~(k <= m) /\ k - m = i
    BY <2>1, SMT
  <2> HIDE DEF k
  <2>3. (scrinfo \o rows)[k] = rows[k - m]
    BY <1>5, <2>2
  <2> QED
    BY <1>2, <1>4, <2>2, <2>3 DEF k
<1>11. Adds(n, scrinfo, scrinfo')
  BY <1>2, <1>3, <1>5, <1>8, <1>9 DEF m, Adds
<1> QED
  BY <1>10, <1>11 DEF m, Row, Numbered

LEMMA ScreensToldApart ==
  ASSUME NEW I, RowsTyped(I), NEW dev, NEW tty \in Nat, NEW n \in Nat, n <= ScrMod, NEW whose,
         whose \in [1..n -> Nat], OnRecvScreenInfoPackets(dev, tty, whose),
         ToldApart(scrinfo),
         \A i \in 1..Len(scrinfo) : scrinfo[i].dev = dev => scrinfo[i].tty < tty
  PROVE  ToldApart(scrinfo')
<1> DEFINE m == Len(scrinfo)
           q == scrinfo
           r == scrinfo'
<1>1. Adds(n, q, r) /\ \A i \in 1..n : r[m + i] = Numbered(dev, tty, n, whose, global_number, i)
  <2>1. /\ Adds(n, scrinfo, scrinfo')
        /\ \A i \in 1..n : scrinfo'[Len(scrinfo) + i] = Numbered(dev, tty, n, whose, global_number, i)
    BY NewScreens, Zenon
  <2> QED
    BY <2>1
<1>2. Len(r) = m + n /\ m \in Nat /\ \A i \in 1..m : r[i] = q[i]
  BY <1>1 DEF Adds
<1>7. \A k \in 1..(m + n) : k \in 1..m \/ \E i \in 1..n : k = m + i
  BY <1>1 DEF Adds
<1>4. /\ \A i \in 1..m : q[i].dev = dev => q[i].tty # tty
      /\ \A i, j \in 1..m : i # j /\ q[i].dev = q[j].dev /\ q[i].tty = q[j].tty => q[i].scrno # q[j].scrno
  <2>1. \A i \in 1..m : q[i].dev = dev => q[i].tty # tty
    <3> SUFFICES ASSUME NEW i \in 1..m, q[i].dev = dev, q[i].tty = tty PROVE FALSE
      OBVIOUS
    <3>1. tty < tty
      OBVIOUS
    <3> QED
      BY <3>1
  <2> QED
    BY <2>1 DEF ToldApart
<1>5. ScrMod \in Nat /\ global_number \in 0..(ScrMod - 1)
  BY ScrModAssumption DEF RowsTyped
<1> HIDE DEF q, r, m
<1>3. \A i \in 1..n : /\ r[m + i].dev = dev /\ r[m + i].tty = tty
                      /\ r[m + i].scrno = (global_number + i - 1) % ScrMod
  <2>1. \A i : LET u == Numbered(dev, tty, n, whose, global_number, i)
               IN  u.dev = dev /\ u.tty = tty /\ u.scrno = (global_number + i - 1) % ScrMod
    BY DEF Numbered
  <2> QED
    BY <1>1, <2>1, Zenon
<1>6. ASSUME NEW i \in 1..(m + n), NEW j \in 1..(m + n), i # j,
             r[i].dev = r[j].dev, r[i].tty = r[j].tty
      PROVE  r[i].scrno # r[j].scrno
  <2>1. CASE i \in 1..m /\ j \in 1..m
    BY <1>2, <1>4, <1>6, <2>1
  <2>2. CASE i \in 1..m /\ \E l \in 1..n : j = m + l
    BY <1>2, <1>3, <1>4, <1>6, <2>2
  <2>3. CASE j \in 1..m /\ \E k \in 1..n : i = m + k
    BY <1>2, <1>3, <1>4, <1>6, <2>3
  <2>4. CASE (\E k \in 1..n : i = m + k) /\ \E l \in 1..n : j = m + l
    <3>1. PICK k \in 1..n : i = m + k
      BY <2>4
    <3>2. PICK l \in 1..n : j = m + l
      BY <2>4
    <3>3. k \in 1..ScrMod /\ l \in 1..ScrMod /\ k # l
      BY <1>5, <1>6, <3>1, <3>2
    <3>4. (global_number + k - 1) % ScrMod # (global_number + l - 1) % ScrMod
      BY <1>5, <3>3, NumbersDiffer
    <3> QED
      BY <1>3, <3>1, <3>2, <3>4
  <2> QED
    BY <1>7, <2>1, <2>2, <2>3, <2>4
<1> QED
  BY <1>2, <1>6 DEF ToldApart, r

(* A terminal has no more screens than there are numbers. *)
Scarce(s) == s.state = "WaitScrInfo" => s.scr_num <= ScrMod

LEMMA RowTtys == ASSUME NEW I, RowsTyped(I), NEW i \in 1..Len(scrinfo) PROVE scrinfo[i].tty \in Nat
<1>1. scrinfo[i] \in ScrRows(I)
  BY ElementOfSeq DEF RowsTyped
<1> QED
  BY <1>1 DEF ScrRows

(* A handler empties the table or leaves it, and goes on to a later terminal. *)
LEMMA HandledNumbers ==
  ASSUME Dumb = {}, NEW I, RowsTyped(I), NEW P, \A p \in P : PacketOK(p),
         \A p \in P : p.type = "ipterm" => p.screen_num <= ScrMod,
         NEW s, SessionTyped(s, P), NEW buf \in Seq(UnitsOf(P)), buf # <<>>, NEW r,
         Handled(s, buf, r), HandledIPTerm(s, buf, r) => s.current_tty < First(buf).tty,
         Below(scrinfo, s)
  PROVE  /\ scrinfo' \in {scrinfo, <<>>}
         /\ Below(scrinfo', r) /\ Scarce(r)
<1> DEFINE p == First(buf)
<1>1. p \in P /\ PacketOK(p)
  BY FirstTyped
<1>2. \A i \in 1..Len(scrinfo) : scrinfo[i].tty \in Nat
  BY RowTtys
<1>3. s.current_tty \in Nat
  BY DEF SessionTyped
<1> HIDE DEF p
<1>4. ASSUME scrinfo' = scrinfo, Past(s), s.state # "WaitScrInfo", r.state # "WaitScrInfo",
             r.devid = s.devid, r.current_tty = s.current_tty
      PROVE  Below(scrinfo', r) /\ Scarce(r)
  BY <1>4 DEF Below, Scarce
<1>5. CASE HandledAuth(s, buf, r)
  <2>1. scrinfo' = <<>> /\ r.state = "WaitSysInfo"
    BY <1>5 DEF HandledAuth, OnRecvAuthResponse, Leads
  <2>2. Len(<<>>) = 0
    OBVIOUS
  <2> QED
    BY <2>1, <2>2 DEF Below, Scarce
<1>6. CASE HandledPart(s, buf, r)
  <2>1. /\ s.state \in EarlyStates /\ r.state \in EarlyNext
        /\ r.devid = s.devid /\ r.current_tty = s.current_tty
    BY <1>6 DEF HandledPart, SameDevice, SameScreens, Leads
  <2>2. scrinfo' = scrinfo
    BY <1>6 DEF HandledPart, OnRecvPart
  <2> QED
    BY <1>4, <2>1, <2>2 DEF Past, EarlyStates, EarlyNext
<1>7. CASE HandledTer(s, buf, r)
  <2>1. /\ s.state = "WaitTermInfo" /\ r.state = "WaitIPTermInfo" /\ scrinfo' = scrinfo
        /\ r.devid = s.devid /\ r.current_tty = s.current_tty
    BY <1>7 DEF HandledTer, SameDevice, SameScreens, Leads, OnRecvTermResponse
  <2> QED
    BY <1>4, <2>1 DEF Past
<1>8. CASE HandledIPTerm(s, buf, r)
  <2>1. /\ s.state = "WaitIPTermInfo" /\ p.type = "ipterm" /\ s.current_tty < p.tty
        /\ TookTerminal(s, r, p.tty, p.screen_num, Drop(buf, 2))
    BY <1>8 DEF HandledIPTerm, p
  <2>2. scrinfo' = scrinfo /\ r.devid = s.devid /\ r.current_tty = p.tty /\ r.scr_num = p.screen_num
    BY <2>1 DEF TookTerminal, OnRecvIPTermResponse, SameDevice
  <2>3. p.tty \in Nat /\ p.screen_num <= ScrMod
    BY <1>1, <2>1 DEF PacketOK, TtyTypes
  <2>4. \A i \in 1..Len(scrinfo) : scrinfo[i].dev = s.devid => scrinfo[i].tty <= s.current_tty
    BY <2>1 DEF Below, Past
  <2>5. \A i \in 1..Len(scrinfo) : scrinfo[i].dev = s.devid => scrinfo[i].tty < p.tty /\ scrinfo[i].tty <= p.tty
    BY <1>2, <1>3, <2>1, <2>3, <2>4
  <2> QED
    BY <2>2, <2>3, <2>5 DEF Below, Scarce
<1>9. CASE HandledDumb(s, buf, r)
  BY <1>9, NoneDumb
<1>10. CASE HandledEnd(s, buf, r)
  <2>1. /\ s.state = "End" /\ r.state = "End" /\ scrinfo' = scrinfo
        /\ r.devid = s.devid /\ r.current_tty = s.current_tty
    BY <1>10 DEF HandledEnd, SameDevice, SameScreens, Leads, UpdateTTYConnected
  <2> QED
    BY <1>4, <2>1 DEF Past
<1>11. scrinfo' \in {scrinfo, <<>>}
  BY DEF Handled, HandledAuth, HandledPart, HandledTer, HandledIPTerm, HandledDumb, HandledEnd,
         TookTerminal, OnRecvAuthResponse, OnRecvPart, OnRecvTermResponse, OnRecvIPTermResponse,
         UpdateTTYConnected
<1> QED
  BY <1>5, <1>6, <1>7, <1>8, <1>9, <1>10, <1>11 DEF Handled

(* The screens are numbered and go behind those of earlier terminals. *)
LEMMA TookNumbers ==
  ASSUME NEW I, RowsTyped(I), NEW P, \A p \in P : PacketOK(p), NEW s, SessionTyped(s, P),
         NEW r, TookScreens(s, r), Below(scrinfo, s), Scarce(s), ToldApart(scrinfo)
  PROVE  /\ ToldApart(scrinfo') /\ Below(scrinfo', r) /\ Scarce(r)
         /\ \A t : t.devid # s.devid /\ Below(scrinfo, t) => Below(scrinfo', t)
<1> DEFINE dev == s.devid
           tty == s.current_tty
           n == s.scr_num
           q == scrinfo
           m == Len(q)
<1>1. /\ s.state = "WaitScrInfo" /\ r.devid = dev /\ r.current_tty = tty
      /\ r.state \in {"End", "WaitIPTermInfo"}
  BY DEF TookScreens, SameDevice, Leads
<1>2. PICK taken, gone :
        /\ OnRecvScreenInfoPackets(dev, tty, Decoded(s, taken))
        /\ \/ taken = s.scr_num /\ gone = s.scr_num /\ s.scr_num <= Len(s.recv_buffer)
           \/ taken = Len(s.recv_buffer) /\ gone = taken /\ ~(s.scr_num <= Len(s.recv_buffer))
           \/ GarbageHeader /\ gone \in (taken + 1)..Len(s.recv_buffer) /\ taken \in Nat
  BY Zenon DEF TookScreens
<1>3. n \in Nat /\ tty \in Nat /\ s.recv_buffer \in Seq(UnitsOf(P)) /\ Len(s.recv_buffer) \in Nat
  BY DEF SessionTyped
<1>4. Decoded(s, taken) \in [1..n -> Nat]
  <2>1. \A i \in 1..s.scr_num : i <= taken => i \in 1..Len(s.recv_buffer)
    BY <1>2, <1>3
  <2>2. \A i \in 1..Len(s.recv_buffer) :
          s.recv_buffer[i].part = "scr" => s.recv_buffer[i].pkt.tty \in Nat
    BY <1>3 DEF UnitsOf, PacketOK
  <2> QED
    BY <2>1, <2>2 DEF Decoded
<1>5. n <= ScrMod /\ \A i \in 1..m : q[i].dev = dev => q[i].tty < tty
  BY <1>1 DEF Scarce, Below, Past
<1> DEFINE whose == Decoded(s, taken)
<1>6. whose \in [1..n -> Nat] /\ OnRecvScreenInfoPackets(dev, tty, whose)
  BY <1>2, <1>4
<1> HIDE DEF whose, dev, tty, n
<1>7. ToldApart(scrinfo')
  BY <1>3, <1>5, <1>6, ScreensToldApart
<1>8. /\ Adds(n, scrinfo, scrinfo')
      /\ \A i \in 1..n : scrinfo'[Len(scrinfo) + i] = Numbered(dev, tty, n, whose, global_number, i)
  <2>1. /\ Adds(n, scrinfo, scrinfo')
        /\ \A i \in 1..n : scrinfo'[Len(scrinfo) + i] = Numbered(dev, tty, n, whose, global_number, i)
    BY <1>3, <1>6, NewScreens, Zenon
  <2> QED
    BY <2>1
<1>9. \A i : Numbered(dev, tty, n, whose, global_number, i).dev = dev
             /\ Numbered(dev, tty, n, whose, global_number, i).tty = tty
  BY DEF Numbered
<1>10. \A k \in 1..Len(scrinfo') : \/ k \in 1..Len(q) /\ scrinfo'[k] = q[k]
                                   \/ scrinfo'[k].dev = dev /\ scrinfo'[k].tty = tty
  <2> SUFFICES ASSUME NEW k \in 1..Len(scrinfo'), k \notin 1..Len(q)
               PROVE  scrinfo'[k].dev = dev /\ scrinfo'[k].tty = tty
    BY <1>8 DEF Adds
  <2>1. PICK i \in 1..n : k = Len(scrinfo) + i
    BY <1>8 DEF Adds
  <2> QED
    BY <1>8, <1>9, <2>1, Zenon
<1> HIDE DEF q
<1>11. \A k \in 1..Len(scrinfo') : scrinfo'[k].dev = dev => scrinfo'[k].tty <= tty
  <2>1. \A i \in 1..Len(q) : q[i].dev = dev => q[i].tty <= tty
    BY <1>1 DEF Below, Past, q, dev, tty
  <2>2. tty <= tty
    BY <1>3
  <2> QED
    BY <1>10, <2>1, <2>2
<1>12. Below(scrinfo', r) /\ Scarce(r)
  BY <1>1, <1>11 DEF Below, Scarce
<1>13. ASSUME NEW t, t.devid # dev, Below(q, t) PROVE Below(scrinfo', t)
  BY <1>10, <1>13 DEF Below
<1> QED
  BY <1>7, <1>12, <1>13 DEF q, dev

(* The terminal the server reads about is one there is, behind the current *)
(* one.                                                                    *)
LEMMA NextTerminal ==
  ASSUME Dumb = {}, NEW P, Typed(P), Typed(P)', NEW c \in Conn, NEW T,
         \A p \in P[c] : Describes(T, p), Reads(c), Ordered(c, T),
         HandledIPTerm(sess[c], Received(c), sess'[c])
  PROVE  First(Received(c)).tty \in T /\ sess[c].current_tty < First(Received(c)).tty
<1> DEFINE buf == Received(c)
           s == sess[c]
           r == sess'[c]
           b == s2c[c]
           q == s.send_buffer
           U == UnitsOf(P[c])
           y == Stream(c)'
<1>1. PICK k : TakesFront(c, k)
  BY DEF Reads
<1>2. /\ \A p \in P[c] : PacketOK(p) /\ Describes(T, p)
      /\ SessionTyped(s, P[c]) /\ b \in Seq(Requests) /\ q \in Seq(Requests)
  BY DEF Typed, SessionTyped
<1>3. buf \in Seq(U) /\ y \in Seq(U)
  <2>1. Received(c) \in Seq(UnitsOf(P[c]))
    BY ReceivedTyped
  <2> QED
    BY <2>1, NextStreamTyped
<1>4. k \in 1..Len(buf) /\ Stream(c) = SubSeq(buf, 1, k) \o y
  BY <1>1 DEF TakesFront
<1>5. HoldsPacket(buf) /\ buf # <<>> /\ Handled(s, buf, r) /\ HandledIPTerm(s, buf, r)
  BY DEF Reads
<1>6. AskKeys(b) \in KeySeq
  BY <1>2, AskKeysTyped
<1>7. Ascend(UnitKeys(Stream(c)), AskKeys(b), AskKeys(q))
      /\ Fits(s, Reach(UnitKeys(Stream(c)), AskKeys(b), AskKeys(q)), T)
  BY DEF Ordered, Keyed
<1> HIDE DEF buf, y, s, r, b, q
<1>8. /\ Ascend(UnitKeys(SubSeq(buf, 1, k) \o y), AskKeys(b), AskKeys(q))
      /\ Fits(s, Reach(UnitKeys(SubSeq(buf, 1, k) \o y), AskKeys(b), AskKeys(q)), T)
  BY <1>4, <1>7
<1>9. First(buf).tty \in T /\ s.current_tty < First(buf).tty
  BY <1>2, <1>3, <1>4, <1>5, <1>6, <1>8, HandledOrder DEF q
<1> QED
  BY <1>9 DEF s, buf

Numbering == /\ ToldApart(scrinfo)
             /\ \A c \in Conn : Below(scrinfo, sess[c]) /\ Scarce(sess[c])

LEMMA ServerNumbers ==
  ASSUME Dumb = {}, NEW P, NEW T, NEW D, Typed(P), Shape, Lists, RowsTyped(Ids(D)), Identified(D),
         \A c, d \in Conn : c # d => D[c] \cap D[d] = {},
         \A c \in Conn : \A p \in P[c] : /\ Describes(T[c], p)
                                         /\ p.type = "ipterm" => p.screen_num <= ScrMod,
         \A c \in Serving : Ordered(c, T[c]), Numbering, ServerNext
  PROVE  Numbering'
<1>1. Rests \/ \E c \in Conn : Reads(c) \/ Writes(c) \/ Settles(c) \/ Removes(c)
  BY ServerDoes
<1>2. ASSUME NEW c \in Conn, Others(c),
             Below(scrinfo', sess'[c]), Scarce(sess'[c]), ToldApart(scrinfo'),
             \A d \in Conn : d # c => Below(scrinfo', sess[d])
      PROVE  Numbering'
  <2>1. \A d \in Conn : Below(scrinfo', sess'[d]) /\ Scarce(sess'[d])
    BY <1>2, Zenon DEF Numbering, Others
  <2>2. ToldApart(scrinfo)' /\ \A d \in Conn : (Below(scrinfo, sess[d]) /\ Scarce(sess[d]))'
    BY <1>2, <2>1 DEF ToldApart, Below, Past, Scarce
  <2> QED
    BY <2>2 DEF Numbering
<1>3. /\ ToldApart(scrinfo) /\ \A d \in Conn : Below(scrinfo, sess[d]) /\ Scarce(sess[d])
      /\ \A c \in Conn : SessionTyped(sess[c], P[c]) /\ \A p \in P[c] : PacketOK(p)
  BY DEF Numbering, Typed
<1>4. CASE Rests
  <2>1. UNCHANGED <<sess, scrinfo>>
    BY <1>4 DEF Rests, dbVars
  <2> QED
    BY <2>1 DEF Numbering, ToldApart, Below, Past, Scarce
<1>5. ASSUME NEW c \in Conn, Reads(c) PROVE Numbering'
  <2> DEFINE s == sess[c]
             r == sess'[c]
             buf == Received(c)
             I == Ids(D)
  <2>1. Others(c) /\ buf # <<>> /\ Handled(s, buf, r)
    BY <1>5 DEF Reads
  <2>2. buf \in Seq(UnitsOf(P[c]))
    BY ReceivedTyped
  <2>3. Typed(P)'
    BY ServerTyped
  <2>4. ASSUME HandledIPTerm(s, buf, r) PROVE s.current_tty < First(buf).tty
    <3>1. s.state = "WaitIPTermInfo"
      BY <2>4 DEF HandledIPTerm
    <3>2. c \in Serving
      BY <3>1 DEF Lists, NewClient, Serving
    <3>3. Ordered(c, T[c])
      BY <3>2
    <3> QED
      BY <1>5, <2>3, <2>4, <3>3, NextTerminal
  <2>5. \A p \in P[c] : p.type = "ipterm" => p.screen_num <= ScrMod
    OBVIOUS
  <2>6. RowsTyped(I) /\ SessionTyped(s, P[c]) /\ (\A p \in P[c] : PacketOK(p)) /\ Below(scrinfo, s)
    BY <1>3
  <2> HIDE DEF s, r, buf, I
  <2>7. scrinfo' \in {scrinfo, <<>>} /\ Below(scrinfo', r) /\ Scarce(r)
    BY <2>1, <2>2, <2>4, <2>5, <2>6, HandledNumbers
  <2>8. ToldApart(<<>>) /\ \A d \in Conn : Below(<<>>, sess[d])
    <3>1. Len(<<>>) = 0
      OBVIOUS
    <3> QED
      BY <3>1 DEF ToldApart, Below
  <2> QED
    BY <1>2, <1>3, <2>1, <2>7, <2>8 DEF r
<1>6. ASSUME NEW c \in Conn, Writes(c) PROVE Numbering'
  <2>1. /\ Others(c) /\ scrinfo' = scrinfo /\ sess'[c].state = sess[c].state
        /\ sess'[c].devid = sess[c].devid /\ sess'[c].current_tty = sess[c].current_tty
        /\ sess'[c].scr_num = sess[c].scr_num
    BY <1>6 DEF Writes, dbVars, SameDevice, SameScreens
  <2>2. Below(scrinfo', sess'[c]) /\ Scarce(sess'[c])
    BY <1>3, <2>1 DEF Below, Past, Scarce
  <2> QED
    BY <1>2, <1>3, <2>1, <2>2
<1>7. ASSUME NEW c \in Conn, Settles(c) PROVE Numbering'
  <2> DEFINE s == sess[c]
             r == sess'[c]
  <2>1. Others(c) /\ (Greeted(s, r) \/ TookScreens(s, r))
    BY <1>7 DEF Settles
  <2>2. CASE Greeted(s, r)
    <3>1. scrinfo' = scrinfo /\ r.state = "WaitAuth"
      BY <2>2 DEF Greeted, Leads, dbVars
    <3> QED
      BY <1>2, <1>3, <2>1, <3>1 DEF Below, Past, Scarce
  <2>3. CASE TookScreens(s, r)
    <3>1. s.state = "WaitScrInfo"
      BY <2>3 DEF TookScreens
    <3>2. /\ ToldApart(scrinfo') /\ Below(scrinfo', r) /\ Scarce(r)
          /\ \A t : t.devid # s.devid /\ Below(scrinfo, t) => Below(scrinfo', t)
      BY <1>3, <2>3, TookNumbers
    <3>3. ASSUME NEW d \in Conn, d # c PROVE Below(scrinfo', sess[d])
      <4>1. CASE Past(sess[d])
        <5>1. sess[d].devid \in D[d] /\ s.devid \in D[c] /\ D[c] \cap D[d] = {}
          BY <3>1, <3>3, <4>1 DEF Identified, Past
        <5>2. sess[d].devid # s.devid
          BY <5>1
        <5> QED
          BY <1>3, <3>2, <5>2
      <4>2. CASE ~Past(sess[d])
        BY <4>2 DEF Below
      <4> QED
        BY <4>1, <4>2
    <3> QED
      BY <1>2, <2>1, <3>2, <3>3
  <2> QED
    BY <2>1, <2>2, <2>3
<1>8. ASSUME NEW c \in Conn, Removes(c) PROVE Numbering'
  <2>1. Others(c) /\ scrinfo' = scrinfo /\ sess'[c] = NewClient
    BY <1>8 DEF Removes, dbVars
  <2>2. Below(scrinfo', sess'[c]) /\ Scarce(sess'[c])
    BY <2>1 DEF Below, Past, Scarce, NewClient
  <2> QED
    BY <1>2, <1>3, <2>1, <2>2
<1> QED
  BY <1>1, <1>4, <1>5, <1>6, <1>7, <1>8

-----------------------------------------------------------------------------
(* What a client does to the order of a stream. *)

(* Of the newest keys some are lost. *)
LEMMA AscendLost ==
  ASSUME NEW a \in KeySeq, NEW h \in KeySeq, NEW b, NEW d, Ascend(a \o h, b, d)
  PROVE  Ascend(a, b, d) /\ Reach(a, b, d) \subseteq Reach(a \o h, b, d)
<1>1. All(a \o h) = All(a) \cup All(h) /\ Rising(a)
  BY RisingJoin DEF Ascend
<1> QED
  BY <1>1 DEF Ascend, Reach, Before

(* Only the head of a packet has a key. *)
LEMMA WholeKeys ==
  ASSUME NEW P, NEW p \in P, \A q \in P : PacketOK(q)
  PROVE  /\ UnitKeys(Whole(p)) \in KeySeq
         /\ All(UnitKeys(Whole(p))) \subseteq UnitKey(Unit("head", p))
         /\ Rising(UnitKeys(Whole(p)))
<1> DEFINE w == Whole(p)
           z == UnitKeys(w)
           n == PacketUnits(p)
<1>1. /\ w \in Seq(UnitsOf(P)) /\ n \in Nat /\ Len(w) = n /\ w[1] = Unit("head", p)
      /\ \A i \in 2..n : w[i] = Unit(IF i = 2 THEN "body" ELSE "scr", p)
  BY WholeUnits, ScreensAreNat
<1> HIDE DEF w, n
<1>2. z \in KeySeq /\ Len(z) = n /\ \A i \in 1..n : z[i] = UnitKey(w[i])
  BY <1>1, UnitKeysTyped
<1> HIDE DEF z
<1>3. ASSUME NEW i \in 1..n, i # 1 PROVE z[i] = {}
  <2>1. i \in 2..n
    BY <1>1, <1>3
  <2>2. w[i] = Unit("body", p) \/ w[i] = Unit("scr", p)
    BY <1>1, <2>1
  <2>3. w[i].part # "head"
    BY <2>2 DEF Unit
  <2> QED
    BY <1>2, <2>3 DEF UnitKey
<1>4. \A i \in 1..n : z[i] = {} \/ z[i] = UnitKey(Unit("head", p))
  BY <1>1, <1>2, <1>3
<1>5. Rising(z)
  <2> SUFFICES ASSUME NEW i \in 1..n, NEW j \in 1..n, i < j PROVE Before(z[i], z[j])
    BY <1>2 DEF Rising
  <2>1. j # 1
    BY <1>1
  <2> QED
    BY <1>3, <2>1 DEF Before
<1>6. All(z) \subseteq UnitKey(Unit("head", p))
  BY <1>2, <1>4 DEF All
<1> QED
  BY <1>2, <1>5, <1>6 DEF z, w

LEMMA AnsweredOrder ==
  ASSUME NEW P, \A q \in P : PacketOK(q), NEW x \in Seq(UnitsOf(P)), NEW p \in P,
         NEW b \in Seq(Requests), b # <<>>, UnitKey(Unit("head", p)) \subseteq AskKey(Head(b)),
         NEW d, Ascend(UnitKeys(x), AskKeys(b), d)
  PROVE  /\ Ascend(UnitKeys(x \o Whole(p)), AskKeys(Tail(b)), d)
         /\ Reach(UnitKeys(x \o Whole(p)), AskKeys(Tail(b)), d) \subseteq Reach(UnitKeys(x), AskKeys(b), d)
<1> DEFINE h == Head(b)
           t == Tail(b)
           o == <<h>>
           w == Whole(p)
<1>1. h \in Requests /\ t \in Seq(Requests) /\ b = o \o t /\ o \in Seq(Requests)
  <2>1. h \in Requests /\ t \in Seq(Requests) /\ b = o \o t
    BY HeadAndTail
  <2> HIDE DEF h, t
  <2>2. o \in Seq(Requests)
    BY <2>1
  <2> QED
    BY <2>1, <2>2
<1>2. /\ UnitKeys(w) \in KeySeq /\ All(UnitKeys(w)) \subseteq AskKey(h) /\ Rising(UnitKeys(w))
      /\ w \in Seq(UnitsOf(P))
  BY WholeKeys, WholeUnits
<1> HIDE DEF h, t, w
<1>3. AskKeys(o) = <<AskKey(h)>> /\ AskKey(h) \in SUBSET Nat
  <2>1. AskKeys(o) = <<AskKey(h)>>
    BY DEF AskKeys
  <2>2. AskKey(h) \in SUBSET Nat
    BY <1>1 DEF AskKey, Requests
  <2> QED
    BY <2>1, <2>2
<1> HIDE DEF o
<1>4. AskKeys(b) = AskKeys(o) \o AskKeys(t) /\ UnitKeys(x \o w) = UnitKeys(x) \o UnitKeys(w)
  <2>1. AskKeys(o \o t) = AskKeys(o) \o AskKeys(t)
    BY <1>1, KeysJoin
  <2>2. UnitKeys(x \o w) = UnitKeys(x) \o UnitKeys(w)
    BY <1>2, KeysJoin
  <2> QED
    BY <1>1, <2>1, <2>2
<1> DEFINE a == UnitKeys(x)
           e == AskKeys(t)
           K == AskKey(h)
           v == UnitKeys(w)
<1>5. a \in KeySeq /\ e \in KeySeq
  BY <1>1, UnitKeysTyped, AskKeysTyped
<1>6. /\ Ascend(a, <<K>> \o e, d) /\ AskKeys(b) = <<K>> \o e
      /\ v \in KeySeq /\ All(v) \subseteq K /\ Rising(v) /\ K \in SUBSET Nat
  BY <1>2, <1>3, <1>4
<1>7. UnitKeys(x \o w) = a \o v
  BY <1>4
<1> HIDE DEF a, e, K, v
<1>8. Ascend(a \o v, e, d) /\ Reach(a \o v, e, d) \subseteq Reach(a, <<K>> \o e, d)
  BY <1>5, <1>6, AscendAnswered
<1> QED
  BY <1>6, <1>7, <1>8 DEF a, e, t, w

LEMMA LostOrder ==
  ASSUME NEW P, \A q \in P : PacketOK(q), NEW x \in Seq(UnitsOf(P)), NEW lost \in Seq(UnitsOf(P)),
         NEW b, NEW d, Ascend(UnitKeys(x \o lost), b, d)
  PROVE  /\ Ascend(UnitKeys(x), b, d)
         /\ Reach(UnitKeys(x), b, d) \subseteq Reach(UnitKeys(x \o lost), b, d)
<1>1. UnitKeys(x) \in KeySeq /\ UnitKeys(lost) \in KeySeq
  BY UnitKeysTyped
<1>2. UnitKeys(x \o lost) = UnitKeys(x) \o UnitKeys(lost)
  BY KeysJoin
<1> QED
  BY <1>1, <1>2, AscendLost

=============================================================================
