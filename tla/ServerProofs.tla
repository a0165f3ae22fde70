---------------------------- MODULE ServerProofs -----------------------------
(***************************************************************************)
(* For every set of connections, way of arrival, capacity, choice of dumb  *)
(* terminals and outcome of the uninitialised reads: a session that        *)
(* select() reported readable, and that is still to be read in this pass,  *)
(* is owed nothing by the second loop (NoneOwed).  This module has what a  *)
(* step of the server preserves; SessionsProofs and CollectionProofs add   *)
(* the two environments.                                                   *)
(*                                                                         *)
(* NoneOwed is not inductive: nothing in it says that the second loop has  *)
(* reached every session it owed something before select() is called       *)
(* again.  TailCovers says that; and as the second loop goes by is_scr     *)
(* while the fsm goes by state, Shape says that the two agree.             *)
(***************************************************************************)
EXTENDS Server, TLAPS

-----------------------------------------------------------------------------
(* What decrypt_auth accepts, for every key, string, block and number.     *)

(* The exclusive or with the same key twice is the identity. *)
LEMMA XorTwice == ASSUME NEW a \in Bit, NEW k \in Bit
                  PROVE  Xor(Xor(a, k), k) = a
<1>1. (a = 0 \/ a = 1) /\ (k = 0 \/ k = 1)
  BY DEF Bit
<1> QED
  BY <1>1 DEF Xor

(* The exclusive or of two bits is a bit. *)
LEMMA XorInBit == ASSUME NEW a \in Bit, NEW k \in Bit
                  PROVE  Xor(a, k) \in Bit
<1>1. (a = 0 \/ a = 1) /\ (k = 0 \/ k = 1)
  BY DEF Bit
<1> QED
  BY <1>1 DEF Xor, Bit

(* The place in the key stays in the key. *)
LEMMA PlaceInKey == ASSUME NEW n \in Nat
                    PROVE  kSecret[n % Period] \in Bit
<1>1. n % Period \in 0..(Period - 1)
  BY CodecAssumption
<1> QED
  BY <1>1, CodecAssumption

(* Decrypting what was encrypted gives the block back. *)
LEMMA CryptedTwice ==
  ASSUME NEW r \in Nat, NEW s \in Seq(Bit)
  PROVE  Crypted(kSecret, r, Crypted(kSecret, r, s)) = s
<1> DEFINE once == Crypted(kSecret, r, s)
           Key(i) == kSecret[(r + i - 1) % Period]
<1>1. once = [i \in 1..Len(s) |-> Xor(s[i], Key(i))]
  BY DEF Crypted
<1>2. Len(s) \in Nat /\ once \in Seq(Bit) /\ Len(once) = Len(s)
  <2>1. Len(s) \in Nat
    OBVIOUS
  <2>2. ASSUME NEW i \in 1..Len(s)
        PROVE  Xor(s[i], Key(i)) \in Bit
    <3>1. s[i] \in Bit /\ r + i - 1 \in Nat
      BY <2>1
    <3>2. Key(i) \in Bit
      BY <3>1, PlaceInKey
    <3> QED
      BY <3>1, <3>2, XorInBit
  <2> QED
    BY <1>1, <2>1, <2>2
<1>3. ASSUME NEW i \in 1..Len(s)
      PROVE  Xor(once[i], Key(i)) = s[i]
  <2>1. s[i] \in Bit /\ r + i - 1 \in Nat
    BY <1>2
  <2>2. once[i] = Xor(s[i], Key(i))
    BY <1>1
  <2>3. Key(i) \in Bit
    BY <2>1, PlaceInKey
  <2> QED
    BY <2>1, <2>2, <2>3, XorTwice
<1>4. Crypted(kSecret, r, once) = [i \in 1..Len(s) |-> Xor(once[i], Key(i))]
  BY <1>2 DEF Crypted
<1>5. Crypted(kSecret, r, once) = [i \in 1..Len(s) |-> s[i]]
  BY <1>3, <1>4
<1> QED
  BY <1>5

(* decrypt_auth accepts what a device with the key and the agreed string   *)
(* has encrypted, whatever it reports in front of the string and whatever  *)
(* random number it has drawn.                                             *)
THEOREM RoundTrip ==
  ASSUME NEW r \in Nat, NEW data \in Seq(Bit)
  PROVE  Decrypts(r, Crypted(kSecret, r, data \o c_auth))
<1> DEFINE block == data \o c_auth
           sent == Crypted(kSecret, r, block)
<1>1. block \in Seq(Bit) /\ Len(block) = Len(data) + Len(c_auth)
  BY CodecAssumption
<1>2. Len(sent) = Len(block) /\ Len(data) \in Nat /\ Len(c_auth) \in Nat
  BY <1>1, CodecAssumption DEF Crypted
<1>3. Crypted(kSecret, r, sent) = block
  BY <1>1, CryptedTwice
<1>4. ASSUME NEW i \in 1..Len(sent), i - 1 > Len(sent) - Len(c_auth)
      PROVE  block[i] = c_auth[i - (Len(sent) - Len(c_auth))]
  BY <1>1, <1>2, <1>4, CodecAssumption
<1> QED
  BY <1>3, <1>4 DEF Decrypts

(* A device with the key whose block decrypt_auth accepts has sent the     *)
(* agreed string, but for its first character, which is not compared.      *)
THEOREM OnlyFirstUnchecked ==
  ASSUME NEW r \in Nat, NEW data \in Seq(Bit), NEW s \in Seq(Bit),
         Len(s) = Len(c_auth),
         Decrypts(r, Crypted(kSecret, r, data \o s))
  PROVE  \A i \in 2..Len(c_auth) : s[i] = c_auth[i]
<1> DEFINE block == data \o s
           sent == Crypted(kSecret, r, block)
<1>1. block \in Seq(Bit) /\ Len(block) = Len(data) + Len(c_auth)
  OBVIOUS
<1>2. Len(sent) = Len(block) /\ Len(data) \in Nat /\ Len(c_auth) \in Nat
  BY <1>1, CodecAssumption DEF Crypted
<1>3. Crypted(kSecret, r, sent) = block
  BY <1>1, CryptedTwice
<1>4. ASSUME NEW i \in 1..Len(sent), i - 1 > Len(sent) - Len(c_auth)
      PROVE  block[i] = c_auth[i - (Len(sent) - Len(c_auth))]
  BY <1>3, <1>4 DEF Decrypts
<1>5. ASSUME NEW i \in 2..Len(c_auth)
      PROVE  s[i] = c_auth[i]
  <2>1. /\ Len(data) + i \in 1..Len(sent)
        /\ (Len(data) + i) - 1 > Len(sent) - Len(c_auth)
        /\ (Len(data) + i) - (Len(sent) - Len(c_auth)) = i
    BY <1>1, <1>2
  <2>2. block[Len(data) + i] = s[i]
    BY <1>2
  <2> QED
    BY <1>4, <2>1, <2>2
<1> QED
  BY <1>5

-----------------------------------------------------------------------------
(* Clients, and what the second loop owes them.                            *)

Fields == {"state", "devid", "ethnum", "tty_connected", "tty_cnt", "scr_num",
           "is_scr", "current_tty", "recv_buffer", "send_buffer"}

IsClient(s) == s = [f \in Fields |-> s[f]]

(* is_scr is set exactly while the session waits for screens. *)
ClientOK(s) == IsClient(s) /\ (s.is_scr <=> s.state = "WaitScrInfo")

Shape == /\ sess = [c \in Conn |-> sess[c]]
         /\ \A c \in Conn : ClientOK(sess[c])

(* While the second loop runs, what it owes is still on its list. *)
TailCovers == phase = "tail" =>
  \A c \in Conn : c \in ToSet(session_set) /\ HasTail(sess[c]) => c \in todo

Owing == Shape /\ TailCovers /\ NoneOwed /\ ready \subseteq Conn

-----------------------------------------------------------------------------
(* A new client is well formed. *)
LEMMA NewClientOK == ClientOK(NewClient)
<1>1. IsClient(NewClient)
  BY Zenon DEF NewClient, IsClient, Fields
<1>2. NewClient.state = "Acceptance" /\ NewClient.is_scr = FALSE
  BY DEF NewClient
<1> QED  BY <1>1, <1>2 DEF ClientOK

(* The members that a handler moves along, and those it may leave alone. *)
Leads(s, r, st, rest, reqs) == /\ r.state = st
                               /\ r.recv_buffer = rest
                               /\ r.send_buffer = s.send_buffer \o reqs

SameDevice(s, r) == r.devid = s.devid
SameCount(s, r) == r.tty_cnt = s.tty_cnt /\ r.tty_connected = s.tty_connected
SameScreens(s, r) == /\ r.scr_num = s.scr_num
                     /\ r.is_scr = s.is_scr
                     /\ r.current_tty = s.current_tty

LEMMA MovedLeads ==
  ASSUME NEW s, IsClient(s), NEW st, NEW rest, NEW reqs
  PROVE  LET m == Moved(s, st, rest, reqs)
         IN  /\ IsClient(m)
             /\ Leads(s, m, st, rest, reqs)
             /\ SameDevice(s, m) /\ SameCount(s, m) /\ SameScreens(s, m)
<1> DEFINE m == Moved(s, st, rest, reqs)
<1>1. m.state = st /\ m.recv_buffer = rest /\ m.send_buffer = s.send_buffer \o reqs
  BY Zenon DEF Moved, IsClient, Fields
<1>2. m.devid = s.devid /\ m.tty_cnt = s.tty_cnt /\ m.tty_connected = s.tty_connected
  BY Zenon DEF Moved, IsClient, Fields
<1>3. m.scr_num = s.scr_num /\ m.is_scr = s.is_scr /\ m.current_tty = s.current_tty
  BY Zenon DEF Moved, IsClient, Fields
<1>4. IsClient(m)
  BY Zenon DEF Moved, IsClient
<1> QED
  BY <1>1, <1>2, <1>3, <1>4, Zenon DEF Leads, SameDevice, SameCount, SameScreens

(* A handler and a request sent leave the number of ports alone. *)
LEMMA MovedPorts ==
  ASSUME NEW s, IsClient(s), NEW st, NEW rest, NEW reqs
  PROVE  Moved(s, st, rest, reqs).ethnum = s.ethnum
BY Zenon DEF Moved, IsClient, Fields

LEMMA SetPorts ==
  ASSUME NEW s, IsClient(s), NEW v
  PROVE  /\ [s EXCEPT !.send_buffer = v].ethnum = s.ethnum
         /\ [s EXCEPT !.ethnum = v].ethnum = v
<1>1. [s EXCEPT !.send_buffer = v].ethnum = s.ethnum
  BY Zenon DEF IsClient, Fields
<1>2. [s EXCEPT !.ethnum = v].ethnum = v
  BY Zenon DEF IsClient, Fields
<1> QED
  BY <1>1, <1>2

(* Members set besides. *)
LEMMA SetDevice ==
  ASSUME NEW s, IsClient(s), NEW v, NEW w
  PROVE  LET a == [s EXCEPT !.devid = v, !.ethnum = w]
         IN  /\ IsClient(a) /\ a.devid = v /\ a.state = s.state
             /\ a.recv_buffer = s.recv_buffer /\ a.send_buffer = s.send_buffer
             /\ SameCount(s, a) /\ SameScreens(s, a)
<1> DEFINE a == [s EXCEPT !.devid = v, !.ethnum = w]
<1>1. IsClient(a)
  BY Zenon DEF IsClient
<1>2. a.devid = v /\ a.state = s.state /\ a.tty_cnt = s.tty_cnt
      /\ a.tty_connected = s.tty_connected
  BY Zenon DEF IsClient, Fields
<1>3. a.recv_buffer = s.recv_buffer /\ a.send_buffer = s.send_buffer
  BY Zenon DEF IsClient, Fields
<1>4. a.scr_num = s.scr_num /\ a.is_scr = s.is_scr /\ a.current_tty = s.current_tty
  BY Zenon DEF IsClient, Fields
<1> QED
  BY <1>1, <1>2, <1>3, <1>4, Zenon DEF SameCount, SameScreens

LEMMA SetEthnum ==
  ASSUME NEW s, IsClient(s), NEW v
  PROVE  LET a == [s EXCEPT !.ethnum = v]
         IN  /\ IsClient(a) /\ a.state = s.state
             /\ a.recv_buffer = s.recv_buffer /\ a.send_buffer = s.send_buffer
             /\ SameDevice(s, a) /\ SameCount(s, a) /\ SameScreens(s, a)
<1> DEFINE a == [s EXCEPT !.ethnum = v]
<1>1. IsClient(a)
  BY Zenon DEF IsClient
<1>2. a.devid = s.devid /\ a.state = s.state /\ a.tty_cnt = s.tty_cnt
      /\ a.tty_connected = s.tty_connected
  BY Zenon DEF IsClient, Fields
<1>3. a.recv_buffer = s.recv_buffer /\ a.send_buffer = s.send_buffer
  BY Zenon DEF IsClient, Fields
<1>4. a.scr_num = s.scr_num /\ a.is_scr = s.is_scr /\ a.current_tty = s.current_tty
  BY Zenon DEF IsClient, Fields
<1> QED
  BY <1>1, <1>2, <1>3, <1>4, Zenon DEF SameDevice, SameCount, SameScreens

LEMMA SetConnected ==
  ASSUME NEW s, IsClient(s), NEW v
  PROVE  LET a == [s EXCEPT !.tty_connected = v]
         IN  /\ IsClient(a) /\ a.state = s.state /\ a.tty_connected = v
             /\ a.recv_buffer = s.recv_buffer /\ a.send_buffer = s.send_buffer
             /\ SameDevice(s, a) /\ a.tty_cnt = s.tty_cnt /\ SameScreens(s, a)
<1> DEFINE a == [s EXCEPT !.tty_connected = v]
<1>1. IsClient(a)
  BY Zenon DEF IsClient
<1>2. a.devid = s.devid /\ a.state = s.state /\ a.tty_cnt = s.tty_cnt /\ a.tty_connected = v
  BY Zenon DEF IsClient, Fields
<1>3. a.recv_buffer = s.recv_buffer /\ a.send_buffer = s.send_buffer
  BY Zenon DEF IsClient, Fields
<1>4. a.scr_num = s.scr_num /\ a.is_scr = s.is_scr /\ a.current_tty = s.current_tty
  BY Zenon DEF IsClient, Fields
<1> QED
  BY <1>1, <1>2, <1>3, <1>4, Zenon DEF SameDevice, SameScreens

LEMMA SetSend ==
  ASSUME NEW s, IsClient(s), NEW v
  PROVE  LET a == [s EXCEPT !.send_buffer = v]
         IN  /\ IsClient(a) /\ a.state = s.state /\ a.send_buffer = v
             /\ a.recv_buffer = s.recv_buffer
             /\ SameDevice(s, a) /\ SameCount(s, a) /\ SameScreens(s, a)
<1> DEFINE a == [s EXCEPT !.send_buffer = v]
<1>1. IsClient(a)
  BY Zenon DEF IsClient
<1>2. a.devid = s.devid /\ a.state = s.state /\ a.tty_cnt = s.tty_cnt
      /\ a.tty_connected = s.tty_connected
  BY Zenon DEF IsClient, Fields
<1>3. a.recv_buffer = s.recv_buffer /\ a.send_buffer = v
  BY Zenon DEF IsClient, Fields
<1>4. a.scr_num = s.scr_num /\ a.is_scr = s.is_scr /\ a.current_tty = s.current_tty
  BY Zenon DEF IsClient, Fields
<1> QED
  BY <1>1, <1>2, <1>3, <1>4, Zenon DEF SameDevice, SameCount, SameScreens

LEMMA SetScr ==
  ASSUME NEW s, IsClient(s), NEW v
  PROVE  LET a == [s EXCEPT !.is_scr = v]
         IN  /\ IsClient(a) /\ a.state = s.state /\ a.is_scr = v
             /\ a.recv_buffer = s.recv_buffer /\ a.send_buffer = s.send_buffer
             /\ SameDevice(s, a) /\ SameCount(s, a)
             /\ a.scr_num = s.scr_num /\ a.current_tty = s.current_tty
<1> DEFINE a == [s EXCEPT !.is_scr = v]
<1>1. IsClient(a)
  BY Zenon DEF IsClient
<1>2. a.devid = s.devid /\ a.state = s.state /\ a.tty_cnt = s.tty_cnt
      /\ a.tty_connected = s.tty_connected
  BY Zenon DEF IsClient, Fields
<1>3. a.recv_buffer = s.recv_buffer /\ a.send_buffer = s.send_buffer
  BY Zenon DEF IsClient, Fields
<1>4. a.scr_num = s.scr_num /\ a.is_scr = v /\ a.current_tty = s.current_tty
  BY Zenon DEF IsClient, Fields
<1> QED
  BY <1>1, <1>2, <1>3, <1>4, Zenon DEF SameDevice, SameCount

-----------------------------------------------------------------------------
(* A handler gives one client its new contents and leaves the others. *)
LEMMA Updated ==
  ASSUME Shape, NEW c \in Conn, NEW r, ClientOK(r), Update(c, r)
  PROVE  Shape' /\ sess'[c] = r /\ \A d \in Conn : d # c => sess'[d] = sess[d]
<1>1. sess' = [sess EXCEPT ![c] = r]
  BY DEF Update
<1>2. sess = [d \in Conn |-> sess[d]]
  BY DEF Shape
<1>3. sess' = [d \in Conn |-> IF d = c THEN r ELSE sess[d]]
  BY <1>1, <1>2, Zenon
<1>4. sess'[c] = r /\ \A d \in Conn : d # c => sess'[d] = sess[d]
  BY <1>3, Zenon
<1>5. \A d \in Conn : ClientOK(sess'[d])
  BY <1>4, Zenon DEF Shape
<1>6. sess' = [d \in Conn |-> sess'[d]]
  BY <1>3, Zenon
<1> QED  BY <1>4, <1>5, <1>6, Zenon DEF Shape

(* What the handlers do, as a relation between the client s before and r   *)
(* after, and the tables.  The four packets that ask for nothing but the   *)
(* next part of the device are one case.                                   *)
EarlyStates == {"WaitSysInfo", "WaitConfigInfo", "WaitProcInfo", "WaitEtheInfo"}
EarlyNext   == {"WaitConfigInfo", "WaitProcInfo", "WaitEtheInfo", "WaitTermInfo"}
EarlyTypes  == {"conf", "proc", "ether", "ter"}

(* The parts of a device that its row holds when its session has come to a *)
(* state.                                                                  *)
PartsBy(state) == CASE state = "WaitSysInfo"    -> {}
                    [] state = "WaitConfigInfo" -> {"sys"}
                    [] state = "WaitProcInfo"   -> {"sys", "conf"}
                    [] OTHER                    -> {"sys", "conf", "proc"}

(* What is asked for next, up to the request for the terminals: the parts  *)
(* in turn, then each port, as the number of ports says.                   *)
Routed(s, t, r, reqs) ==
  \/ /\ s.state = "WaitSysInfo" /\ t = "sys"
     /\ r.state = "WaitConfigInfo" /\ reqs = <<Request("conf")>>
  \/ /\ s.state = "WaitConfigInfo" /\ t = "conf"
     /\ r.state = "WaitProcInfo" /\ reqs = <<Request("proc")>>
  \/ /\ s.state = "WaitProcInfo" /\ t = "proc"
     /\ \/ r.state = "WaitTermInfo" /\ reqs = <<Request("ter")>>
        \/ r.state = "WaitEtheInfo" /\ r.ethnum = 1 /\ reqs = <<RequestOf("ether", 0)>>
        \/ /\ r.state = "WaitEtheInfo" /\ r.ethnum = 2
           /\ reqs = <<RequestOf("ether", 1), RequestOf("ether", 0)>>
        \/ r.state = "WaitProcInfo" /\ reqs = <<>>
  \/ /\ s.state = "WaitEtheInfo" /\ t = "ether" /\ r.ethnum = s.ethnum - 1
     /\ \/ r.state = "WaitEtheInfo" /\ r.ethnum > 0 /\ reqs = <<>>
        \/ r.state = "WaitTermInfo" /\ ~(r.ethnum > 0) /\ reqs = <<Request("ter")>>

TookTerminal(s, r, tty, n, rest) ==
  /\ OnRecvIPTermResponse(s.devid, tty, n)
  /\ SameDevice(s, r)
  /\ r.tty_cnt = s.tty_cnt + 1 /\ r.tty_connected = s.tty_connected
  /\ r.scr_num = n /\ r.current_tty = tty
  /\ \/ n # 0 /\ Leads(s, r, "WaitScrInfo", rest, <<>>)
     \/ n = 0 /\ AllCounted(r) /\ Leads(s, r, "End", rest, <<Request("end")>>)
     \/ n = 0 /\ Leads(s, r, "WaitIPTermInfo", rest, <<>>)

HandledAuth(s, buf, r) ==
  /\ s.state = "WaitAuth" /\ First(buf).type = "auth"
  /\ Authentic(First(buf))
  /\ OnRecvAuthResponse(First(buf).dev)
  /\ Leads(s, r, "WaitSysInfo", Drop(buf, 2), <<Request("sys")>>)
  /\ r.devid = First(buf).dev /\ SameCount(s, r) /\ SameScreens(s, r)

HandledPart(s, buf, r) ==
  /\ s.state \in EarlyStates /\ First(buf).type \in {"sys", "conf", "proc", "ether"}
  /\ \E part : OnRecvPart(s.devid, part) /\ PartsBy(r.state) \subseteq PartsBy(s.state) \cup {part}
  /\ \E st \in EarlyNext, reqs \in Seq([type : EarlyTypes, no : Nat]) :
        Leads(s, r, st, Drop(buf, 2), reqs) /\ Routed(s, First(buf).type, r, reqs)
  /\ SameDevice(s, r) /\ SameCount(s, r) /\ SameScreens(s, r)

HandledTer(s, buf, r) ==
  /\ s.state = "WaitTermInfo" /\ First(buf).type = "ter"
  /\ OnRecvTermResponse(s.devid, First(buf).term_num)
  /\ Leads(s, r, "WaitIPTermInfo", Drop(buf, 2), TtyRequests(First(buf).ttys))
  /\ r.tty_cnt = s.tty_cnt /\ r.tty_connected = First(buf).term_num
  /\ SameDevice(s, r) /\ SameScreens(s, r)

HandledIPTerm(s, buf, r) ==
  /\ s.state = "WaitIPTermInfo" /\ First(buf).type = "ipterm"
  /\ TookTerminal(s, r, First(buf).tty, First(buf).screen_num, Drop(buf, 2))

HandledDumb(s, buf, r) ==
  /\ s.state = "WaitIPTermInfo" /\ First(buf).type = "dumbterm"
  /\ \E tty \in WildByte, n \in WildByte, gone \in 1..Len(buf) :
       TookTerminal(s, r, tty, n, Drop(buf, gone))

HandledEnd(s, buf, r) ==
  /\ s.state = "End" /\ First(buf).type = "end"
  /\ UpdateTTYConnected(s.devid, s.tty_connected)
  /\ Leads(s, r, "End", Drop(buf, 1), <<>>)
  /\ SameDevice(s, r) /\ SameCount(s, r) /\ SameScreens(s, r)

Handled(s, buf, r) ==
  \/ HandledAuth(s, buf, r)
  \/ HandledPart(s, buf, r)
  \/ HandledTer(s, buf, r)
  \/ HandledIPTerm(s, buf, r)
  \/ HandledDumb(s, buf, r)
  \/ HandledEnd(s, buf, r)

(* The packet of a terminal: waiting for screens and is_scr come together. *)
LEMMA TakeTerminalDoes ==
  ASSUME NEW c, ClientOK(sess[c]), sess[c].state # "WaitScrInfo", NEW tty, NEW n, NEW rest,
         TakeTerminal(c, tty, n, rest)
  PROVE  \E r : ClientOK(r) /\ Update(c, r) /\ TookTerminal(sess[c], r, tty, n, rest)
<1> DEFINE old == sess[c]
           s == [old EXCEPT !.tty_cnt = old.tty_cnt + 1, !.scr_num = n, !.current_tty = tty]
           m == Moved(s, "WaitScrInfo", rest, <<>>)
           r1 == [m EXCEPT !.is_scr = TRUE]
           r2 == Moved(s, "End", rest, <<Request("end")>>)
           r3 == Moved(s, "WaitIPTermInfo", rest, <<>>)
<1>1. /\ IsClient(s) /\ ~s.is_scr /\ s.send_buffer = old.send_buffer /\ SameDevice(old, s)
      /\ s.tty_cnt = old.tty_cnt + 1 /\ s.scr_num = n /\ s.current_tty = tty
      /\ s.tty_connected = old.tty_connected
  <2>1. IsClient(old) /\ ~old.is_scr
    BY DEF ClientOK
  <2> HIDE DEF old
  <2>2. IsClient(s)
    BY <2>1, Zenon DEF IsClient
  <2>3. s.devid = old.devid /\ s.is_scr = old.is_scr /\ s.send_buffer = old.send_buffer
    BY <2>1, Zenon DEF IsClient, Fields
  <2>4. s.tty_cnt = old.tty_cnt + 1 /\ s.scr_num = n /\ s.current_tty = tty
        /\ s.tty_connected = old.tty_connected
    BY <2>1, Zenon DEF IsClient, Fields
  <2> HIDE DEF s
  <2> QED
    BY <2>1, <2>2, <2>3, <2>4, Zenon DEF SameDevice
<1>2. /\ OnRecvIPTermResponse(old.devid, tty, n)
      /\ \/ n # 0 /\ Update(c, r1)
         \/ n = 0 /\ AllCounted(s) /\ Update(c, r2)
         \/ n = 0 /\ Update(c, r3)
  <2>1. s.devid = old.devid
    BY <1>1 DEF SameDevice
  <2>2. OnRecvIPTermResponse(s.devid, tty, n)
    BY Zenon DEF TakeTerminal
  <2>3. Update(c, CASE n # 0 -> r1
                    [] n = 0 /\ AllCounted(s) -> r2
                    [] n = 0 /\ ~AllCounted(s) -> r3)
    BY Zenon DEF TakeTerminal
  <2> QED
    BY <2>1, <2>2, <2>3, Zenon
<1> HIDE DEF s
<1>3. /\ IsClient(m) /\ Leads(s, m, "WaitScrInfo", rest, <<>>)
      /\ SameDevice(s, m) /\ SameCount(s, m) /\ SameScreens(s, m)
  BY <1>1, MovedLeads, Zenon
<1>4. /\ IsClient(r2) /\ Leads(s, r2, "End", rest, <<Request("end")>>)
      /\ SameDevice(s, r2) /\ SameCount(s, r2) /\ SameScreens(s, r2)
  BY <1>1, MovedLeads, Zenon
<1>5. /\ IsClient(r3) /\ Leads(s, r3, "WaitIPTermInfo", rest, <<>>)
      /\ SameDevice(s, r3) /\ SameCount(s, r3) /\ SameScreens(s, r3)
  BY <1>1, MovedLeads, Zenon
<1> HIDE DEF m, r2, r3
<1>6. /\ IsClient(r1) /\ r1.state = m.state /\ r1.is_scr = TRUE
      /\ r1.recv_buffer = m.recv_buffer /\ r1.send_buffer = m.send_buffer
      /\ SameDevice(m, r1) /\ SameCount(m, r1)
      /\ r1.scr_num = m.scr_num /\ r1.current_tty = m.current_tty
  BY <1>3, SetScr, Zenon
<1> HIDE DEF r1
<1>7. ASSUME n # 0
      PROVE  ClientOK(r1) /\ (OnRecvIPTermResponse(old.devid, tty, n) => TookTerminal(old, r1, tty, n, rest))
  BY <1>1, <1>3, <1>6, <1>7
     DEF ClientOK, TookTerminal, Leads, SameDevice, SameCount, SameScreens
<1>8. ASSUME n = 0, AllCounted(s)
      PROVE  ClientOK(r2) /\ (OnRecvIPTermResponse(old.devid, tty, n) => TookTerminal(old, r2, tty, n, rest))
  BY <1>1, <1>4, <1>8
     DEF AllCounted, ClientOK, TookTerminal, Leads, SameDevice, SameCount, SameScreens
<1>9. ASSUME n = 0
      PROVE  ClientOK(r3) /\ (OnRecvIPTermResponse(old.devid, tty, n) => TookTerminal(old, r3, tty, n, rest))
  BY <1>1, <1>5, <1>9
     DEF ClientOK, TookTerminal, Leads, SameDevice, SameCount, SameScreens
<1> QED
  BY <1>2, <1>7, <1>8, <1>9, Zenon

(* Every handler of the fsm that takes a packet. *)
LEMMA DispatchDoes ==
  ASSUME NEW c, ClientOK(sess[c]), NEW buf, Dispatch(c, buf)
  PROVE  \E r : ClientOK(r) /\ Update(c, r) /\ Handled(sess[c], buf, r)
<1> DEFINE old == sess[c]
           Into(st, reqs) == Moved(old, st, Drop(buf, 2), reqs)
<1>1. IsClient(old)
  BY DEF ClientOK
<1>2. CASE OnAuthResponse(c, buf)
  <2> DEFINE p == First(buf)
             m == Into("WaitSysInfo", <<Request("sys")>>)
             r == [m EXCEPT !.devid = p.dev, !.ethnum = p.ethnum]
  <2>1. /\ old.state = "WaitAuth" /\ p.type = "auth" /\ Authentic(p)
        /\ OnRecvAuthResponse(p.dev) /\ Update(c, r)
    BY <1>2, Zenon DEF OnAuthResponse
  <2>2. /\ IsClient(m) /\ Leads(old, m, "WaitSysInfo", Drop(buf, 2), <<Request("sys")>>)
        /\ SameCount(old, m) /\ SameScreens(old, m)
    BY <1>1, MovedLeads, Zenon
  <2> HIDE DEF m
  <2>3. /\ IsClient(r) /\ r.devid = p.dev /\ r.state = m.state
        /\ r.recv_buffer = m.recv_buffer /\ r.send_buffer = m.send_buffer
        /\ SameCount(m, r) /\ SameScreens(m, r)
    BY <2>2, SetDevice, Zenon
  <2> HIDE DEF r
  <2>4. HandledAuth(old, buf, r)
    BY <2>1, <2>2, <2>3 DEF HandledAuth, Leads, SameCount, SameScreens
  <2>5. ClientOK(r)
    BY <2>1, <2>2, <2>3 DEF ClientOK, Leads, SameScreens
  <2> QED
    BY <2>1, <2>4, <2>5, Zenon DEF Handled
<1>3. ASSUME NEW st \in EarlyNext, NEW reqs \in Seq([type : EarlyTypes, no : Nat]),
             Update(c, Into(st, reqs)), old.state \in EarlyStates,
             \A r : r.state = st /\ r.ethnum = old.ethnum => Routed(old, First(buf).type, r, reqs),
             First(buf).type \in {"sys", "conf", "proc", "ether"},
             \E part : OnRecvPart(old.devid, part) /\ PartsBy(st) \subseteq PartsBy(old.state) \cup {part}
      PROVE  \E r : ClientOK(r) /\ Update(c, r) /\ HandledPart(old, buf, r)
  <2> DEFINE r == Into(st, reqs)
  <2>1. /\ IsClient(r) /\ Leads(old, r, st, Drop(buf, 2), reqs)
        /\ SameDevice(old, r) /\ SameCount(old, r) /\ SameScreens(old, r)
    BY <1>1, MovedLeads, Zenon
  <2>2. Update(c, r)
    BY <1>3
  <2>6. r.ethnum = old.ethnum
    <3> HIDE DEF old
    <3> QED
      BY <1>1, MovedPorts
  <2> HIDE DEF r
  <2>3. HandledPart(old, buf, r)
    <3>1. r.state = st
      BY <2>1 DEF Leads
    <3> QED
      BY <1>3, <2>1, <2>6, <3>1, Zenon DEF HandledPart
  <2>4. old.state # "WaitScrInfo" /\ r.state # "WaitScrInfo"
    BY <1>3, <2>1 DEF EarlyStates, EarlyNext, Leads
  <2>5. ClientOK(r)
    BY <2>1, <2>4 DEF ClientOK, SameScreens
  <2> QED
    BY <2>2, <2>3, <2>5, Zenon
<1>4. /\ <<>> \in Seq([type : EarlyTypes, no : Nat])
      /\ <<Request("conf")>> \in Seq([type : EarlyTypes, no : Nat])
      /\ <<Request("proc")>> \in Seq([type : EarlyTypes, no : Nat])
      /\ <<Request("ter")>> \in Seq([type : EarlyTypes, no : Nat])
      /\ <<RequestOf("ether", 0)>> \in Seq([type : EarlyTypes, no : Nat])
      /\ <<RequestOf("ether", 1), RequestOf("ether", 0)>> \in Seq([type : EarlyTypes, no : Nat])
  BY DEF EarlyTypes, Request, RequestOf
<1>5. /\ "WaitConfigInfo" \in EarlyNext /\ "WaitProcInfo" \in EarlyNext
      /\ "WaitEtheInfo" \in EarlyNext /\ "WaitTermInfo" \in EarlyNext
  BY DEF EarlyNext
<1>6. CASE OnSysInfoResponse(c, buf)
  <2>1. /\ old.state = "WaitSysInfo" /\ First(buf).type = "sys" /\ OnRecvPart(old.devid, "sys")
        /\ Update(c, Into("WaitConfigInfo", <<Request("conf")>>))
    BY <1>6, Zenon DEF OnSysInfoResponse
  <2> HIDE DEF Into
  <2>2. PartsBy("WaitConfigInfo") \subseteq PartsBy("WaitSysInfo") \cup {"sys"}
    BY DEF PartsBy
  <2>3. \A r : r.state = "WaitConfigInfo" => Routed(old, First(buf).type, r, <<Request("conf")>>)
    BY <2>1 DEF Routed
  <2> QED
    BY <1>3, <1>4, <1>5, <2>1, <2>2, <2>3, Zenon DEF Handled, EarlyStates
<1>7. CASE OnConfInfoResponse(c, buf)
  <2>1. /\ old.state = "WaitConfigInfo" /\ First(buf).type = "conf" /\ OnRecvPart(old.devid, "conf")
        /\ Update(c, Into("WaitProcInfo", <<Request("proc")>>))
    BY <1>7, Zenon DEF OnConfInfoResponse
  <2> HIDE DEF Into
  <2>2. PartsBy("WaitProcInfo") \subseteq PartsBy("WaitConfigInfo") \cup {"conf"}
    BY DEF PartsBy
  <2>3. \A r : r.state = "WaitProcInfo" => Routed(old, First(buf).type, r, <<Request("proc")>>)
    BY <2>1 DEF Routed
  <2> QED
    BY <1>3, <1>4, <1>5, <2>1, <2>2, <2>3, Zenon DEF Handled, EarlyStates
<1>8. CASE OnProcInfoResponse(c, buf)
  <2>1. /\ old.state = "WaitProcInfo" /\ First(buf).type = "proc" /\ OnRecvPart(old.devid, "proc")
        /\ \/ Update(c, Into("WaitTermInfo", <<Request("ter")>>))
           \/ Update(c, Into("WaitEtheInfo", <<RequestOf("ether", 0)>>)) /\ old.ethnum = 1
           \/ /\ Update(c, Into("WaitEtheInfo", <<RequestOf("ether", 1), RequestOf("ether", 0)>>))
              /\ old.ethnum = 2
           \/ Update(c, Into("WaitProcInfo", <<>>))
    BY <1>8, Zenon DEF OnProcInfoResponse
  <2> HIDE DEF Into
  <2>2. \A st \in {"WaitTermInfo", "WaitEtheInfo", "WaitProcInfo"} :
          PartsBy(st) \subseteq PartsBy("WaitProcInfo") \cup {"proc"}
    BY DEF PartsBy
  <2>3. \A r : /\ r.state = "WaitTermInfo" => Routed(old, First(buf).type, r, <<Request("ter")>>)
               /\ r.state = "WaitEtheInfo" /\ r.ethnum = 1 =>
                    Routed(old, First(buf).type, r, <<RequestOf("ether", 0)>>)
               /\ r.state = "WaitEtheInfo" /\ r.ethnum = 2 =>
                    Routed(old, First(buf).type, r, <<RequestOf("ether", 1), RequestOf("ether", 0)>>)
               /\ r.state = "WaitProcInfo" => Routed(old, First(buf).type, r, <<>>)
    BY <2>1 DEF Routed
  <2> QED
    BY <1>3, <1>4, <1>5, <2>1, <2>2, <2>3, Zenon DEF Handled, EarlyStates
<1>9. CASE OnEtherInfoResponse(c, buf)
  <2> DEFINE s == [old EXCEPT !.ethnum = old.ethnum - 1]
             r1 == Moved(s, "WaitEtheInfo", Drop(buf, 2), <<>>)
             r2 == Moved(s, "WaitTermInfo", Drop(buf, 2), <<Request("ter")>>)
  <2>1. /\ old.state = "WaitEtheInfo" /\ First(buf).type = "ether"
        /\ \E part : OnRecvPart(old.devid, part)
        /\ (PortsLeft(s) /\ Update(c, r1)) \/ (~PortsLeft(s) /\ Update(c, r2))
    <3>1. OnRecvPart(s.devid, IF First(buf).port = 0 THEN "eth0" ELSE "eth1")
          => OnRecvPart(old.devid, IF First(buf).port = 0 THEN "eth0" ELSE "eth1")
      BY <1>1, Zenon DEF IsClient, Fields
    <3> QED
      BY <1>9, <3>1, Zenon DEF OnEtherInfoResponse
  <2>2. IsClient(s) /\ s.send_buffer = old.send_buffer /\ SameDevice(old, s)
        /\ SameCount(old, s) /\ SameScreens(old, s)
    <3> HIDE DEF old
    <3> QED
      BY <1>1, SetEthnum, Zenon
  <2>7. s.ethnum = old.ethnum - 1
    <3> HIDE DEF old
    <3> QED
      BY <1>1, SetPorts, Zenon
  <2> HIDE DEF s
  <2>8. r1.ethnum = s.ethnum /\ r2.ethnum = s.ethnum
    BY <2>2, MovedPorts, Zenon
  <2>3. /\ IsClient(r1) /\ Leads(s, r1, "WaitEtheInfo", Drop(buf, 2), <<>>)
        /\ SameDevice(s, r1) /\ SameCount(s, r1) /\ SameScreens(s, r1)
    BY <2>2, MovedLeads, Zenon
  <2>4. /\ IsClient(r2) /\ Leads(s, r2, "WaitTermInfo", Drop(buf, 2), <<Request("ter")>>)
        /\ SameDevice(s, r2) /\ SameCount(s, r2) /\ SameScreens(s, r2)
    BY <2>2, MovedLeads, Zenon
  <2> HIDE DEF r1, r2
  <2>5. ASSUME NEW r, NEW st \in EarlyNext, NEW reqs \in Seq([type : EarlyTypes, no : Nat]),
               IsClient(r), Leads(s, r, st, Drop(buf, 2), reqs),
               SameDevice(s, r), SameCount(s, r), SameScreens(s, r),
               Routed(old, First(buf).type, r, reqs)
        PROVE  ClientOK(r) /\ HandledPart(old, buf, r)
    <3>1. Leads(old, r, st, Drop(buf, 2), reqs)
          /\ SameDevice(old, r) /\ SameCount(old, r) /\ SameScreens(old, r)
      BY <2>2, <2>5 DEF Leads, SameDevice, SameCount, SameScreens
    <3>2. HandledPart(old, buf, r)
      <4>1. r.state = st /\ PartsBy(st) \subseteq PartsBy("WaitEtheInfo")
        BY <2>5 DEF Leads, EarlyNext, PartsBy
      <4>2. old.state \in EarlyStates
        BY <2>1 DEF EarlyStates
      <4>3. \E part : OnRecvPart(old.devid, part) /\ PartsBy(r.state) \subseteq PartsBy(old.state) \cup {part}
        BY <2>1, <4>1
      <4>4. First(buf).type \in {"sys", "conf", "proc", "ether"}
        BY <2>1
      <4> QED
        BY <2>5, <3>1, <4>2, <4>3, <4>4, Zenon DEF HandledPart
    <3>3. r.state # "WaitScrInfo" /\ old.state # "WaitScrInfo"
      BY <2>1, <2>5 DEF EarlyNext, Leads
    <3>4. ClientOK(r)
      BY <2>5, <3>1, <3>3 DEF ClientOK, SameScreens
    <3> QED
      BY <3>2, <3>4
  <2>9. /\ PortsLeft(s) => Routed(old, First(buf).type, r1, <<>>)
        /\ ~PortsLeft(s) => Routed(old, First(buf).type, r2, <<Request("ter")>>)
    <3>1. r1.state = "WaitEtheInfo" /\ r2.state = "WaitTermInfo"
      BY <2>3, <2>4 DEF Leads
    <3> HIDE DEF old
    <3> QED
      BY <2>1, <2>7, <2>8, <3>1 DEF Routed, PortsLeft
  <2>6. /\ PortsLeft(s) => ClientOK(r1) /\ HandledPart(old, buf, r1)
        /\ ~PortsLeft(s) => ClientOK(r2) /\ HandledPart(old, buf, r2)
    BY <1>4, <1>5, <2>3, <2>4, <2>5, <2>9, Zenon
  <2> QED
    BY <2>1, <2>6, Zenon DEF Handled
<1>10. CASE OnTerInfoResponse(c, buf)
  <2> DEFINE p == First(buf)
             m == Into("WaitIPTermInfo", TtyRequests(p.ttys))
             r == [m EXCEPT !.tty_connected = p.term_num]
  <2>1. /\ old.state = "WaitTermInfo" /\ p.type = "ter" /\ OnRecvTermResponse(old.devid, p.term_num)
        /\ Update(c, r)
    BY <1>10, Zenon DEF OnTerInfoResponse
  <2>2. /\ IsClient(m) /\ Leads(old, m, "WaitIPTermInfo", Drop(buf, 2), TtyRequests(p.ttys))
        /\ SameDevice(old, m) /\ SameCount(old, m) /\ SameScreens(old, m)
    BY <1>1, MovedLeads, Zenon
  <2> HIDE DEF m
  <2>3. /\ IsClient(r) /\ r.state = m.state
        /\ r.recv_buffer = m.recv_buffer /\ r.send_buffer = m.send_buffer
        /\ SameDevice(m, r) /\ r.tty_cnt = m.tty_cnt /\ r.tty_connected = p.term_num
        /\ SameScreens(m, r)
    BY <2>2, SetConnected, Zenon
  <2> HIDE DEF r
  <2>4. HandledTer(old, buf, r)
    BY <2>1, <2>2, <2>3 DEF HandledTer, Leads, SameDevice, SameCount, SameScreens
  <2>5. ClientOK(r)
    BY <2>1, <2>2, <2>3 DEF ClientOK, Leads, SameScreens
  <2> QED
    BY <2>1, <2>4, <2>5, Zenon DEF Handled
<1>11. CASE OnIPTermResponse(c, buf)
  <2>1. /\ old.state = "WaitIPTermInfo" /\ First(buf).type = "ipterm"
        /\ TakeTerminal(c, First(buf).tty, First(buf).screen_num, Drop(buf, 2))
    BY <1>11 DEF OnIPTermResponse
  <2>2. old.state # "WaitScrInfo"
    BY <2>1
  <2> QED
    BY <2>1, <2>2, TakeTerminalDoes, Zenon DEF Handled, HandledIPTerm
<1>12. CASE OnDumbTermResponse(c, buf)
  <2>1. old.state = "WaitIPTermInfo" /\ First(buf).type = "dumbterm"
    BY <1>12 DEF OnDumbTermResponse
  <2>2. PICK tty \in WildByte, n \in WildByte, gone \in 1..Len(buf) :
          TakeTerminal(c, tty, n, Drop(buf, gone))
    BY <1>12, Zenon DEF OnDumbTermResponse
  <2>3. old.state # "WaitScrInfo"
    BY <2>1
  <2>4. PICK r : /\ ClientOK(r) /\ Update(c, r)
                 /\ TookTerminal(sess[c], r, tty, n, Drop(buf, gone))
    BY <2>2, <2>3, TakeTerminalDoes, Zenon
  <2>5. HandledDumb(old, buf, r)
    BY <2>1, <2>4, Zenon DEF HandledDumb
  <2> QED
    BY <2>4, <2>5, Zenon DEF Handled
<1>13. CASE OnEnd(c, buf)
  <2> DEFINE r == Moved(old, "End", Drop(buf, 1), <<>>)
  <2>1. /\ old.state = "End" /\ First(buf).type = "end"
        /\ UpdateTTYConnected(old.devid, old.tty_connected) /\ Update(c, r)
    BY <1>13, Zenon DEF OnEnd
  <2>2. /\ IsClient(r) /\ Leads(old, r, "End", Drop(buf, 1), <<>>)
        /\ SameDevice(old, r) /\ SameCount(old, r) /\ SameScreens(old, r)
    BY <1>1, MovedLeads, Zenon
  <2> HIDE DEF r
  <2>3. HandledEnd(old, buf, r)
    BY <2>1, <2>2 DEF HandledEnd
  <2>4. ClientOK(r)
    BY <2>1, <2>2 DEF ClientOK, Leads, SameScreens
  <2> QED
    BY <2>1, <2>3, <2>4, Zenon DEF Handled
<1> QED
  BY <1>2, <1>6, <1>7, <1>8, <1>9, <1>10, <1>11, <1>12, <1>13 DEF Dispatch

(* The second loop gives a session what it was owed: its first request, or *)
(* its screens.  Whose are the terminals the screens were decoded from.    *)
Greeted(s, r) == /\ s.state = "Acceptance"
                 /\ Leads(s, r, "WaitAuth", s.recv_buffer, <<Request("auth")>>)
                 /\ SameDevice(s, r) /\ SameCount(s, r) /\ SameScreens(s, r)
                 /\ UNCHANGED dbVars

Decoded(s, taken) == [i \in 1..s.scr_num |->
                        IF i <= taken /\ s.recv_buffer[i].part = "scr"
                          THEN s.recv_buffer[i].pkt.tty ELSE 0]

TookScreens(s, r) ==
  /\ s.state = "WaitScrInfo"
  /\ \E taken, gone :
       /\ OnRecvScreenInfoPackets(s.devid, s.current_tty, Decoded(s, taken))
       /\ \/ taken = s.scr_num /\ gone = s.scr_num /\ s.scr_num <= Len(s.recv_buffer)
          \/ taken = Len(s.recv_buffer) /\ gone = taken /\ ~(s.scr_num <= Len(s.recv_buffer))
          \/ GarbageHeader /\ gone \in (taken + 1)..Len(s.recv_buffer) /\ taken \in Nat
       /\ \/ AllCounted(s) /\ Leads(s, r, "End", Drop(s.recv_buffer, gone), <<Request("end")>>)
          \/ Leads(s, r, "WaitIPTermInfo", Drop(s.recv_buffer, gone), <<>>)
  /\ r.is_scr = FALSE
  /\ SameDevice(s, r) /\ SameCount(s, r)
  /\ r.scr_num = s.scr_num /\ r.current_tty = s.current_tty

LEMMA TailDoes ==
  ASSUME NEW c, ClientOK(sess[c]),
         OnAcceptance(c) \/ (sess[c].is_scr /\ OnScreens(c))
  PROVE  \E r : /\ ClientOK(r) /\ Update(c, r)
                /\ r.state \notin {"Acceptance", "WaitScrInfo"}
                /\ Greeted(sess[c], r) \/ TookScreens(sess[c], r)
<1> DEFINE old == sess[c]
<1>1. IsClient(old)
  BY DEF ClientOK
<1>2. CASE OnAcceptance(c)
  <2> DEFINE r == Moved(old, "WaitAuth", old.recv_buffer, <<Request("auth")>>)
  <2>1. old.state = "Acceptance" /\ Update(c, r) /\ UNCHANGED dbVars
    BY <1>2, Zenon DEF OnAcceptance
  <2>2. /\ IsClient(r) /\ Leads(old, r, "WaitAuth", old.recv_buffer, <<Request("auth")>>)
        /\ SameDevice(old, r) /\ SameCount(old, r) /\ SameScreens(old, r)
    BY <1>1, MovedLeads, Zenon
  <2> HIDE DEF r
  <2>3. ClientOK(r) /\ r.state \notin {"Acceptance", "WaitScrInfo"}
    BY <2>1, <2>2 DEF ClientOK, Leads, SameScreens
  <2> QED
    BY <2>1, <2>2, <2>3, Zenon DEF Greeted
<1>3. CASE sess[c].is_scr /\ OnScreens(c)
  <2> DEFINE buf == old.recv_buffer
             n == old.scr_num
             Done(rest) == IF AllCounted(old) THEN Moved(old, "End", rest, <<Request("end")>>)
                                              ELSE Moved(old, "WaitIPTermInfo", rest, <<>>)
             After(gone) == [Done(Drop(buf, gone)) EXCEPT !.is_scr = FALSE]
             held == Len(buf)
             most == IF n <= held THEN n ELSE held
             Take(taken, gone) ==
               /\ OnRecvScreenInfoPackets(old.devid, old.current_tty, Decoded(old, taken))
               /\ Update(c, After(gone))
  <2>1. \/ Take(most, most)
        \/ GarbageHeader /\ \E taken \in 1..most : \E gone \in (taken + 1)..held : Take(taken, gone)
    BY <1>3 DEF OnScreens, Decoded
  <2>2. ASSUME NEW gone
        PROVE  /\ IsClient(After(gone)) /\ After(gone).is_scr = FALSE
               /\ \/ AllCounted(old) /\ Leads(old, After(gone), "End", Drop(buf, gone), <<Request("end")>>)
                  \/ Leads(old, After(gone), "WaitIPTermInfo", Drop(buf, gone), <<>>)
               /\ SameDevice(old, After(gone)) /\ SameCount(old, After(gone))
               /\ After(gone).scr_num = n /\ After(gone).current_tty = old.current_tty
    <3> DEFINE m == Done(Drop(buf, gone))
               r == [m EXCEPT !.is_scr = FALSE]
               m1 == Moved(old, "End", Drop(buf, gone), <<Request("end")>>)
               m2 == Moved(old, "WaitIPTermInfo", Drop(buf, gone), <<>>)
    <3>1. /\ IsClient(m1) /\ Leads(old, m1, "End", Drop(buf, gone), <<Request("end")>>)
          /\ SameDevice(old, m1) /\ SameCount(old, m1) /\ SameScreens(old, m1)
      BY <1>1, MovedLeads, Zenon
    <3>2. /\ IsClient(m2) /\ Leads(old, m2, "WaitIPTermInfo", Drop(buf, gone), <<>>)
          /\ SameDevice(old, m2) /\ SameCount(old, m2) /\ SameScreens(old, m2)
      BY <1>1, MovedLeads, Zenon
    <3>3. (AllCounted(old) /\ m = m1) \/ m = m2
      OBVIOUS
    <3> HIDE DEF m1, m2, Done
    <3>4. /\ IsClient(m)
          /\ \/ AllCounted(old) /\ Leads(old, m, "End", Drop(buf, gone), <<Request("end")>>)
             \/ Leads(old, m, "WaitIPTermInfo", Drop(buf, gone), <<>>)
          /\ SameDevice(old, m) /\ SameCount(old, m) /\ SameScreens(old, m)
      BY <3>1, <3>2, <3>3, Zenon
    <3> HIDE DEF m
    <3>5. /\ IsClient(r) /\ r.state = m.state /\ r.is_scr = FALSE
          /\ r.recv_buffer = m.recv_buffer /\ r.send_buffer = m.send_buffer
          /\ SameDevice(m, r) /\ SameCount(m, r)
          /\ r.scr_num = m.scr_num /\ r.current_tty = m.current_tty
      BY <3>4, SetScr, Zenon
    <3>6. r = After(gone)
      BY DEF m
    <3> HIDE DEF r, After
    <3>7. /\ IsClient(r) /\ r.is_scr = FALSE
          /\ \/ AllCounted(old) /\ Leads(old, r, "End", Drop(buf, gone), <<Request("end")>>)
             \/ Leads(old, r, "WaitIPTermInfo", Drop(buf, gone), <<>>)
          /\ SameDevice(old, r) /\ SameCount(old, r)
          /\ r.scr_num = n /\ r.current_tty = old.current_tty
      BY <3>4, <3>5 DEF Leads, SameDevice, SameCount, SameScreens
    <3> QED
      BY <3>6, <3>7, Zenon
  <2>3. old.state = "WaitScrInfo"
    BY <1>3 DEF ClientOK
  <2> HIDE DEF After
  <2>4. PICK taken, gone :
          /\ \/ taken = n /\ gone = n /\ n <= held
             \/ taken = held /\ gone = taken /\ ~(n <= held)
             \/ GarbageHeader /\ gone \in (taken + 1)..held /\ taken \in Nat
          /\ Take(taken, gone)
    <3>1. CASE Take(most, most)
      <4>1. CASE n <= held
        BY <3>1, <4>1, Zenon
      <4>2. CASE ~(n <= held)
        BY <3>1, <4>2, Zenon
      <4> QED
        BY <4>1, <4>2
    <3>2. CASE GarbageHeader /\ \E taken \in 1..most : \E gone \in (taken + 1)..held : Take(taken, gone)
      <4>1. PICK taken \in 1..most : \E gone \in (taken + 1)..held : Take(taken, gone)
        BY <3>2, Zenon
      <4>2. PICK gone \in (taken + 1)..held : Take(taken, gone)
        BY <4>1, Zenon
      <4> HIDE DEF Take
      <4>3. taken \in Nat
        OBVIOUS
      <4> QED
        BY <3>2, <4>2, <4>3, Zenon
    <3> QED
      BY <2>1, <3>1, <3>2
  <2> DEFINE r == After(gone)
  <2>5. Update(c, r) /\ OnRecvScreenInfoPackets(old.devid, old.current_tty, Decoded(old, taken))
    BY <2>4, Zenon
  <2>6. /\ IsClient(r) /\ r.is_scr = FALSE
        /\ \/ AllCounted(old) /\ Leads(old, r, "End", Drop(buf, gone), <<Request("end")>>)
           \/ Leads(old, r, "WaitIPTermInfo", Drop(buf, gone), <<>>)
        /\ SameDevice(old, r) /\ SameCount(old, r)
        /\ r.scr_num = n /\ r.current_tty = old.current_tty
    BY <2>2, Zenon
  <2> HIDE DEF r, Take
  <2>7. TookScreens(old, r)
    BY <2>3, <2>4, <2>5, <2>6, Zenon DEF TookScreens
  <2>8. ClientOK(r) /\ r.state \notin {"Acceptance", "WaitScrInfo"}
    BY <2>6 DEF ClientOK, Leads
  <2> QED
    BY <2>5, <2>7, <2>8, Zenon
<1> QED
  BY <1>2, <1>3

-----------------------------------------------------------------------------
(* The process starts with no sessions. *)
LEMMA OwingInit == ServerInit => Owing
<1> SUFFICES ASSUME ServerInit PROVE Owing
  OBVIOUS
<1>1. sess = [c \in Conn |-> NewClient] /\ session_set = <<>> /\ ready = {}
  BY DEF ServerInit
<1>2. Shape
  <2>1. \A c \in Conn : sess[c] = NewClient
    BY <1>1
  <2>2. sess = [c \in Conn |-> sess[c]]
    BY <1>1, Zenon
  <2> QED  BY <2>1, <2>2, NewClientOK, Zenon DEF Shape
<1>3. ToSet(session_set) = {}
  BY <1>1 DEF ToSet
<1> QED  BY <1>1, <1>2, <1>3 DEF Owing, TailCovers, NoneOwed

(* Steps of the network and of the clients. *)
LEMMA OwingKept == Owing /\ UNCHANGED serverVars => Owing'
BY DEF Owing, Shape, TailCovers, NoneOwed, serverVars

(* A session that is removed is a new client again. *)
LEMMA WithoutOK ==
  ASSUME Shape, NEW c \in Conn, Without(c)
  PROVE  Shape' /\ \A d \in Conn : d # c => sess'[d] = sess[d]
<1>1. Update(c, NewClient)
  BY DEF Without, Update
<1> QED  BY <1>1, NewClientOK, Updated

(* In the first loop nothing needs to be shown of TailCovers, and only of  *)
(* the one session it changes whether it is still to be read.              *)
LEMMA Visited ==
  ASSUME Owing, NEW c \in Conn, Shape', \A d \in Conn : d # c => sess'[d] = sess[d],
         phase = "visit", phase' = phase, ready' \subseteq ready,
         c \in ready' => sess'[c].state = sess[c].state
  PROVE  Owing'
BY DEF Owing, TailCovers, NoneOwed

(* Every step of the server, one action after the other. *)
LEMMA OwingStep ==
  ASSUME Owing, ServerNext
  PROVE  Owing'
<1> USE DEF Owing
<1>1. CASE Select
  <2>1. /\ phase = "tail" /\ todo = {} /\ phase' = "visit"
        /\ ready' \subseteq {c \in Conn : c \in ToSet(session_set)}
        /\ sess' = sess
    BY <1>1 DEF Select, Running
  <2>2. \A c \in ready' : ~HasTail(sess[c])
    BY <2>1 DEF TailCovers
  <2>3. NoneOwed'
    BY <2>1, <2>2 DEF NoneOwed, HasTail, Shape, ClientOK
  <2> QED  BY <2>1, <2>3 DEF Shape, TailCovers
<1>2. CASE Accept
  <2>1. /\ sess' = sess /\ ready' = ready
        /\ todo' = {c \in Conn : c \in ToSet(session_set') /\ HasTail(sess[c])}
    BY <1>2 DEF Accept
  <2> QED  BY <2>1 DEF Shape, TailCovers, NoneOwed
<1>3. ASSUME NEW c \in Conn, ReadPacket(c)
      PROVE  Owing'
  <2>1. /\ phase = "visit" /\ phase' = phase /\ ready' = ready \ {c}
        /\ Dispatch(c, Received(c))
    BY <1>3 DEF ReadPacket, Receive, Visiting, Running
  <2>2. PICK r : ClientOK(r) /\ Update(c, r)
    BY <2>1, DispatchDoes DEF Shape
  <2>3. Shape' /\ \A d \in Conn : d # c => sess'[d] = sess[d]
    BY <2>2, Updated
  <2> QED  BY <2>1, <2>3, Visited
<1>4. ASSUME NEW c \in Conn, ReadRefused(c) \/ ReadBroken(c)
      PROVE  Owing'
  <2>1. /\ phase = "visit" /\ phase' = phase /\ ready' = ready \ {c}
        /\ Without(c)
    BY <1>4 DEF ReadRefused, ReadBroken, RemoveCurrent, Receive, Visiting, Running
  <2> QED  BY <2>1, WithoutOK, Visited
<1>5. ASSUME NEW c \in Conn, OnWildPointer(c)
      PROVE  Owing'
  <2>1. /\ phase = "visit" /\ phase' = phase /\ ready' = ready \ {c} /\ sess' = sess
    BY <1>5 DEF OnWildPointer, Receive, Visiting, Running
  <2> QED  BY <2>1, Visited DEF Shape
<1>6. ASSUME NEW c \in Conn, Write(c)
      PROVE  Owing'
  <2>1. phase = "visit" /\ phase' = phase /\ ready' = ready /\ c \notin ready
    BY <1>6 DEF Write, Visiting, Running
  <2> DEFINE r == [sess[c] EXCEPT !.send_buffer = Tail(sess[c].send_buffer)]
  <2>2. sess' = sess \/ Update(c, r)
    BY <1>6, Zenon DEF Write, Update
  <2>3. ClientOK(r)
    <3>1. IsClient(sess[c]) /\ (sess[c].is_scr <=> sess[c].state = "WaitScrInfo")
      BY DEF Shape, ClientOK
    <3>2. IsClient(r) /\ r.state = sess[c].state /\ SameScreens(sess[c], r)
      BY <3>1, SetSend, Zenon
    <3> HIDE DEF r
    <3> QED
      BY <3>1, <3>2 DEF ClientOK, SameScreens
  <2>4. Shape' /\ \A d \in Conn : d # c => sess'[d] = sess[d]
    <3> HIDE DEF r
    <3>1. CASE sess' = sess
      BY <3>1 DEF Shape
    <3>2. CASE Update(c, r)
      BY <2>3, <3>2, Updated
    <3> QED  BY <2>2, <3>1, <3>2
  <2> QED  BY <2>1, <2>4, Visited
<1>7. ASSUME NEW c \in Conn, WriteFails(c)
      PROVE  Owing'
  <2>1. phase = "visit" /\ phase' = phase /\ ready' = ready /\ c \notin ready /\ Without(c)
    BY <1>7 DEF WriteFails, RemoveCurrent, Visiting, Running
  <2> QED  BY <2>1, WithoutOK, Visited
<1>8. ASSUME NEW c \in Conn, TailStep(c)
      PROVE  Owing'
  <2>1. /\ todo' = todo \ {c} /\ ready' = ready /\ session_set' = session_set
        /\ phase = "tail" /\ phase' = phase
        /\ OnAcceptance(c) \/ (sess[c].is_scr /\ OnScreens(c))
    BY <1>8 DEF TailStep, Running
  <2>2. PICK r : ClientOK(r) /\ Update(c, r) /\ r.state \notin {"Acceptance", "WaitScrInfo"}
    BY <2>1, TailDoes DEF Shape
  <2>3. Shape' /\ sess'[c] = r /\ \A d \in Conn : d # c => sess'[d] = sess[d]
    BY <2>2, Updated
  <2>4. ~HasTail(r)
    BY <2>2 DEF HasTail, ClientOK
  <2>5. TailCovers'
    BY <2>1, <2>3, <2>4 DEF TailCovers
  <2>6. NoneOwed'
    BY <2>1, <2>2, <2>3 DEF NoneOwed
  <2> QED  BY <2>1, <2>3, <2>5, <2>6
<1>9. ASSUME NEW c \in Conn, TailThrows(c)
      PROVE  Owing'
  BY <1>9 DEF TailThrows, Shape, TailCovers, NoneOwed
<1> QED
  BY <1>1, <1>2, <1>3, <1>4, <1>5, <1>6, <1>7, <1>8, <1>9 DEF ServerNext

=============================================================================
