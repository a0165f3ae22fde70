# A verification development for the terminal monitor

This directory models the two programs of the repository, the server daemon
`yzmond` (`server/`) and the emulated terminal `ts` (`client/`), in TLA+. TLC
checks small instances of the models; TLAPS proves some of the results for
every value of the constants. Line numbers refer to the source of this commit.

## 1. Inventory

### The parts and their state

| part | source | state it keeps | operations |
|---|---|---|---|
| receive ring | `server/src/types.cpp` 6-75 | array, `front`, `rear`, `_num_free_bytes` | `enqueue`, `dequeue`, `current_packet_size` and the sizes |
| packet decoder | `types.cpp` 77-179 | none | `dequeue_packet`, with and without `is_scr` |
| transfer layer | `server/src/transfer.cpp` | `session_set`, the two fd sets | `select_loop`, `try_recv`, `try_send`, `accept_new_client`, `remove_client` |
| presentation layer | `server/src/presentation.cpp` | in `struct Client`: state, ports left, terminals counted and expected, screens due, send queue | `fsm`, ten states |
| database connection | `server/src/DatabaseConnection.cpp` | three tables, `global_number` | one method for each packet, `MysqlExecCommand` |
| emulated terminal | `client/client_communicate.cpp`, `client_lib.cpp` 15-25, 41-62 | last request, message to send, `terCount`, `screenCount`, the rows of `ts_count.xls` | `recv_msg`, `send_msg`, `client_pack_message`, `client_communicate`, the reconnecting loop |
| process pool | `client/client_lib.cpp` 3-39 | loop index, the children | fork, limit, wait, return |
| authentication string | `presentation.cpp` 807-830, `client/shared_library.cpp` 55-78 | none | `encrypt_auth`, `decrypt_auth` |
| server log | `server/src/log.cpp`, `yzmond.cpp` 23-50 | three streams with their positions, two limits, the levels | `getStream`, `getErrStream`, `getDBStream`, `log_init` |
| options, client log, USB and printer handlers | `parse_arguments.cpp`, `client/log.cpp`, part of `DatabaseConnection.cpp` | | not modelled, see 8 |

### How they interact

`ts` forks a child for each device. A child connects, then strictly answers:
it receives one request, packs one response (a send of the head, a send of the
data), and receives again, until the request is the end; it then appends a row
to `ts_count.xls` and exits. A failure makes it connect again.

`yzmond` is one thread. A pass of `select_loop` waits in `select()`; visits
each session of the list, reading it if it was readable (`try_recv`, then at
most one packet to `fsm`), and sending at most one request; accepts at most one
connection; and in a second loop runs `fsm` again for new sessions (the first
request) and for sessions whose screens are to be decoded. `fsm` takes a packet
from the session's ring, writes the database, and queues the next request. The
answers of all terminals are asked for at once, those of everything else one
after the other.

### What is hard in it, and what makes it correct

* **The ring.** Three fields say the same thing twice, wrap-around, a full ring
  that looks like an empty one, a header read across the end of the array.
  Correct: it is a FIFO store whose operations are all or nothing
  (`ImplementsFifo`), so that the size of the packet at the front, which is read
  twice, is the same both times (`SizeFieldKept`, a theorem).
* **Cutting the stream.** `try_recv`, the test of the size and
  `dequeue_packet` share a buffer and agree on nothing but its bytes: short
  reads, a structure taken without what follows it, unsigned differences.
  Correct: the `fsm` is handed the packets that were sent (`ImplementsStream`),
  and a size is read only from a header that is held, of the packet that is due
  (`SizeReadIsSent`).
* **The second loop.** A session between the two loops is in a state in which a
  packet must not reach it. Correct: no session that is read is owed anything
  (`NoneOwed`), and screens are decoded when all are held (`ScreensWhole`).
* **Counting terminals.** Requests, packets, screens and `tty_cnt` are handled
  in different handlers and passes. Correct: none is lost (`NoneLost`), and a
  session told that it is complete is complete in the tables (`EndIsComplete`).
* **Several devices.** They share the tables, the screen counter and the list
  the loop goes over; some break, some are refused, some fall silent. Correct: the others are
  kept (`KeptWhileConforming`; where a packet may arrive in part, which the
  code does not allow for, `KeptUnlessInPart`) and get to their end
  (`Completes`).
* **Breaking connections and server restarts.** Correct: dead sessions go
  (`GoneIsReaped`), a terminal that starts again agrees with the tables
  (`TtysAgree`, `NoneInvented`) and ends. The last the code does not keep in
  general (section 7): a terminal that reports more terminals than it has active
  waits for ever. `EveryoneEnds` says that it does, and that nobody else does.
* **Undefined behaviour.** An uninitialised header and pointer in
  `dequeue_packet`, a list element used after it was erased. Both are
  nondeterministic choices over their outcomes.
* **The connection to the database.** A statement whose answer is lost is
  repeated. Correct: a handler is still one step that happens once
  (`ImplementsAtomic`), and it ends (`Finishes`).
* **The log.** Three files are overwritten from their beginning when full.
  Correct: they stay within their sizes and the newest records can be read.
* **The pool.** One `waitpid` for each fork above a limit, `n_devid` more at the
  end. Correct: bounded, everyone reaped, nobody held up by a slow session.

`PROJECT.json` lists the hazards line by line with the properties that cover
them.

## 2. Plan

Written, in this order: `BoundedFifo`, `CircularQueue` and its proofs;
`Network`, `Database`, `Server`, `DeviceSessions` (server with abstract
devices); `Terminal`, `Collection` (server with the emulated terminals);
`ClientPool` and its proofs; the proofs of `NoneOwed` for the server in both
surroundings; `PacketStream` and `Framing`; `AuthCodec`, its proofs and its use
in `Server` and `Terminal`; `AtomicHandlers` and `MysqlExec`; silent devices;
`ServerLog` and its proofs; `MysqlExecProofs`; `StreamProofs` (what the server's
steps do to types, lists, rows and streams) and with it the types,
`OnlyAuthenticated`, `ScreensWhole`, `ScreensDistinct`, `EndIsComplete`,
`NoneLost` and `KeptUnlessInPart` in `SessionsProofs`, the types and
`ScreensWhole` in `CollectionProofs`.

To come, most important first:

1. `NoneInvented`, `TtysAgree` and `ScreensAgree` of `Collection`, which need the
   count of `NoneLost` against the counters of the processes.
2. The properties of `Framing`: `StreamIntact`, `SizeReadIsSent`,
   `CrashOnlyTorn`, `EndIsFaithful`.
3. `ImplementsAtomic`, `ImplementsStream` and `RepeatsBounded`. They rest on folds
   over sequences, whose laws would have to be stated for the sequences at hand.
4. A `send` of part of a request, and the table of descriptors: `accept` that
   fails, `FD_SETSIZE`, the descriptors that `remove_client` leaves open.

## 3. Modules

| module | what it is |
|---|---|
| `BoundedFifo` | abstract: a store of at most `Size` bytes, `Put` and `Get` all or nothing |
| `CircularQueue` | the ring; `MCCircularQueue` instantiates it, `CircularQueueProofs` proves it |
| `PacketStream` | abstract: the packets of a client handed on, whole and in order, until its session ends |
| `Framing` | one session byte by byte: `try_recv`, the test of the size, `dequeue_packet`; `MCFraming` |
| `AuthCodec` | `encrypt_auth` and `decrypt_auth`; their theorems are in `ServerProofs` |
| `Network` | external: TCP as the two programs use it, and the packets on it |
| `Database` | the three tables and one operator for each method the `fsm` calls |
| `AtomicHandlers` | abstract: handlers of `Database` that happen at once, once, and never fail |
| `MysqlExec` | `MysqlExecCommand` and `DatabaseInit`: the handlers statement by statement over a connection that breaks; `MCMysqlExec`, `MysqlExecProofs` |
| `Server` | `select_loop` and `fsm`, on `Network`, `Database` and `AuthCodec`; `ServerProofs` has what its steps preserve of the sessions, `StreamProofs` of the lists, the tables and what is in the connections |
| `DeviceSessions` | `Server` with devices of any shape that follow the protocol; `MCDeviceSessions` lists the devices, `SessionsProofs` |
| `Terminal` | a child of `ts` |
| `Collection` | `Server` and one `Terminal` for each device, restarts of the server; `MCCollection` gives its constants, `CollectionProofs` |
| `ClientPool` | `loop_client_fork`; `MCClientPool`, `ClientPoolProofs` |
| `ServerLog` | the log files of the server; `MCServerLog`, `ServerLogProofs` |

### Correspondence

**Bytes.** `CircularQueue` is over bytes. In `Network` and `Server` the bytes
of a packet are grouped in units: the head (the client's first `send`), the
body, and one unit for each screen behind the body. The receive buffer is the
sequence of units held, which is what `ImplementsFifo` entitles it to be.
`Capacity` is `kRecvBufferSize` in units. A head arrives in one piece in
`Server`; `Framing` has the pieces.

**Framing.** One session and its client, byte by byte, with the structures
shortened: what matters of a size is that the header is shorter than every
structure, that the client's first `send` (8 bytes) ends behind the header, and
that a screen is longer than anything a torn header can put into the stream.
`RecvHead` is one turn of the loop of `try_recv`: the piece is written over the
beginning of `tmp_buffer`, and as many bytes are enqueued as all pieces
together. `torn` remembers how many packets had been accepted when that first
happened; the mapping to `PacketStream` ends there. The state machine is reduced
to the type it waits for.

**Authentication.** A character is one bit, the exclusive or of a byte being
that of its bits. `Plain` puts one bit of data before the string. A device
without the key or the string sends what is some other string under the key:
this is no restriction, since encrypting is one to one. `RandomNums` is what
`rand()` may return.

**Arrival.** `Delivery` says how units reach the socket (`Bursts`):
`"segments"`, any number of units together, so that a read may end anywhere
between two units of a packet; `"packets"`, whole packets, any number of them
before a read; `"paced"`, whole packets, the next one after the last one was
read. Each is a subset of the one before it; the last two exist because the code
works properly only under them (section 7). TCP gives no more than
`"segments"`.

**Server.** `phase` is the loop of `select_loop` that is running and `todo` what
it has still to visit. `Select` is `reset_rw_fd_sets` and `select`;
`ReadPacket`, `ReadRefused`, `ReadBroken` are the three branches of lines
104-129, with `try_recv` in them; `Write` and `WriteFails` are `try_send`;
`Accept` ends the first loop; `TailStep` is a visit of the second.
`OnAuthResponse` ... `OnEnd`, `OnScreens` are the cases of `fsm`, each with its
database statements and what `dequeue_packet` takes. Visits in which nothing
would happen are not in `todo`.

`remove_client` erases the element on which the range-for stands.
`RemoveCurrent` lets the process die there or go on to the next session; after
`break` (`ReadBroken`) there is no such risk. `OnDumbTermResponse` and
`OnWildPointer` are the outcomes of the missing case for 0x0a: the process dies,
or the terminal and the number of its screens are whatever bytes were there, any
two of `WildByte`, and any part of the buffer is gone. The version
packet 0x00 has no case either; `fsm` accepts it in `WaitAuth` and looks for the
authentication string at the end of the wild pointer, so that the session is
refused or the process dies. That the string should happen to stand there is
left out. The second
alternative of `OnScreens` and `TailThrows` those of the header that
`dequeue_packet(true)` never fills. `GarbageHeader` says whether that header may
hold a harmful number. The memory is a fresh stack slot, and the length taken is
`packet_size - 96` without sign, 96 being `sizeof(ScreenInfoPacket)`. A value
below 96 wraps and `reserve` throws (`TailThrows`); with 96, or a difference
larger than what is held, the second `dequeue` takes nothing and all is well,
which is the case the other runs assume (`GarbageHeader = FALSE`); only with a
difference within what is held bytes are lost.

**Database.** A statement that fails is repeated until it does not
(`MysqlExecCommand`, lines 47-55), and the server does nothing else meanwhile, so a
handler with its statements is one step. `MysqlExec` is where this is checked:
there a handler is a list of statements, `Execute`, `ExecuteUnanswered`,
`QueryFails` and `QueryDuplicate` are the ways one `mysql_query` ends, and
`AtomicHandlers` is the step it must amount to, up to rows that stand twice. The
code does not give the keys of the tables, and `docs/yzmon-database-tables.pdf`,
which describes the tables, is an encrypted file that was not consulted: `Keyed`
names the tables that have a key. A statement that mysqld takes up only after it has lost the connection is
left out. Of a row the model keeps what
identifies it, and for a screen also whose bytes it was decoded from (`of`).

**Terminal.** `pc` follows `client_communicate`. `got` is `recv_message`, which
outlives a connection: after a failed first `recv` it is answered again
(`StaleFirst`), or there is nothing in it and the child pops from an empty
vector (`EmptyFirst`). A connection is `<<d, k>>`, the k-th try of device `d`;
the sockets of earlier tries stay open until the process ends, as in the code.
What `client_pack_message` draws at random is drawn from the constants
`TtySets`, `ScreenNums` and `Extra`, the last being by how much the terminals
configured are more than those active.

**Server restart.** `ServerDies` may happen between any two steps; the kernel
closes the connections (`Cut`), the tables stay, `global_number` starts again.

**Pool.** `pc` and `i` are the place in `loop_client_fork`. A child begins to
talk after its `prctl` call and from then on dies with its parent.

## 4. Runs

| run | instance | what it shows |
|---|---|---|
| `MCCircularQueue` | ring of 5, blocks up to 3, bytes 0 and 1 | the ring is the FIFO store |
| `framing` | six packets, ring of 28 bytes, pieces of any length, the client may close | packets reach the `fsm` whole and in order, sizes are read of headers held; what a header in pieces can do |
| `sessions_packets` | 2 devices of {2 ttys with 2+1 screens, 2 ports, last tty without screens, wrong last character, wrong first character}, 2 random numbers, packets | safety of the server with two sessions interleaved |
| `sessions_faults` | 2 devices, segments, deaths, a dumb terminal, a version packet, garbage headers | the loops and the removal of dead sessions hold up; a packet in part is the one reason to lose a session |
| `sessions_paced` | 2 of 7 devices, one of them silent, paced, fair | ordinary devices complete next to any other |
| `collection` | 2 terminals, segments, 1 or 2 ttys of 2 screens, as many or one more configured | rows of `ts_count.xls` and tables agree |
| `collection_restart` | 1 terminal, 3 tries, 2 kills, 1 or 2 ttys of 1 or 2 screens, as many or one more configured, paced, fair | the same over restarts, and it ends, or waits having one more configured |
| `statements` | 2 devices, 3 handlers, 2 breaks, keys on two tables, 3 connections, fair | handlers are single steps but for repeated rows, and end but for repeated duplicates |
| `pool` | 5 devices, limit 3, fork may fail, child 0 may last for ever, fair | bounded, reaped, nobody held up |
| `server_log` | files of 7, 4 and 0 bytes, margin 2, records up to 3 | the files stay within their sizes and keep the newest bytes |

The bounds. Five places in the ring with blocks of three make every pair of
positions and every way of wrapping occur, for the header too. Two sessions are
what it takes for one to be visited, removed or recorded in the middle of
another; the third and further ones would meet the same list. Of two initial
states in which the devices of the two connections are exchanged `PairSpec`
keeps one: the connections are told apart by nothing else. The devices
differ in what the handlers branch on: none, one, two or three ports, terminals
without and with several screens, more or fewer terminals configured than
active, a wrong authentication, a request that is not answered. `WildByte` =
{0, 3} has a terminal that does not exist, no screens, and more screens than any
device has; `Extra` = {0, 1}, with which a client of `ts` reports as many
terminals as it has active, or more: how many more the server cannot tell. A key of four
bits and a string of three, started at two places, go round the key. `ScrMod` = 4 is above the screens of a terminal, as
127 is above the at most 16 that `client/ts.conf` allows, and the counter passes
it during a run.
`Capacity` is large enough that the largest packet fits, as
102400 is, and small enough that what is sent in a row fills it. `MaxTries`, `MaxScreens`
and `MaxKills` bound what could go on for ever (connections, screens counted
over the tries, kills); `Connect`, `Refused` and `ServerDies` are guarded by
them. `OutOfBounds` excuses a terminal that ran into one of them.
The script of `framing` has every kind of packet the decoder tells apart (with
and without bytes behind the structure, with screens, without any, the end), and
two terminals in one flight; its ring holds the largest packet and a little
more, so that it is filled. Three handlers are a device's authentication and two
reports, or two devices in conflict; two breaks let a repeated statement fail
again; three connections are one more than a single leak needs. `MaxWritten` =
14 is twice the largest log: it is overwritten and wraps again. `Word` = 64 is
above every size, as 2^32 is. `CHECK_DEADLOCK FALSE`: when all devices have gone the server waits in
`select()`, and the pool ends.

The properties beyond those named in section 1: `RingConsistent` (the fields of
the ring agree), `ScreensDistinct` (the numbers
of one terminal's screens differ although one counter serves all devices), `OnlyAuthenticated` (what a wrong
authentication leaves behind: nothing), `ScreensAgree`, `StreamIntact`,
`CrashOnlyTorn`, `EndIsFaithful` (what a stream with a torn header may do and may
not), `RepeatsBounded`, `StuckAfterLoss`, `OneConnection` (what a lost answer
costs), `PoolBounded`, `AllReaped`, `Returns`, `OthersServed`.

Definitions whose comment says *variant for the checks* change one definition
of the model as a plausible mistake would; every property of every run fails
under one of them.

## 5. Fairness

`FairSpec` of `DeviceSessions`: weak fairness of the server as a whole, since it
is one thread that blocks only in `select()` (and there is no assumption about
which session it serves: its list decides), of the arrival of what was sent, and
of the device's answer and departure, but a silent device never answers the
request at which it falls silent. Connecting and dying are not fair. In
`Collection` every terminal is a process of its own, and a server that is down
is started again. In `ClientPool` the main process and the children are
scheduled, but the session of child 0 may never end. `MysqlExec` runs its loop,
which waits three seconds and tries again for ever, and a mysqld that has stopped
is started again; breaking is not fair.

## 6. Proofs

Checked by TLAPS for every value of the constants.

* `CircularQueueProofs`, from `SizeAssumption`, `ByteAssumption`,
  `MaxBatchAssumption` (a positive capacity, some bytes, some block size).
  `TypeCorrect`, `Consistent`, `Implements`, `SizeFieldKept`. The inductive invariant is
  `TypeOK /\ RingConsistent`: the types alone are not inductive, since that
  the index stays in step with the count is what makes a block land where it
  will be read. `Implements` shows that every call is a step of `BoundedFifo`
  under `contents`, the sequence of bytes from `front` on; its heart is that a
  byte written by `enqueue` is the byte at the same distance from `front`
  afterwards, in the four cases of wrapping, and that no old byte is touched.
  `SizeFieldKept`, which no run states: no call of `enqueue` changes the size read of a packet whose
  first four bytes are held. It rests on the same lemma (`EnqueueKeepsHeld`): the
  places a block is written to, from `rear` on and round the end, are free.
* `ClientPoolProofs`, from `PoolAssumption` (any limit, any number of devices).
  `PoolTyped`, `Bounded`, `Complete`. No variable counts the waits already made,
  so the bound is not inductive. `Counted` gives the size of the pool at each
  place of the two loops, `Order` says that devices are forked in order; with
  the types they are inductive. At the end `n <= n_devid - i` leaves nobody.

* `ServerLogProofs`, from `LogAssumption` (sizes that are 0 or at least the
  margin). `LogBounded` and `LogNewest`. The bound is not inductive by itself:
  `LogInv` adds that the position is never behind the end of the file, so that a
  record leaves no gap, and the types. For `NewestKept`, `TracksAll` says which
  byte of all that was ever logged is at which place of the file: before the
  position those of the current round, behind it those of the last.
* `MysqlExecProofs`, from `ExecAssumption`. `ExecTyped`; `ExecOneConnection`, by
  `Connections`: there is a connection left behind only while a statement that
  is refused as a duplicate is being repeated; `ExecStuckAfterLoss`, by
  `FreshInv`: as long as no answer was lost, the rows the rest of the script
  inserts are not in the tables yet.
* `ServerProofs`, from `CodecAssumption` (a key of bits of some length, a string
  of bits). `RoundTrip`: what was encrypted with the key is accepted;
  `OnlyFirstUnchecked`: what is accepted has the agreed string behind its first
  character. Both rest on `CryptedTwice`, which needs that the place in the key
  depends on nothing but the random number and the place in the block. The rest
  of the module, and all of `StreamProofs`, is lemmas on the server's steps,
  which the two surroundings of the server share.
* `SessionsNoneOwed` and `CollectionNoneOwed` need no assumption on a constant,
  also with deaths, garbage headers, undefined list elements and restarts.
  `NoneOwed` is about the first loop and knows nothing of what the second did
  before `select` was called again. `TailCovers` does: in the second loop every
  session that is owed something is still in `todo`, so that `select` starts with
  nobody owed. And as the second loop goes by `is_scr` but `fsm` by `state`,
  `Shape` says that the two agree in every session; that each handler keeps it is
  `DispatchOK`, `TailOK` and `WithoutOK`. `OwingStep` puts the server's actions
  together, the two surroundings only add that nobody else writes its variables
  and, for the restart, that a server that is down has no session
  (`NoneWhileDown`).
* `SessionsProofs`, the invariant `Sound`. `Typed(P)` says what each connection may
  hold, P[c] being the packets its device can send, in every place a packet can be
  (wire, socket, buffer); `Lists` that the lists of the server are of different
  connections, and that a connection on none of them has a new session; `Quiet`
  that a connection not used yet is on no list; `RowsTyped` and `Identified`
  whose rows there are and whose name a session has taken. They need each other:
  the rows are typed because a session past `WaitAuth` has the name its own
  device sent, and it has because a session in the list is not replaced by a new
  one. `SessionsTyped` and `SessionsAuthenticated` follow from it; the latter with
  `OnlyFirstUnchecked` and devices of different names (`Distinct`).
* `SessionsScreensWhole`, for `Dumb = {}`: a dumb terminal's answer is decoded
  through a pointer that was never set, and may turn out to be of any terminal.
  The server takes a packet from the buffer as soon as the size held suffices,
  and the screens without looking. `Streams` says why that goes well: what is in
  the buffer, the socket and on the wire of one connection is together `Framed`
  (behind the head of a packet comes the rest of it) and, while the device is
  there, `Complete`. A step of the server takes something from the front of a
  stream (`ServerStream`), a device appends a whole packet, a death cuts off the
  end; each keeps a stream framed.
* `SessionsScreensDistinct`, for `Dumb = {}` and at most `ScrMod` screens to a
  terminal: the numbers come from one counter, so that more screens than numbers
  would meet the first again (127 numbers, while `client/ts.conf` allows 16
  screens). A terminal of which two packets came would get numbers twice.
  `Order` excludes that: the terminals in the answers under way, in the requests
  sent and in the requests queued come in rising order, all above the terminal
  of the last row. `Numbering` relates the rows to it. That the requests rise
  rests on `SortedExists`: every finite set of numbers can be put in order. It is
  proved by a least counterexample (`LeastNat`) in place of an induction.
* `SessionsEndIsComplete`, for `Dumb = {}` and `~GarbageHeader`: the header that
  `dequeue_packet(true)` leaves uninitialised never makes it take or lose bytes.
  `Recording` says what the tables hold of a device: as long as no other session
  emptied them since its own did, exactly what its session has taken so far
  (`Counts`, the rows; `Shows`, the columns of its row in the table of devices;
  `Kept`, which session emptied the tables last). At the end there are then as
  many rows of terminals as the device has terminals; by `Order` none of them
  comes twice, so they are all of them.
* `SessionsNoneLost`, under the same hypotheses. The invariant is `Account`: with a
  session past the report of its terminals, the terminal answers still to come
  (`Due`: those in the stream and those asked for by a request under way)
  and those recorded are together the terminals of the device. Every step keeps
  the sum: a read takes one from the stream and records it, an answer of the
  device turns a request into a packet, a `send` moves requests, and the report
  of the terminals adds a request for each. `CountShifted` and `CountJoin` are
  the laws of counting in sequences this rests on. That the sum is set once is
  `ReportedOnce`: by `Order` there is no request of a terminal before the report
  and no second report after it.
* `SessionsKept`, under the same hypotheses and one more, that a conforming device
  sends no packet larger than the buffer (`Room`); nothing is assumed of the
  delivery. It proves the action property `KeptUnlessInPart`. A session is
  dropped in three ways (`Dropped`): the read fails or finds part of a packet, the
  packet is refused, or the `send` fails. Three invariants leave only the part of a
  packet. `Attentive`: what `select` found readable has bytes as long as the client
  is there. `Steady`: what the fsm has not taken begins with a head, the screens
  left to the second loop apart (`Skip`); so a read finds the packet of that head
  whole, or the buffer and the socket held no more than a part of it
  (`ReadsWhole`). `Agreeing`: all packets and requests under way are of the types
  the state of the session waits for, and before the terminals are asked about
  there are no more of them than `ethnum` or one (`Agenda`), so that a state left
  leaves none of its packets behind; that the state `End` leaves none is
  `Account`. That a conforming device's string is accepted is `RoundTrip`.
* `CollectionProofs`, for `Dumb = {}` (no emulated terminal is dumb): the
  invariant `SystemOK` has the parts of `Sound`, with `Sent` and `Owner` for what a
  terminal process can send and whose a connection is; `Processes`, the types of
  the terminals; `Unopened`, that connections not opened yet are idle, so that a
  new one is on no list; and `Empty`, what a server that is down has.
  `CollectionTyped` follows. For `CollectionScreensWhole` the streams need more
  than with the devices of `DeviceSessions`: a terminal sends the head and the
  data of a packet in two steps, between which the server may read, die and
  come again. `Unbroken` counts the data a process still owes (`Owed`) with the
  stream of its current connection; a death of the server empties the streams,
  and after it the process never sends the data to the next connection.

The liveness properties (`Returns`, `OthersServed`, `Completes`, `GoneIsReaped`,
`EveryoneEnds`, `Finishes`) are out of the prover's reach. `ImplementsAtomic`,
`ImplementsStream` and `RepeatsBounded` compare with folds over sequences, and so
does `StreamIntact`; `TtysAgree`, `ScreensAgree` and `NoneInvented` relate the
count of `NoneLost` to the counters of the processes of `Terminal`. These and the
other properties of `Framing` are model-checked only.

## 7. Where the code and what is said of it part

Runs whose property the code violates, each with its counterexample:

| run | statement | what the code does |
|---|---|---|
| `sessions_refused` | `transfer.hpp:38`: kick a client with a wrong password | goes on with the erased list element; the process may die |
| `collection_coalesced` | `README.md:50`: the transmission ends, all children are recycled (`AllEnd`) | one packet is handled for a readable event; what else was received waits in the ring |

For this reason, and for the first two below, `Completes` is about devices with as many terminals configured
as active, `EveryoneEnds` allows the others to wait for ever (`Outnumbered`), and
both run under `"paced"`; `KeptWhileConforming` runs under `"packets"`, and what is
left of it under `"segments"` is `KeptUnlessInPart`; `TtysAgree` and `ScreensAgree`
are about the device that authenticated last.

Also met while modelling, present in the model and not the subject of a run:
the end of a session waits for as many terminals as are configured
(`presentation.cpp:659`, `736`), while the active ones are asked about, and
`client_communicate.cpp:402` nearly always draws more configured ones, so that the
child never ends, although `README.md:50` has all children recycled: `AllEnd` fails for this also
under `"paced"`, and in the passing run `collection_restart` the second part of
`EveryoneEnds` shows the waiting terminals; less than `packet_size` held is an error,
so that the head of a packet arriving by itself (`client_communicate.cpp:715`) is
enough to lose the session, although `transfer.hpp:45` says that a read may leave a
packet in part: `KeptWhileConforming` fails under `"segments"`;
the tables keep only what came since the last authentication, which deletes all
rows of all devices, although `README.md:80` wants the sums of dev, ttyinfo and
scrinfo identical (`DatabaseConnection.cpp:79`); the socket of a removed session
is not closed and its client waits for ever, although `presentation.hpp:16` says
the connection is killed (`transfer.cpp:264`); `decrypt_auth` does not compare the
first character of the string (`presentation.cpp:824`; hence `OnlyAuthenticated`
leaves it out); a header that comes in pieces is put together wrongly
(`transfer.cpp:23-24`), after which the session is removed or the size wraps and
the process dies; a duplicate row is not recognised by the test for it, since
`substr(3)` is what follows the first three characters (`DatabaseConnection.cpp:48`),
so that the server reconnects for ever, each time leaving a connection behind
(line 54);
the answer of a dumb terminal is decoded through an uninitialised pointer
(`types.cpp:108`); the header of a screen is never filled in (`types.cpp:93`); `screenCount` is never reset, so that a terminal that had to reconnect
counts the screens of both tries (`client_communicate.cpp:464`; hence
`NoneInvented` compares with `<=` and `collection_restart` does not check
`ScreensAgree`); SIGPIPE ends a child that writes to a server that has gone,
although `client_lib.cpp:17` says it only terminates if the communication
succeeded; when `fork` fails the parent's exit ends the children by SIGHUP
(`client_lib.cpp:11-14`); `kNumProcess + 1` children coexist
(`client_lib.cpp:29`, `README.md:88`; hence the bound of `PoolBounded`).

## 8. Not modelled

* The table of descriptors and a `send` that takes part of a request (it is kept
  and sent on, `transfer.cpp:72-75`): planned above.
* The death of the server between two statements of one handler: `ServerDies`
  takes handlers whole.
* USB and printer methods of `DatabaseConnection`: nothing calls them.
* The client's log (`client/log.cpp`): every record is flushed, nothing is
  limited; the copy of the logs on the screen (`TeeBuf`) and `logify_data`: layout
  of output. Options (`parse_arguments.cpp`): read before anything runs.
* Concurrent appends of the children to `ts_count.xls`: each child writes one
  short line to a descriptor opened before the fork; the model appends it whole.
* Statements to the database that fail for good other than as duplicates: the
  server would repeat them for ever and serve nobody.
* `test/`: a mock server and drivers.
