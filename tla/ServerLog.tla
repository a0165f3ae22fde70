------------------------------ MODULE ServerLog ------------------------------
(***************************************************************************)
(* fly::Log (server/src/log.cpp, server/include/log.hpp) and log_init      *)
(* (server/src/yzmond.cpp): three log files of a configured size, written  *)
(* from the beginning again when they are full.  A byte is the number it   *)
(* has among all that were written to its stream.                          *)
(***************************************************************************)
EXTENDS Integers, Sequences

CONSTANTS LogSize,     \* the configured sizes, by stream
          kSub,        \* the margin kept for the last record
          Word,        \* u_int is taken modulo this
          LogEnv,      \* the levels switched on in yzmond.conf
          MaxRecord,   \* bound: the longest record
          MaxWritten   \* bound: bytes written to all streams

Stream == {"log", "err", "db"}

(* send, receive and their data, of packets and of sockets. *)
Level == {"TP_S", "TP_R", "TP_SD", "TP_RD", "TS_S", "TS_R", "TS_SD", "TS_RD",
          "DP_S", "DP_R", "DP_SD", "DP_RD", "DS_S", "DS_R", "DS_SD", "DS_RD", "Debug"}

(* yzmond.conf gives sizes in KB, so that one is 0 or at least kSub. *)
ASSUME LogAssumption ==
  /\ {kSub, Word, MaxRecord, MaxWritten} \subseteq Nat \ {0}
  /\ DOMAIN LogSize = Stream
  /\ \A s \in Stream : LogSize[s] = 0 \/ LogSize[s] \in kSub..(Word - 1)
  /\ LogEnv \subseteq Level \ {"Debug"}

VARIABLES file,     \* file[s]: the bytes of the file, <<>> for /dev/null
          pos,      \* tellp() of its stream
          written   \* bytes written to it

vars == <<file, pos, written>>

-----------------------------------------------------------------------------
(* Variant for the checks: no room is kept for the last record. *)
WholeSize(s) == LogSize[s]

(* m_mainLogSize, m_subLogSize: an unsigned difference. *)
Limit(s) == (LogSize[s] + Word - kSub) % Word

(* Variant for the checks: the file is opened whatever its size. *)
NeverDiscarded(s) == LogSize[s] < 0

Discarded(s) == LogSize[s] = 0   \* /dev/null is opened

Init == /\ file = [s \in Stream |-> <<>>]
        /\ pos = [s \in Stream |-> 0]
        /\ written = [s \in Stream |-> 0]

(* Variant for the checks: the file is opened again, which empties it. *)
Emptied(f) == <<>>

(* What a seekp(0) leaves of the file. *)
Rewound(f) == f

Max2(a, b) == IF a > b THEN a ELSE b

(* n bytes from position p on: they replace what is there. *)
Overwrite(f, p, first, n) ==
  [i \in 1..Max2(Len(f), p + n) |-> IF i > p /\ i <= p + n THEN first + (i - p) - 1 ELSE f[i]]

(* The check all getters make before they return their stream. *)
Position(s) == IF pos[s] > Limit(s) THEN 0 ELSE pos[s]

Kept(s) == IF pos[s] > Limit(s) THEN Rewound(file[s]) ELSE file[s]

(* getStream(), getErrStream(), getDBStream() and a record of n bytes.     *)
Put(s, n) ==
  /\ written[s] + n <= MaxWritten
  /\ written' = [written EXCEPT ![s] = @ + n]
  /\ IF Discarded(s)
       THEN UNCHANGED <<file, pos>>
       ELSE /\ file' = [file EXCEPT ![s] = Overwrite(Kept(s), Position(s), written[s] + 1, n)]
            /\ pos' = [pos EXCEPT ![s] = Position(s) + n]

(* getStream(level): the void stream for a level that is not switched on,  *)
(* after the position was checked all the same.  Debug cannot be switched  *)
(* off.                                                                    *)
Silent(level) == level # "Debug" /\ level \notin LogEnv

LogAt(level, n) ==
  \/ ~Silent(level) /\ Put("log", n)
  \/ /\ Silent(level)
     /\ pos' = [pos EXCEPT !["log"] = Position("log")]
     /\ file' = [file EXCEPT !["log"] = Kept("log")]
     /\ UNCHANGED written

Next == \E n \in 1..MaxRecord : \/ \E level \in Level : LogAt(level, n)
                                \/ \E s \in Stream : Put(s, n)

Spec == Init /\ [][Next]_vars

-----------------------------------------------------------------------------
(* No file grows over its configured size by more than the longest record  *)
(* is longer than the margin, and one of size 0 does not grow, although    *)
(* the limit it is compared with wraps to the largest number.              *)
Bound(s) == IF LogSize[s] = 0 THEN 0 ELSE LogSize[s] - kSub + MaxRecord

SizeBounded == \A s \in Stream : Len(file[s]) <= Bound(s)

(* What was logged last can be read, up to the configured size less the    *)
(* margin, also while the file is being written again from its beginning   *)
(* and after silenced records have moved its position.                     *)
NewestKept ==
  \A s \in Stream : LogSize[s] > 0 =>
    LET first == written[s] - (LogSize[s] - kSub)
    IN  \A b \in 1..written[s] : b >= first => \E i \in DOMAIN file[s] : file[s][i] = b

=============================================================================
