--------------------------- MODULE ServerLogProofs ---------------------------
(***************************************************************************)
(* SizeBounded and NewestKept, for every size of the files, margin and     *)
(* length of records.                                                      *)
(***************************************************************************)
EXTENDS ServerLog, TLAPS

(* The bound is for the position first: a record is written where the      *)
(* stream stands, which is never behind the end of the file, so that there *)
(* is no gap, and makes the file longer only from there.                   *)
LogInv ==
  /\ file \in [Stream -> Seq(Nat)]
  /\ pos \in [Stream -> Nat]
  /\ written \in [Stream -> Nat]
  /\ \A s \in Stream : pos[s] <= Len(file[s]) /\ Len(file[s]) <= Bound(s)

(* The unsigned difference does not wrap for a file that is not discarded. *)
LEMMA LimitOf == ASSUME NEW s \in Stream, ~Discarded(s)
                 PROVE  Limit(s) = LogSize[s] - kSub /\ Limit(s) \in Nat
<1>1. /\ LogSize[s] \in kSub..(Word - 1)
      /\ kSub \in Nat \ {0} /\ Word \in Nat \ {0}
  BY LogAssumption DEF Discarded
<1>2. (LogSize[s] + Word - kSub) % Word = LogSize[s] - kSub
  BY <1>1
<1> QED
  BY <1>1, <1>2 DEF Limit

LEMMA BoundOf == ASSUME NEW s \in Stream
                 PROVE  /\ Bound(s) \in Nat
                        /\ ~Discarded(s) => Bound(s) = Limit(s) + MaxRecord
<1>1. MaxRecord \in Nat /\ kSub \in Nat
  BY LogAssumption
<1>2. CASE Discarded(s)
  BY <1>2 DEF Bound, Discarded
<1>3. CASE ~Discarded(s)
  BY <1>1, <1>3, LimitOf DEF Bound, Discarded
<1> QED
  BY <1>2, <1>3

(* After the check of the position there is room for the margin. *)
LEMMA PositionOf == ASSUME LogInv, NEW s \in Stream, ~Discarded(s)
                    PROVE  /\ Position(s) \in Nat /\ Position(s) <= Limit(s)
                           /\ Position(s) <= Len(file[s]) /\ Kept(s) = file[s]
<1>1. /\ pos[s] \in Nat /\ Limit(s) \in Nat
      /\ pos[s] <= Len(file[s]) /\ Len(file[s]) \in Nat
  BY LimitOf DEF LogInv
<1> QED
  BY <1>1 DEF Position, Kept, Rewound

(* What a record makes of a file. *)
LEMMA Overwritten ==
  ASSUME NEW f \in Seq(Nat), NEW p \in 0..Len(f), NEW first \in Nat \ {0}, NEW n \in Nat
  PROVE  /\ Overwrite(f, p, first, n) \in Seq(Nat)
         /\ Len(Overwrite(f, p, first, n)) = Max2(Len(f), p + n)
<1> DEFINE len == Max2(Len(f), p + n)
           byte(i) == IF i > p /\ i <= p + n THEN first + (i - p) - 1 ELSE f[i]
<1>1. Len(f) \in Nat /\ len \in Nat
  BY DEF Max2
<1>2. ASSUME NEW i \in 1..len
      PROVE  byte(i) \in Nat
  <2>1. CASE i > p /\ i <= p + n
    BY <2>1, <1>1
  <2>2. CASE ~(i > p /\ i <= p + n)
    <3>1. i \in 1..Len(f)
      <4>1. i <= Len(f) \/ i <= p + n
        BY <1>1 DEF Max2
      <4>2. i <= p \/ i > p + n
        BY <1>1, <2>2
      <4> QED
        BY <1>1, <4>1, <4>2
    <3> QED
      BY <2>2, <3>1
  <2> QED
    BY <2>1, <2>2
<1>3. Overwrite(f, p, first, n) = [i \in 1..len |-> byte(i)]
  BY DEF Overwrite
<1>4. Overwrite(f, p, first, n) \in [1..len -> Nat]
  <2> HIDE DEF byte, len
  <2> QED
    BY <1>2, <1>3
<1> HIDE DEF len
<1>5. ASSUME NEW g \in [1..len -> Nat]
      PROVE  g \in Seq(Nat) /\ Len(g) = len
  BY <1>1
<1>6. /\ Overwrite(f, p, first, n) \in Seq(Nat)
      /\ Len(Overwrite(f, p, first, n)) = len
  BY <1>4, <1>5
<1> QED
  BY <1>6 DEF len

LEMMA LogInit == Init => LogInv
<1> SUFFICES ASSUME Init
             PROVE  LogInv
  OBVIOUS
<1>1. /\ file = [s \in Stream |-> <<>>] /\ pos = [s \in Stream |-> 0]
      /\ written = [s \in Stream |-> 0]
  BY DEF Init
<1>2. \A s \in Stream : pos[s] <= Len(file[s]) /\ Len(file[s]) <= Bound(s)
  BY <1>1, BoundOf
<1> QED
  BY <1>1, <1>2 DEF LogInv

(* A record written to a stream. *)
LEMMA PutStep ==
  ASSUME LogInv, NEW s \in Stream, NEW n \in 1..MaxRecord, Put(s, n)
  PROVE  LogInv'
<1>1. /\ written' = [written EXCEPT ![s] = @ + n]
      /\ written' \in [Stream -> Nat]
      /\ written[s] \in Nat /\ n \in Nat /\ n <= MaxRecord /\ MaxRecord \in Nat
  BY LogAssumption DEF Put, LogInv
<1>2. CASE Discarded(s)
  BY <1>1, <1>2 DEF Put, LogInv
<1>3. CASE ~Discarded(s)
  <2> DEFINE new == Overwrite(file[s], Position(s), written[s] + 1, n)
  <2>1. /\ file' = [file EXCEPT ![s] = new]
        /\ pos' = [pos EXCEPT ![s] = Position(s) + n]
    BY <1>3, PositionOf DEF Put
  <2>2. /\ Position(s) \in Nat /\ Position(s) <= Limit(s) /\ Limit(s) \in Nat
        /\ Position(s) <= Len(file[s])
        /\ Bound(s) = Limit(s) + MaxRecord
    BY <1>3, PositionOf, LimitOf, BoundOf
  <2>3. file[s] \in Seq(Nat) /\ Len(file[s]) \in Nat /\ Len(file[s]) <= Bound(s)
    BY DEF LogInv
  <2>4. new \in Seq(Nat) /\ Len(new) = Max2(Len(file[s]), Position(s) + n)
    <3>1. written[s] + 1 \in Nat \ {0} /\ Position(s) \in 0..Len(file[s])
      BY <1>1, <2>2, <2>3
    <3> QED
      BY <1>1, <2>2, <2>3, <3>1, Overwritten
  <2>5. Len(new) <= Bound(s) /\ Position(s) + n <= Len(new)
    BY <1>1, <2>2, <2>3, <2>4 DEF Max2
  <2> HIDE DEF new
  <2>6. /\ file' \in [Stream -> Seq(Nat)]
        /\ pos' \in [Stream -> Nat]
    BY <1>1, <2>1, <2>2, <2>4 DEF LogInv
  <2>7. ASSUME NEW t \in Stream
        PROVE  pos'[t] <= Len(file'[t]) /\ Len(file'[t]) <= Bound(t)
    BY <2>1, <2>5 DEF LogInv
  <2> QED
    BY <1>1, <2>6, <2>7 DEF LogInv, Bound
<1> QED
  BY <1>2, <1>3

(* A record that is silenced checks the position all the same. *)
LEMMA SilentStep ==
  ASSUME LogInv,
         pos' = [pos EXCEPT !["log"] = Position("log")],
         file' = [file EXCEPT !["log"] = Kept("log")],
         UNCHANGED written
  PROVE  LogInv'
<1>1. "log" \in Stream
  BY DEF Stream
<1>2. Kept("log") = file["log"] /\ Position("log") \in {0, pos["log"]}
  BY DEF Kept, Position, Rewound
<1>3. Len(file["log"]) \in Nat
  BY <1>1 DEF LogInv
<1>4. file' = file
  BY <1>1, <1>2 DEF LogInv
<1>5. pos' \in [Stream -> Nat]
  BY <1>1, <1>2 DEF LogInv
<1>6. ASSUME NEW t \in Stream
      PROVE  pos'[t] <= Len(file[t])
  BY <1>1, <1>2, <1>3 DEF LogInv
<1> QED
  BY <1>4, <1>5, <1>6 DEF LogInv, Bound

LEMMA LogStep == LogInv /\ [Next]_vars => LogInv'
<1> SUFFICES ASSUME LogInv, [Next]_vars
             PROVE  LogInv'
  OBVIOUS
<1>1. CASE UNCHANGED vars
  BY <1>1 DEF vars, LogInv, Bound
<1>2. CASE Next
  <2>1. PICK n \in 1..MaxRecord : (\E level \in Level : LogAt(level, n)) \/ (\E s \in Stream : Put(s, n))
    BY <1>2 DEF Next
  <2>2. CASE \E s \in Stream : Put(s, n)
    BY <2>2, PutStep
  <2>3. CASE \E level \in Level : LogAt(level, n)
    <3>1. PICK level \in Level : LogAt(level, n)
      BY <2>3
    <3>2. CASE Put("log", n)
      BY <3>2, PutStep DEF Stream
    <3>3. CASE ~Put("log", n)
      BY <3>1, <3>3, SilentStep DEF LogAt
    <3> QED
      BY <3>2, <3>3
  <2> QED
    BY <2>1, <2>2, <2>3
<1> QED
  BY <1>1, <1>2

(* No log file grows over its configured size by more than its longest     *)
(* record is longer than the margin; a discarded one does not grow.        *)
THEOREM LogBounded == Spec => []SizeBounded
<1>1. LogInv => SizeBounded
  BY DEF LogInv, SizeBounded
<1> QED
  BY <1>1, LogInit, LogStep, PTL DEF Spec

-----------------------------------------------------------------------------
(* What a file holds of the w bytes written to it when the stream stands   *)
(* at p: before p the newest, in order; behind p, unless this is the first *)
(* time through, those before them, up to a place e over the limit, which  *)
(* is where the stream turned back.  NewestKept by itself says nothing of  *)
(* where a byte is, so not that the next record spares it.                 *)
Tracks(f, p, w, limit) ==
  /\ p <= w
  /\ \A i \in 1..p : f[i] = w - p + i
  /\ w = p \/ \E e \in (limit + 1)..Len(f) : \A i \in (p + 1)..e : f[i] = w - p - e + i

TracksAll ==
  \A s \in Stream : ~Discarded(s) => Tracks(file[s], pos[s], written[s], Limit(s))

(* What stands where after a record. *)
LEMMA OverwrittenByte ==
  ASSUME NEW f \in Seq(Nat), NEW p \in 0..Len(f), NEW first \in Nat \ {0}, NEW n \in Nat
  PROVE  /\ Len(Overwrite(f, p, first, n)) = Max2(Len(f), p + n)
         /\ \A i \in 1..Max2(Len(f), p + n) :
              Overwrite(f, p, first, n)[i] =
                IF i > p /\ i <= p + n THEN first + (i - p) - 1 ELSE f[i]
<1>1. Len(Overwrite(f, p, first, n)) = Max2(Len(f), p + n)
  BY Overwritten
<1>2. \A i \in 1..Max2(Len(f), p + n) :
        Overwrite(f, p, first, n)[i] =
          IF i > p /\ i <= p + n THEN first + (i - p) - 1 ELSE f[i]
  BY Zenon DEF Overwrite
<1> QED
  BY <1>1, <1>2

(* A record behind the newest bytes. *)
LEMMA WriteTracks ==
  ASSUME NEW f \in Seq(Nat), NEW p \in 0..Len(f), NEW w \in Nat, NEW limit \in Nat,
         NEW n \in Nat, Tracks(f, p, w, limit)
  PROVE  Tracks(Overwrite(f, p, w + 1, n), p + n, w + n, limit)
<1> DEFINE g == Overwrite(f, p, w + 1, n)
           len == Max2(Len(f), p + n)
<1>1. /\ Len(f) \in Nat /\ p \in Nat /\ p <= Len(f)
      /\ len \in Nat /\ Len(f) <= len /\ p + n <= len
  BY DEF Max2
<1>2. /\ Len(g) = len
      /\ \A i \in 1..len : g[i] = IF i > p /\ i <= p + n THEN w + 1 + (i - p) - 1 ELSE f[i]
  <2>1. w + 1 \in Nat \ {0}
    OBVIOUS
  <2> QED
    BY <2>1, OverwrittenByte
<1> HIDE DEF g, len
<1>3. p + n <= w + n
  BY <1>1 DEF Tracks
<1>4. ASSUME NEW i \in 1..(p + n)
      PROVE  g[i] = (w + n) - (p + n) + i
  <2>1. i \in 1..len
    BY <1>1
  <2>2. CASE i > p
    BY <1>1, <1>2, <2>1, <2>2
  <2>3. CASE i <= p
    <3>1. g[i] = f[i] /\ i \in 1..p
      BY <1>1, <1>2, <2>1, <2>3
    <3> QED
      BY <1>1, <3>1 DEF Tracks
  <2> QED
    BY <1>1, <2>2, <2>3
<1>5. ASSUME w # p
      PROVE  \E e \in (limit + 1)..Len(g) :
               \A i \in (p + n + 1)..e : g[i] = (w + n) - (p + n) - e + i
  <2>1. PICK e \in (limit + 1)..Len(f) : \A i \in (p + 1)..e : f[i] = w - p - e + i
    BY <1>5 DEF Tracks
  <2>2. e \in (limit + 1)..Len(g)
    BY <1>1, <1>2
  <2>3. ASSUME NEW i \in (p + n + 1)..e
        PROVE  g[i] = (w + n) - (p + n) - e + i
    <3>1. i \in 1..len /\ i > p + n /\ i \in (p + 1)..e
      BY <1>1
    <3>2. g[i] = f[i]
      BY <1>1, <1>2, <3>1
    <3> QED
      BY <1>1, <2>1, <3>1, <3>2
  <2> QED
    BY <2>2, <2>3
<1>6. Tracks(g, p + n, w + n, limit)
  BY <1>1, <1>3, <1>4, <1>5 DEF Tracks
<1> QED
  BY <1>6 DEF g

(* The stream turns back, which it does over the limit only. *)
LEMMA RewindTracks ==
  ASSUME NEW f \in Seq(Nat), NEW p \in 0..Len(f), NEW w \in Nat, NEW limit \in Nat,
         Tracks(f, p, w, limit), p > limit
  PROVE  Tracks(f, 0, w, limit)
<1>1. p \in (limit + 1)..Len(f) /\ p \in Nat
  OBVIOUS
<1>2. \A i \in (0 + 1)..p : f[i] = w - 0 - p + i
  BY <1>1 DEF Tracks
<1> QED
  BY <1>1, <1>2 DEF Tracks

(* The check of the position. *)
LEMMA PositionTracks ==
  ASSUME LogInv, TracksAll, NEW s \in Stream, ~Discarded(s)
  PROVE  Tracks(file[s], Position(s), written[s], Limit(s))
<1>1. /\ file[s] \in Seq(Nat) /\ pos[s] \in 0..Len(file[s]) /\ written[s] \in Nat
      /\ Limit(s) \in Nat
      /\ Tracks(file[s], pos[s], written[s], Limit(s))
  BY LimitOf DEF LogInv, TracksAll
<1>2. CASE pos[s] > Limit(s)
  BY <1>1, <1>2, RewindTracks DEF Position
<1>3. CASE ~(pos[s] > Limit(s))
  BY <1>1, <1>3 DEF Position
<1> QED
  BY <1>2, <1>3

LEMMA TracksInit == Init => TracksAll
<1> SUFFICES ASSUME Init, NEW s \in Stream
             PROVE  Tracks(file[s], pos[s], written[s], Limit(s))
  BY DEF TracksAll
<1>1. pos[s] = 0 /\ written[s] = 0
  BY DEF Init
<1> QED
  BY <1>1 DEF Tracks

(* A stream of which nothing changes. *)
LEMMA TracksKept ==
  ASSUME TracksAll, NEW s \in Stream, ~Discarded(s),
         file'[s] = file[s], pos'[s] = pos[s], written'[s] = written[s]
  PROVE  Tracks(file'[s], pos'[s], written'[s], Limit(s))
BY Zenon DEF TracksAll

LEMMA TracksPut ==
  ASSUME LogInv, TracksAll, NEW s \in Stream, NEW n \in 1..MaxRecord, Put(s, n)
  PROVE  TracksAll'
<1> SUFFICES ASSUME NEW t \in Stream, ~Discarded(t)
             PROVE  Tracks(file'[t], pos'[t], written'[t], Limit(t))
  BY DEF TracksAll, Limit, Discarded
<1>1. /\ file \in [Stream -> Seq(Nat)] /\ pos \in [Stream -> Nat]
      /\ written \in [Stream -> Nat] /\ n \in Nat
      /\ written' = [written EXCEPT ![s] = @ + n]
  BY LogAssumption DEF Put, LogInv
<1>2. CASE t # s
  <2>1. /\ file' = file \/ \E g : file' = [file EXCEPT ![s] = g]
        /\ pos' = pos \/ \E q : pos' = [pos EXCEPT ![s] = q]
    BY Zenon DEF Put
  <2>2. file'[t] = file[t] /\ pos'[t] = pos[t] /\ written'[t] = written[t]
    BY <1>1, <1>2, <2>1
  <2> QED
    BY <2>2, TracksKept
<1>3. CASE t = s
  <2> DEFINE new == Overwrite(file[s], Position(s), written[s] + 1, n)
  <2>1. /\ file' = [file EXCEPT ![s] = new]
        /\ pos' = [pos EXCEPT ![s] = Position(s) + n]
    BY <1>3, PositionOf DEF Put
  <2>2. /\ file[s] \in Seq(Nat) /\ Position(s) \in 0..Len(file[s])
        /\ written[s] \in Nat /\ Limit(s) \in Nat
    BY <1>1, <1>3, PositionOf, LimitOf DEF LogInv
  <2>3. Tracks(new, Position(s) + n, written[s] + n, Limit(s))
    BY <1>1, <1>3, <2>2, PositionTracks, WriteTracks
  <2> HIDE DEF new
  <2>4. file'[s] = new /\ pos'[s] = Position(s) + n /\ written'[s] = written[s] + n
    BY <1>1, <2>1
  <2> QED
    BY <1>3, <2>3, <2>4
<1> QED
  BY <1>2, <1>3

LEMMA TracksSilent ==
  ASSUME LogInv, TracksAll,
         pos' = [pos EXCEPT !["log"] = Position("log")],
         file' = [file EXCEPT !["log"] = Kept("log")],
         UNCHANGED written
  PROVE  TracksAll'
<1> SUFFICES ASSUME NEW t \in Stream, ~Discarded(t)
             PROVE  Tracks(file'[t], pos'[t], written'[t], Limit(t))
  BY DEF TracksAll, Limit, Discarded
<1>1. /\ file \in [Stream -> Seq(Nat)] /\ pos \in [Stream -> Nat]
      /\ "log" \in Stream
  BY DEF LogInv, Stream
<1>2. CASE t # "log"
  BY <1>1, <1>2, TracksKept
<1>3. CASE t = "log"
  <2>1. file'[t] = file[t] /\ pos'[t] = Position(t)
    BY <1>1, <1>3 DEF Kept, Rewound
  <2> QED
    BY <2>1, PositionTracks
<1> QED
  BY <1>2, <1>3

LEMMA TracksStep == LogInv /\ TracksAll /\ [Next]_vars => TracksAll'
<1> SUFFICES ASSUME LogInv, TracksAll, [Next]_vars
             PROVE  TracksAll'
  OBVIOUS
<1>1. CASE UNCHANGED vars
  BY <1>1 DEF vars, TracksAll, Limit, Discarded
<1>2. ASSUME NEW n \in 1..MaxRecord, NEW s \in Stream, Put(s, n)
      PROVE  TracksAll'
  BY <1>2, TracksPut
<1>3. ASSUME NEW n \in 1..MaxRecord, NEW level \in Level, LogAt(level, n)
      PROVE  TracksAll'
  <2>1. CASE Put("log", n)
    BY <2>1, TracksPut DEF Stream
  <2>2. CASE ~Put("log", n)
    BY <1>3, <2>2, TracksSilent DEF LogAt
  <2> QED
    BY <2>1, <2>2
<1> QED
  BY <1>1, <1>2, <1>3 DEF Next

(* Of every file that is kept, the newest bytes, as many as its size less  *)
(* the margin, can be read at any moment: a record that goes over the      *)
(* beginning of the file never takes one of them.                          *)
THEOREM LogNewest == Spec => []NewestKept
<1>1. LogInv /\ TracksAll => NewestKept
  <2> SUFFICES ASSUME LogInv, TracksAll, NEW s \in Stream, LogSize[s] > 0,
                      NEW b \in 1..written[s], b >= written[s] - (LogSize[s] - kSub)
               PROVE  \E i \in DOMAIN file[s] : file[s][i] = b
    BY DEF NewestKept
  <2> DEFINE p == pos[s]
             w == written[s]
             limit == Limit(s)
  <2>1. ~Discarded(s)
    BY DEF Discarded
  <2>2. /\ file[s] \in Seq(Nat) /\ p \in Nat /\ p <= Len(file[s]) /\ w \in Nat
        /\ limit \in Nat /\ limit = LogSize[s] - kSub
        /\ DOMAIN file[s] = 1..Len(file[s]) /\ Len(file[s]) \in Nat
    BY <2>1, LimitOf DEF LogInv
  <2>3. Tracks(file[s], p, w, limit)
    BY <2>1 DEF TracksAll
  <2>4. b \in 1..w /\ b >= w - limit
    BY <2>2
  <2> HIDE DEF p, w, limit
  <2>5. CASE b > w - p
    <3>1. b - (w - p) \in 1..p
      BY <2>2, <2>3, <2>4, <2>5 DEF Tracks
    <3>2. \A i \in 1..p : file[s][i] = w - p + i
      BY <2>3 DEF Tracks
    <3>3. file[s][b - (w - p)] = w - p + (b - (w - p))
      BY <3>1, <3>2
    <3>4. w - p + (b - (w - p)) = b
      BY <2>2, <2>4
    <3> QED
      BY <2>2, <3>1, <3>3, <3>4
  <2>6. CASE b <= w - p
    <3>1. w # p
      BY <2>2, <2>4, <2>6
    <3>2. PICK e \in (limit + 1)..Len(file[s]) :
            \A i \in (p + 1)..e : file[s][i] = w - p - e + i
      BY <2>3, <3>1 DEF Tracks
    <3>3. b - (w - p) + e \in (p + 1)..e
      BY <2>2, <2>4, <2>6
    <3>4. file[s][b - (w - p) + e] = b
      BY <2>2, <2>4, <3>2, <3>3
    <3> QED
      BY <2>2, <3>3, <3>4
  <2> QED
    BY <2>2, <2>4, <2>5, <2>6
<1> QED
  BY <1>1, LogInit, LogStep, TracksInit, TracksStep, PTL DEF Spec

=============================================================================
