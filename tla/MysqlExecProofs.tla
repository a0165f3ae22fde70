--------------------------- MODULE MysqlExecProofs ---------------------------
(***************************************************************************)
(* The types of MysqlExec, OneConnection and StuckAfterLoss, for any       *)
(* devices, terminals, keys of the tables, limit of mysqld, and number of  *)
(* handlers and of broken connections.                                     *)
(***************************************************************************)
EXTENDS MysqlExec, TLAPS

(* When mysqld holds more than the connection in use: that it does so only *)
(* for a duplicate needs to be known of a connection that was left behind  *)
(* (not usable any more, and held), and of one about to be.                *)
Connections == /\ held > 1 => Stuck
               /\ ~usable /\ held > 0 => Stuck
               /\ usable /\ pc = "init" => Stuck

ConnInv == TypeOK /\ Connections

LEMMA ConnInit == Init => ConnInv
<1> SUFFICES ASSUME Init PROVE ConnInv
  OBVIOUS
<1>1. DOMAIN rows = Table
  BY DEF Init
<1>2. 0 \in 0..(ScrMod - 1) /\ 0 \in 0..MaxConnections /\ 0 \in 0..MaxBreaks
  BY ExecAssumption
<1> QED
  BY <1>1, <1>2 DEF Init, ConnInv, TypeOK, Connections

(* A handler begins when there is nothing to do, and so nothing is stuck.  *)
LEMMA ConnBegin ==
  ASSUME ConnInv, NEW statements, Begin(statements),
         global_number' \in 0..(ScrMod - 1)
  PROVE  ConnInv'
<1>1. ~Stuck
  BY DEF Begin, ConnInv, TypeOK, Stuck
<1> QED
  BY <1>1 DEF Begin, ConnInv, TypeOK, Connections, mysqlVars

LEMMA NumberInRange ==
  ASSUME NEW i \in Nat, TypeOK
  PROVE  Number(i) \in 0..(ScrMod - 1)
<1>1. global_number + i \in Nat /\ ScrMod \in Nat \ {0}
  BY ExecAssumption DEF TypeOK
<1> QED
  BY <1>1 DEF Number

LEMMA ConnHandler ==
  ASSUME ConnInv, NEW d \in Dev, Handler(d)
  PROVE  ConnInv'
<1>1. global_number \in 0..(ScrMod - 1)
  BY DEF ConnInv, TypeOK
<1>2. CASE OnRecvAuthResponse(d)
  BY <1>1, <1>2, ConnBegin DEF OnRecvAuthResponse
<1>3. CASE OnRecvPart(d)
  BY <1>1, <1>3, ConnBegin DEF OnRecvPart
<1>4. ASSUME NEW n \in Tty, OnRecvTermResponse(d, n) \/ UpdateTTYConnected(d, n)
      PROVE  ConnInv'
  BY <1>1, <1>4, ConnBegin DEF OnRecvTermResponse, UpdateTTYConnected
<1>5. ASSUME NEW t \in Tty, NEW n \in 0..MaxScreens, OnRecvIPTermResponse(d, t, n)
      PROVE  ConnInv'
  BY <1>1, <1>5, ConnBegin DEF OnRecvIPTermResponse
<1>6. ASSUME NEW t \in Tty, NEW n \in 0..MaxScreens, OnRecvScreenInfoPackets(d, t, n)
      PROVE  ConnInv'
  <2>1. n \in Nat /\ global_number' = Number(n) /\ Begin(ScreenStatements(d, t, n))
    BY <1>6, ExecAssumption DEF OnRecvScreenInfoPackets
  <2> QED
    BY <2>1, NumberInRange, ConnBegin DEF ConnInv
<1> QED
  BY <1>2, <1>3, <1>4, <1>5, <1>6 DEF Handler

LEMMA ConnExecute == ASSUME ConnInv, Execute PROVE ConnInv'
<1>1. ~Stuck
  BY DEF Execute, Stuck
<1>2. DOMAIN rows' = Table
  BY DEF Execute, After, ConnInv, TypeOK
<1>3. pc' \in {"idle", "query"} /\ (pc' = "idle" => todo' = <<>>)
  BY DEF Execute, Going
<1>4. UNCHANGED <<global_number, up, usable, held, breaks>>
  BY DEF Execute
<1> QED
  BY <1>1, <1>2, <1>3, <1>4 DEF ConnInv, TypeOK, Connections

(* What is left when a connection breaks: none, unless it was stuck. *)
LEMMA ConnLost ==
  ASSUME ConnInv, usable, Lost
  PROVE  /\ breaks' \in 0..MaxBreaks /\ ~usable' /\ held' \in 0..MaxConnections
         /\ held' > 0 => Stuck
<1>1. /\ breaks \in 0..MaxBreaks /\ held \in 0..MaxConnections /\ held > 0
      /\ MaxBreaks \in Nat /\ MaxConnections \in Nat
  BY ExecAssumption DEF ConnInv, TypeOK
<1>2. breaks' = breaks + 1 /\ breaks < MaxBreaks /\ usable' = FALSE
  BY DEF Lost
<1>3. held' = held - 1 \/ held' = 0
  BY DEF Lost
<1>4. held > 1 => Stuck
  BY DEF ConnInv, Connections
<1> QED
  BY <1>1, <1>2, <1>3, <1>4

LEMMA ConnExec == ASSUME ConnInv, Exec PROVE ConnInv'
<1>1. CASE Execute
  BY <1>1, ConnExecute
<1>2. CASE ExecuteUnanswered
  <2>1. ~Stuck /\ usable /\ Lost
    BY <1>2 DEF ExecuteUnanswered, Stuck
  <2>2. DOMAIN rows' = Table
    BY <1>2 DEF ExecuteUnanswered, After, ConnInv, TypeOK
  <2>3. pc' = "init" /\ UNCHANGED global_number
    BY <1>2 DEF ExecuteUnanswered, Fail
  <2> QED
    BY <2>1, <2>2, <2>3, ConnLost DEF ConnInv, TypeOK, Connections
<1>3. CASE QueryFails
  BY <1>3 DEF QueryFails, Fail, mysqlVars, ConnInv, TypeOK, Connections, Stuck
<1>4. CASE QueryDuplicate
  BY <1>4 DEF QueryDuplicate, Querying, Fail, mysqlVars, ConnInv, TypeOK, Connections, Stuck
<1>5. CASE DatabaseInit
  <2>1. /\ held' = held + 1 /\ held < MaxConnections /\ usable' /\ up' /\ up
        /\ pc = "init" /\ pc' \in {"idle", "query"} /\ (pc' = "idle" => todo' = <<>>)
        /\ UNCHANGED <<todo, rows, global_number, breaks>>
    BY <1>5 DEF DatabaseInit, Going, Retried
  <2>2. held > 0 => Stuck
    BY <2>1 DEF ConnInv, Connections
  <2>3. held \in Nat /\ MaxConnections \in Nat
    BY ExecAssumption DEF ConnInv, TypeOK
  <2> QED
    BY <2>1, <2>2, <2>3 DEF ConnInv, TypeOK, Connections, Stuck
<1> QED
  BY <1>1, <1>2, <1>3, <1>4, <1>5 DEF Exec

LEMMA ConnStep == ConnInv /\ [Next]_vars => ConnInv'
<1> SUFFICES ASSUME ConnInv, [Next]_vars PROVE ConnInv'
  OBVIOUS
<1>1. CASE UNCHANGED vars
  BY <1>1 DEF vars, serverVars, mysqlVars, ConnInv, TypeOK, Connections, Stuck
<1>2. CASE \E d \in Dev : Handler(d)
  BY <1>2, ConnHandler
<1>3. CASE Exec
  BY <1>3, ConnExec
<1>4. CASE Break
  <2>1. usable /\ Lost /\ UNCHANGED <<serverVars, rows>>
    BY <1>4 DEF Break
  <2>2. Stuck' = Stuck
    BY <2>1 DEF serverVars, Stuck
  <2> QED
    BY <2>1, <2>2, ConnLost DEF serverVars, ConnInv, TypeOK, Connections
<1>5. CASE MysqldStarts
  BY <1>5 DEF MysqldStarts, serverVars, ConnInv, TypeOK, Connections, Stuck
<1> QED
  BY <1>1, <1>2, <1>3, <1>4, <1>5 DEF Next

(* The variables keep their types, and mysqld's limit is kept. *)
THEOREM ExecTyped == Spec => []TypeOK
BY ConnInit, ConnStep, PTL DEF Spec, ConnInv

(* Whatever breaks and whenever, mysqld holds one connection for the       *)
(* server at most, unless the server repeats a duplicate.                  *)
THEOREM ExecOneConnection == Spec => []OneConnection
<1>1. ConnInv => OneConnection
  BY DEF ConnInv, Connections, OneConnection
<1> QED
  BY <1>1, ConnInit, ConnStep, PTL DEF Spec

-----------------------------------------------------------------------------
(* Sequences of records of which the proof needs no more than that they    *)
(* are sequences.                                                          *)
IsSeq(s) == s \in Seq({s[i] : i \in DOMAIN s})

LEMMA SeqIsSeq == ASSUME NEW S, NEW s \in Seq(S) PROVE IsSeq(s)
<1> DEFINE T == {s[i] : i \in DOMAIN s}
<1>1. DOMAIN s = 1..Len(s) /\ Len(s) \in Nat /\ s = [i \in 1..Len(s) |-> s[i]]
  OBVIOUS
<1>2. s \in [1..Len(s) -> T]
  BY <1>1
<1>3. s \in Seq(T)
  <2> HIDE DEF T
  <2> QED
    BY <1>1, <1>2
<1> QED
  BY <1>3 DEF IsSeq

LEMMA IsSeqTail ==
  ASSUME NEW s, IsSeq(s), s # <<>>
  PROVE  /\ IsSeq(Tail(s)) /\ Len(s) \in Nat \ {0} /\ DOMAIN s = 1..Len(s)
         /\ DOMAIN Tail(s) = 1..(Len(s) - 1)
         /\ \A i \in 1..(Len(s) - 1) : Tail(s)[i] = s[i + 1]
         /\ Head(s) = s[1]
<1> DEFINE S == {s[i] : i \in DOMAIN s}
<1>1. s \in Seq(S)
  BY DEF IsSeq
<1> HIDE DEF S
<1>2. Tail(s) \in Seq(S)
  BY <1>1
<1>3. IsSeq(Tail(s))
  BY <1>2, SeqIsSeq
<1> QED
  BY <1>1, <1>2, <1>3

LEMMA IsSeqAppend ==
  ASSUME NEW s, IsSeq(s), NEW x
  PROVE  /\ IsSeq(Append(s, x))
         /\ \A y : Contains(Append(s, x), y) <=> Contains(s, y) \/ y = x
<1> DEFINE S == {s[i] : i \in DOMAIN s}
           S2 == S \cup {x}
<1>1. s \in Seq(S)
  BY DEF IsSeq
<1> HIDE DEF S
<1>2. s \in Seq(S2) /\ x \in S2
  BY <1>1
<1> HIDE DEF S2
<1>3. /\ Append(s, x) \in Seq(S2) /\ Len(Append(s, x)) = Len(s) + 1 /\ Len(s) \in Nat
      /\ \A i \in 1..Len(s) : Append(s, x)[i] = s[i]
      /\ Append(s, x)[Len(s) + 1] = x
  BY <1>2
<1>4. IsSeq(Append(s, x))
  BY <1>3, SeqIsSeq
<1>5. ASSUME NEW y
      PROVE  Contains(Append(s, x), y) <=> Contains(s, y) \/ y = x
  <2>1. ASSUME Contains(s, y)
        PROVE  Contains(Append(s, x), y)
    BY <1>3, <2>1 DEF Contains
  <2>2. ASSUME y = x
        PROVE  Contains(Append(s, x), y)
    BY <1>3, <2>2 DEF Contains
  <2>3. ASSUME Contains(Append(s, x), y), y # x
        PROVE  Contains(s, y)
    <3>1. PICK i \in 1..(Len(s) + 1) : Append(s, x)[i] = y
      BY <1>3, <2>3 DEF Contains
    <3>2. i \in 1..Len(s)
      BY <1>3, <2>3, <3>1
    <3> QED
      BY <1>3, <3>1, <3>2 DEF Contains
  <2> QED
    BY <2>1, <2>2, <2>3
<1> QED
  BY <1>4, <1>5

-----------------------------------------------------------------------------
(* As long as no answer was lost, what is left of a handler inserts no row *)
(* that is there, or that a delete before it will not have taken away, and *)
(* none twice; an update is all there is of its handler.                   *)
Inserts(st, t) == st.op = "insert" /\ st.table = t
Deletes(st, t) == st.op = "delete" /\ st.table = t

Statements(left) ==
  /\ IsSeq(left)
  /\ \A i \in DOMAIN left : /\ left[i].op \in {"delete", "insert", "update"}
                            /\ left[i].table \in Table

Fresh(tables, left) ==
  /\ \A i \in DOMAIN left : left[i].op = "update" => Len(left) = 1
  /\ \A i \in DOMAIN left, t \in Table : Inserts(left[i], t) =>
       /\ ~Contains(tables[t], left[i].row) \/ \E j \in 1..(i - 1) : Deletes(left[j], t)
       /\ \A j \in 1..(i - 1) : Inserts(left[j], t) => left[j].row # left[i].row

Rows == rows = [t \in Table |-> rows[t]] /\ \A t \in Table : IsSeq(rows[t])

FreshInv == Rows /\ Statements(todo) /\ unanswered \in Nat /\ (unanswered = 0 => Fresh(rows, todo))

LEMMA EmptyIsSeq == IsSeq(<<>>)
<1>1. <<>> \in Seq({})
  OBVIOUS
<1> QED
  BY <1>1, SeqIsSeq

LEMMA OneIsSeq == ASSUME NEW x PROVE IsSeq(<<x>>)
<1>1. <<x>> \in Seq({x})
  OBVIOUS
<1> QED
  BY <1>1, SeqIsSeq

LEMMA FreshInit == Init => FreshInv
<1> SUFFICES ASSUME Init PROVE FreshInv
  OBVIOUS
<1>1. rows = [t \in Table |-> <<>>] /\ todo = <<>>
  BY DEF Init
<1>2. Statements(todo) /\ Fresh(rows, todo)
  BY <1>1, EmptyIsSeq DEF Statements, Fresh
<1>3. Rows
  <2>1. \A t \in Table : rows[t] = <<>>
    BY <1>1
  <2>2. rows = [t \in Table |-> rows[t]]
    BY <1>1, Zenon
  <2> QED
    BY <2>1, <2>2, EmptyIsSeq DEF Rows
<1> QED
  BY <1>2, <1>3 DEF Init, FreshInv

(* What one statement makes of the tables. *)
LEMMA AfterRows ==
  ASSUME Rows, NEW st, st.op \in {"delete", "insert", "update"}, st.table \in Table
  PROVE  LET new == After(rows, st)
         IN  /\ new = [t \in Table |-> new[t]] /\ \A t \in Table : IsSeq(new[t])
             /\ \A t \in Table : t # st.table => new[t] = rows[t]
             /\ st.op = "delete" => new[st.table] = <<>>
             /\ st.op = "insert" => new[st.table] = Append(rows[st.table], st.row)
<1> DEFINE new == After(rows, st)
           t0 == st.table
           updated == [i \in DOMAIN rows[t0] |-> Updated(rows[t0][i], st)]
           val == CASE st.op = "delete" -> <<>>
                    [] st.op = "insert" -> Append(rows[t0], st.row)
                    [] st.op = "update" -> updated
<1>1. rows = [t \in Table |-> rows[t]] /\ \A t \in Table : IsSeq(rows[t])
  BY DEF Rows
<1>2. new = [rows EXCEPT ![t0] = val]
  BY Zenon DEF After
<1>3. new = [t \in Table |-> IF t = t0 THEN val ELSE rows[t]]
  <2> HIDE DEF new, val, t0
  <2> QED
    BY <1>1, <1>2, Zenon
<1>4. /\ st.op = "delete" => val = <<>>
      /\ st.op = "insert" => val = Append(rows[t0], st.row)
      /\ st.op = "update" => val = updated
  BY Zenon
<1>5. IsSeq(updated)
  <2> DEFINE S == {updated[i] : i \in DOMAIN rows[t0]}
  <2>1. rows[t0] \in Seq({rows[t0][i] : i \in DOMAIN rows[t0]})
    BY <1>1 DEF IsSeq
  <2>2. DOMAIN rows[t0] = 1..Len(rows[t0]) /\ Len(rows[t0]) \in Nat
    BY <2>1
  <2>3. updated \in [1..Len(rows[t0]) -> S]
    BY <2>2, Zenon
  <2>4. updated \in Seq(S)
    <3> HIDE DEF updated, S
    <3> QED
      BY <2>2, <2>3
  <2> QED
    BY <2>4, SeqIsSeq
<1>6. IsSeq(val)
  <2>1. CASE st.op = "delete"
    BY <1>4, <2>1, EmptyIsSeq, Zenon
  <2>2. CASE st.op = "insert"
    BY <1>1, <1>4, <2>2, IsSeqAppend, Zenon
  <2>3. CASE st.op = "update"
    BY <1>4, <1>5, <2>3, Zenon
  <2> QED
    BY <2>1, <2>2, <2>3
<1> HIDE DEF new, val, updated, t0
<1>7. /\ \A t \in Table : t # t0 => new[t] = rows[t]
      /\ t0 \in Table => new[t0] = val
  BY <1>3
<1>8. new = [t \in Table |-> new[t]]
  BY <1>3, Zenon
<1>9. \A t \in Table : IsSeq(new[t])
  BY <1>1, <1>6, <1>7
<1>10. t0 \in Table
  BY DEF t0
<1>11. /\ \A t \in Table : t # st.table => new[t] = rows[t]
       /\ st.op = "delete" => new[st.table] = <<>>
       /\ st.op = "insert" => new[st.table] = Append(rows[st.table], st.row)
  BY <1>4, <1>7, <1>10 DEF t0
<1> QED
  BY <1>8, <1>9, <1>11 DEF new

(* What is left after a statement was executed is fresh for the tables it  *)
(* left.                                                                   *)
LEMMA FreshAfter ==
  ASSUME Rows, Statements(todo), todo # <<>>, Fresh(rows, todo)
  PROVE  Fresh(After(rows, Head(todo)), Tail(todo))
<1> DEFINE st == Head(todo)
           new == After(rows, st)
           left == Tail(todo)
<1>1. /\ IsSeq(left) /\ Len(todo) \in Nat \ {0} /\ DOMAIN todo = 1..Len(todo)
      /\ DOMAIN left = 1..(Len(todo) - 1) /\ Len(left) = Len(todo) - 1
      /\ \A i \in DOMAIN left : left[i] = todo[i + 1] /\ i + 1 \in DOMAIN todo
      /\ st = todo[1] /\ 1 \in DOMAIN todo
  BY IsSeqTail DEF Statements
<1>2. /\ \A t \in Table : IsSeq(rows[t])
      /\ st.op \in {"delete", "insert", "update"} /\ st.table \in Table
      /\ st.op = "update" => Len(todo) = 1
  BY <1>1 DEF Statements, Fresh, Rows
<1>3. /\ \A t \in Table : t # st.table => new[t] = rows[t]
      /\ st.op = "delete" => new[st.table] = <<>>
      /\ st.op = "insert" => new[st.table] = Append(rows[st.table], st.row)
  BY <1>2, AfterRows
<1> HIDE DEF st, new, left
<1>4. ASSUME NEW i \in DOMAIN left
      PROVE  /\ left[i].op \in {"delete", "insert"} /\ left[i].table \in Table
  <2>1. /\ left[i] = todo[i + 1] /\ i + 1 \in DOMAIN todo /\ Len(todo) # 1
    BY <1>1
  <2> QED
    BY <2>1 DEF Statements, Fresh
<1>5. ASSUME NEW i \in DOMAIN left, NEW t \in Table, Inserts(left[i], t)
      PROVE  /\ ~Contains(new[t], left[i].row) \/ \E j \in 1..(i - 1) : Deletes(left[j], t)
             /\ \A j \in 1..(i - 1) : Inserts(left[j], t) => left[j].row # left[i].row
  <2>1. /\ i \in Nat /\ i >= 1 /\ left[i] = todo[i + 1] /\ i + 1 \in DOMAIN todo
        /\ \A j \in 1..(i - 1) : j \in DOMAIN left /\ left[j] = todo[j + 1] /\ j + 1 \in 1..i
        /\ 1 \in 1..i /\ Len(todo) # 1
    BY <1>1
  <2>2. /\ ~Contains(rows[t], left[i].row) \/ \E j \in 1..i : Deletes(todo[j], t)
        /\ \A j \in 1..i : Inserts(todo[j], t) => todo[j].row # left[i].row
    BY <1>5, <2>1 DEF Fresh
  <2>3. \A j \in 1..(i - 1) : Inserts(left[j], t) => left[j].row # left[i].row
    BY <2>1, <2>2
  <2>4. ASSUME \A j \in 1..(i - 1) : ~Deletes(left[j], t), Contains(new[t], left[i].row)
        PROVE  FALSE
    <3>1. CASE st.table # t
      <4>1. \A j \in 1..i : ~Deletes(todo[j], t)
        <5>1. ~Deletes(todo[1], t)
          BY <1>1, <3>1 DEF Deletes
        <5>2. ASSUME NEW j \in 1..i, j # 1
              PROVE  ~Deletes(todo[j], t)
          <6>1. j - 1 \in 1..(i - 1) /\ (j - 1) + 1 = j
            BY <2>1, <5>2
          <6> QED
            BY <2>1, <2>4, <6>1
        <5> QED
          BY <5>1, <5>2
      <4> QED
        BY <1>3, <2>2, <2>4, <3>1, <4>1
    <3>2. CASE st.table = t /\ st.op = "delete"
      BY <1>3, <2>4, <3>2 DEF Contains
    <3>3. CASE st.table = t /\ st.op = "insert"
      <4>1. Inserts(todo[1], t) /\ todo[1].row # left[i].row
        BY <1>1, <2>1, <2>2, <3>3 DEF Inserts
      <4>2. Contains(rows[t], left[i].row)
        <5>1. /\ new[t] = Append(rows[t], st.row) /\ IsSeq(rows[t])
              /\ st.row # left[i].row
          BY <1>1, <1>2, <1>3, <3>3, <4>1
        <5> QED
          BY <2>4, <5>1, IsSeqAppend
      <4>3. \A j \in 1..i : ~Deletes(todo[j], t)
        <5>1. ~Deletes(todo[1], t)
          BY <1>1, <3>3 DEF Deletes
        <5>2. ASSUME NEW j \in 1..i, j # 1
              PROVE  ~Deletes(todo[j], t)
          <6>1. j - 1 \in 1..(i - 1) /\ (j - 1) + 1 = j
            BY <2>1, <5>2
          <6> QED
            BY <2>1, <2>4, <6>1
        <5> QED
          BY <5>1, <5>2
      <4> QED
        BY <2>2, <4>2, <4>3
    <3>4. st.op # "update"
      BY <1>2, <2>1
    <3> QED
      BY <1>2, <3>1, <3>2, <3>3, <3>4
  <2> QED
    BY <2>3, <2>4
<1>6. Fresh(new, left)
  BY <1>4, <1>5 DEF Fresh
<1> QED
  BY <1>6 DEF new, left, st

-----------------------------------------------------------------------------
(* The handlers. *)

(* Within a terminal the numbers differ: there are no more screens than    *)
(* numbers.                                                                *)
LEMMA ModOnce ==
  ASSUME NEW a \in Nat, a < 2 * ScrMod
  PROVE  a % ScrMod = IF a < ScrMod THEN a ELSE a - ScrMod
<1>1. ScrMod \in Nat \ {0}
  BY ExecAssumption
<1> QED
  BY <1>1, SMT

LEMMA NumbersDiffer ==
  ASSUME NEW g \in 0..(ScrMod - 1), NEW i \in 0..(ScrMod - 1), NEW j \in 0..(ScrMod - 1),
         i # j
  PROVE  (g + i) % ScrMod # (g + j) % ScrMod
<1> DEFINE a == g + i
           b == g + j
<1>1. ScrMod \in Nat \ {0}
  BY ExecAssumption
<1>2. /\ a \in Nat /\ a < 2 * ScrMod
      /\ b \in Nat /\ b < 2 * ScrMod
  BY <1>1
<1>3. a # b /\ (a < b => b - a < ScrMod) /\ (b < a => a - b < ScrMod)
  BY <1>1
<1> HIDE DEF a, b
<1>4. a % ScrMod = IF a < ScrMod THEN a ELSE a - ScrMod
  BY <1>2, ModOnce
<1>5. b % ScrMod = IF b < ScrMod THEN b ELSE b - ScrMod
  BY <1>2, ModOnce
<1>6. a % ScrMod # b % ScrMod
  BY <1>1, <1>2, <1>3, <1>4, <1>5
<1> QED
  BY <1>6 DEF a, b

LEMMA FreshBegin ==
  ASSUME FreshInv, NEW statements, Begin(statements), Statements(statements),
         Fresh(rows, statements)
  PROVE  FreshInv'
BY DEF Begin, FreshInv, Rows, mysqlVars

LEMMA AuthFresh ==
  ASSUME NEW d
  PROVE  Statements(AuthStatements(d)) /\ Fresh(rows, AuthStatements(d))
<1> DEFINE q == AuthStatements(d)
<1>1. /\ q = <<Delete("base"), Delete("ttyinfo"), Delete("scrinfo"), Insert("base", BaseRow(d))>>
      /\ DOMAIN q = 1..4
      /\ q[1] = Delete("base") /\ q[2] = Delete("ttyinfo") /\ q[3] = Delete("scrinfo")
      /\ q[4] = Insert("base", BaseRow(d))
  BY DEF AuthStatements
<1>2. IsSeq(q)
  <2>1. q \in Seq({Delete("base"), Delete("ttyinfo"), Delete("scrinfo"), Insert("base", BaseRow(d))})
    BY <1>1
  <2> QED
    BY <2>1, SeqIsSeq
<1> HIDE DEF q
<1>3. \A t : /\ Delete(t).op = "delete" /\ Delete(t).table = t
  BY DEF Delete
<1>4. q[4].op = "insert" /\ q[4].table = "base"
  BY <1>1 DEF Insert
<1>5. \A i \in DOMAIN q : i = 1 \/ i = 2 \/ i = 3 \/ i = 4
  BY <1>1
<1>6. \A i \in DOMAIN q : /\ q[i].op \in {"delete", "insert"}
                          /\ q[i].table \in Table
                          /\ q[i].op = "insert" => i = 4
  BY <1>1, <1>3, <1>4, <1>5 DEF Table
<1>7. Deletes(q[1], "base") /\ 1 \in 1..(4 - 1)
  BY <1>1, <1>3 DEF Deletes
<1>8. Fresh(rows, q)
  <2>1. ASSUME NEW i \in DOMAIN q, NEW t \in Table, Inserts(q[i], t)
        PROVE  /\ \E j \in 1..(i - 1) : Deletes(q[j], t)
               /\ \A j \in 1..(i - 1) : ~Inserts(q[j], t)
    <3>1. i = 4 /\ t = "base"
      BY <1>4, <1>6, <2>1 DEF Inserts
    <3>2. \A j \in 1..3 : q[j].op = "delete"
      BY <1>1, <1>6
    <3> QED
      BY <1>7, <3>1, <3>2 DEF Inserts
  <2> QED
    BY <1>6, <2>1 DEF Fresh
<1>9. Statements(q)
  BY <1>2, <1>6 DEF Statements
<1> QED
  BY <1>8, <1>9 DEF q

LEMMA SetFresh ==
  ASSUME NEW d, NEW col, NEW val
  PROVE  Statements(<<Set(d, col, val)>>) /\ Fresh(rows, <<Set(d, col, val)>>)
<1> DEFINE st == Set(d, col, val)
<1>1. st.op = "update" /\ st.table = "base"
  BY DEF Set
<1> HIDE DEF st
<1>2. Statements(<<st>>)
  BY <1>1, OneIsSeq DEF Statements, Table
<1>3. Fresh(rows, <<st>>)
  BY <1>1 DEF Fresh, Inserts
<1> QED
  BY <1>2, <1>3 DEF st

LEMMA TtyFresh ==
  ASSUME Rows, NEW d, NEW t, NEW n, ~HasRow("ttyinfo", d, t)
  PROVE  Statements(TtyStatements(d, t, n)) /\ Fresh(rows, TtyStatements(d, t, n))
<1> DEFINE row == [dev |-> d, tty |-> t, scrnum |-> n]
           st == Insert("ttyinfo", row)
<1>1. st.op = "insert" /\ st.table = "ttyinfo" /\ st.row = row
  BY DEF Insert
<1>2. ~Contains(rows["ttyinfo"], row)
  <2>1. row.dev = d /\ row.tty = t
    OBVIOUS
  <2>2. IsSeq(rows["ttyinfo"])
    BY DEF Rows, Table
  <2>3. DOMAIN rows["ttyinfo"] = 1..Len(rows["ttyinfo"])
    BY <2>2 DEF IsSeq
  <2> QED
    BY <2>1, <2>3 DEF HasRow, Contains, ToSet
<1> HIDE DEF st, row
<1>3. Statements(<<st>>)
  BY <1>1, OneIsSeq DEF Statements, Table
<1>4. Fresh(rows, <<st>>)
  BY <1>1, <1>2 DEF Fresh, Inserts, Table
<1>5. TtyStatements(d, t, n) = <<st>>
  BY DEF TtyStatements, st, row
<1> QED
  BY <1>3, <1>4, <1>5

LEMMA ScreensFresh ==
  ASSUME Rows, TypeOK, NEW d, NEW t, NEW n \in 0..MaxScreens, ~HasRow("scrinfo", d, t)
  PROVE  Statements(ScreenStatements(d, t, n)) /\ Fresh(rows, ScreenStatements(d, t, n))
<1> DEFINE row(i) == [dev |-> d, tty |-> t, of |-> t, scrno |-> Number(i - 1)]
           st(i) == Insert("scrinfo", row(i))
           q == [i \in 1..n |-> st(i)]
<1>1. /\ n \in Nat /\ n <= ScrMod /\ ScrMod \in Nat
      /\ global_number \in 0..(ScrMod - 1)
  BY ExecAssumption DEF TypeOK
<1>2. \A i \in 1..n : st(i).op = "insert" /\ st(i).table = "scrinfo" /\ st(i).row = row(i)
  BY DEF Insert
<1>3. \A i \in 1..n : row(i).dev = d /\ row(i).tty = t /\ row(i).scrno = Number(i - 1)
  OBVIOUS
<1> HIDE DEF row, st
<1>4. DOMAIN q = 1..n /\ \A i \in 1..n : q[i] = st(i)
  OBVIOUS
<1>5. IsSeq(q)
  <2> DEFINE S == {st(i) : i \in 1..n}
  <2>1. q \in [1..n -> S]
    BY Zenon
  <2>2. q \in Seq(S)
    <3> HIDE DEF q, S
    <3> QED
      BY <1>1, <2>1
  <2> QED
    BY <2>2, SeqIsSeq
<1> HIDE DEF q
<1>6. ASSUME NEW i \in 1..n
      PROVE  ~Contains(rows["scrinfo"], row(i))
  <2>1. IsSeq(rows["scrinfo"])
    BY DEF Rows, Table
  <2>2. DOMAIN rows["scrinfo"] = 1..Len(rows["scrinfo"])
    BY <2>1 DEF IsSeq
  <2> QED
    BY <1>3, <2>2 DEF HasRow, Contains, ToSet
<1>7. ASSUME NEW i \in 1..n, NEW j \in 1..(i - 1)
      PROVE  row(j) # row(i)
  <2>1. /\ j \in 1..n /\ j - 1 \in 0..(ScrMod - 1) /\ i - 1 \in 0..(ScrMod - 1)
        /\ j - 1 # i - 1
    BY <1>1
  <2>2. Number(j - 1) # Number(i - 1)
    BY <1>1, <2>1, NumbersDiffer DEF Number
  <2> QED
    BY <1>3, <2>1, <2>2
<1>8. Fresh(rows, q)
  <2>1. \A i \in DOMAIN q : /\ q[i].op = "insert" /\ q[i].table = "scrinfo"
                            /\ q[i].row = row(i)
    BY <1>2, <1>4
  <2>2. ASSUME NEW i \in DOMAIN q, NEW tt \in Table, Inserts(q[i], tt)
        PROVE  /\ ~Contains(rows[tt], q[i].row)
               /\ \A j \in 1..(i - 1) : q[j].row # q[i].row
    <3>1. tt = "scrinfo" /\ i \in 1..n
      BY <1>4, <2>1, <2>2 DEF Inserts
    <3>2. \A j \in 1..(i - 1) : j \in DOMAIN q
      BY <1>1, <1>4, <3>1
    <3> QED
      BY <1>6, <1>7, <2>1, <3>1, <3>2
  <2> QED
    BY <2>1, <2>2 DEF Fresh
<1>9. Statements(q)
  BY <1>2, <1>4, <1>5 DEF Statements, Table
<1>10. ScreenStatements(d, t, n) = q
  BY Zenon DEF ScreenStatements, q, st, row
<1> QED
  BY <1>8, <1>9, <1>10

LEMMA FreshHandler ==
  ASSUME FreshInv, TypeOK, NEW d \in Dev, Handler(d)
  PROVE  FreshInv'
<1>1. Rows
  BY DEF FreshInv
<1>2. CASE OnRecvAuthResponse(d)
  BY <1>2, AuthFresh, FreshBegin DEF OnRecvAuthResponse
<1>3. CASE OnRecvPart(d)
  BY <1>3, SetFresh, FreshBegin DEF OnRecvPart
<1>4. ASSUME NEW n \in Tty, OnRecvTermResponse(d, n) \/ UpdateTTYConnected(d, n)
      PROVE  FreshInv'
  BY <1>4, SetFresh, FreshBegin DEF OnRecvTermResponse, UpdateTTYConnected
<1>5. ASSUME NEW t \in Tty, NEW n \in 0..MaxScreens, OnRecvIPTermResponse(d, t, n)
      PROVE  FreshInv'
  BY <1>1, <1>5, TtyFresh, FreshBegin DEF OnRecvIPTermResponse
<1>6. ASSUME NEW t \in Tty, NEW n \in 0..MaxScreens, OnRecvScreenInfoPackets(d, t, n)
      PROVE  FreshInv'
  BY <1>1, <1>6, ScreensFresh, FreshBegin DEF OnRecvScreenInfoPackets
<1> QED
  BY <1>2, <1>3, <1>4, <1>5, <1>6 DEF Handler

(* No answer was lost before a step after which none is. *)
LEMMA FreshExec ==
  ASSUME FreshInv, Exec
  PROVE  FreshInv'
<1>1. CASE Execute \/ ExecuteUnanswered
  <2>1. /\ todo # <<>> /\ rows' = After(rows, Head(todo))
    BY <1>1 DEF Execute, ExecuteUnanswered, Querying
  <2>2. \/ todo' = Tail(todo) /\ unanswered' = unanswered
        \/ todo' = todo /\ unanswered' = unanswered + 1
    BY <1>1 DEF Execute, ExecuteUnanswered, Fail
  <2>3. Statements(todo') /\ Rows'
    <3>1. /\ IsSeq(Tail(todo)) /\ DOMAIN todo = 1..Len(todo) /\ Len(todo) \in Nat \ {0}
          /\ DOMAIN Tail(todo) = 1..(Len(todo) - 1) /\ Head(todo) = todo[1]
          /\ \A i \in 1..(Len(todo) - 1) : Tail(todo)[i] = todo[i + 1]
      BY <2>1, IsSeqTail DEF FreshInv, Statements
    <3>2. Statements(Tail(todo))
      <4>1. ASSUME NEW i \in DOMAIN Tail(todo)
            PROVE  Tail(todo)[i] = todo[i + 1] /\ i + 1 \in DOMAIN todo
        BY <3>1
      <4> QED
        BY <3>1, <4>1 DEF FreshInv, Statements
    <3>3. Head(todo).op \in {"delete", "insert", "update"} /\ Head(todo).table \in Table
      BY <3>1 DEF FreshInv, Statements
    <3>4. Rows'
      BY <2>1, <3>3, AfterRows DEF FreshInv, Rows
    <3> QED
      BY <2>2, <3>2, <3>4 DEF FreshInv
  <2>4. unanswered' = 0 => Fresh(rows', todo')
    <3> SUFFICES ASSUME unanswered' = 0 PROVE Fresh(rows', todo')
      OBVIOUS
    <3>1. unanswered \in Nat
      BY DEF FreshInv
    <3>2. todo' = Tail(todo) /\ unanswered = 0
      BY <2>2, <3>1
    <3>3. Fresh(After(rows, Head(todo)), Tail(todo))
      BY <2>1, <3>2, FreshAfter DEF FreshInv
    <3> QED
      BY <2>1, <3>2, <3>3
  <2>5. unanswered' \in Nat
    BY <2>2 DEF FreshInv
  <2> QED
    BY <2>3, <2>4, <2>5 DEF FreshInv
<1>2. CASE QueryFails \/ QueryDuplicate \/ DatabaseInit
  BY <1>2 DEF QueryFails, QueryDuplicate, DatabaseInit, Fail, Retried, mysqlVars, FreshInv, Rows
<1> QED
  BY <1>1, <1>2 DEF Exec

LEMMA FreshStep == FreshInv /\ TypeOK /\ [Next]_vars => FreshInv'
<1> SUFFICES ASSUME FreshInv, TypeOK, [Next]_vars PROVE FreshInv'
  OBVIOUS
<1>1. CASE UNCHANGED vars
  BY <1>1 DEF vars, serverVars, mysqlVars, FreshInv, Rows
<1>2. CASE \E d \in Dev : Handler(d)
  BY <1>2, FreshHandler
<1>3. CASE Exec
  BY <1>3, FreshExec
<1>4. CASE Break \/ MysqldStarts
  BY <1>4 DEF Break, MysqldStarts, serverVars, FreshInv, Rows
<1> QED
  BY <1>1, <1>2, <1>3, <1>4 DEF Next

(* The handlers insert no row twice, whatever the tables' keys are: a      *)
(* statement is refused as a duplicate, and then repeated for ever, only   *)
(* after the answer to one that was executed got lost.                     *)
THEOREM ExecStuckAfterLoss == Spec => []StuckAfterLoss
<1>1. FreshInv => StuckAfterLoss
  <2> SUFFICES ASSUME FreshInv, Stuck, unanswered = 0
               PROVE  FALSE
    <3>1. FreshInv => (unanswered > 0 <=> unanswered # 0)
      BY DEF FreshInv
    <3> QED
      BY <3>1 DEF StuckAfterLoss
  <2>1. Head(todo) = todo[1] /\ 1 \in DOMAIN todo
    BY IsSeqTail DEF FreshInv, Statements, Stuck
  <2>2. /\ todo[1].op = "insert" /\ todo[1].table \in Keyed
        /\ Contains(rows[todo[1].table], todo[1].row)
    BY <2>1 DEF Stuck, Duplicate
  <2>3. todo[1].table \in Table
    BY <2>2, ExecAssumption
  <2> QED
    BY <2>1, <2>2, <2>3 DEF FreshInv, Fresh, Inserts
<1> QED
  BY <1>1, FreshInit, FreshStep, ExecTyped, PTL DEF Spec

=============================================================================
