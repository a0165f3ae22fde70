------------------------------ MODULE MysqlExec ------------------------------
(***************************************************************************)
(* DatabaseInit and MysqlExecCommand (server/src/DatabaseConnection.cpp):  *)
(* the statements of a handler, one after the other, over a connection to  *)
(* mysqld that may break before a statement was executed or after, and     *)
(* that is made again for as long as it takes.  mysqld is external: of it  *)
(* there are its tables, whether it runs, its connections and the keys of  *)
(* its tables, which are not in the repository.                            *)
(***************************************************************************)
EXTENDS Naturals, Sequences, SequencesExt, FiniteSets

CONSTANTS Dev,          \* the devices
          Tty,          \* the terminals of a device
          MaxScreens,   \* the most screens of a terminal
          ScrMod,       \* the 127 of global_number++ % 127
          Keyed,        \* the tables in which rows must differ
          MaxConnections,  \* mysqld's max_connections
          MaxHandlers,  \* bound: handlers run
          MaxBreaks     \* bound: connections broken

Table == {"base", "ttyinfo", "scrinfo"}

ASSUME ExecAssumption ==
  /\ Tty \subseteq Nat
  /\ {MaxScreens, MaxHandlers, MaxBreaks} \subseteq Nat
  /\ MaxConnections \in Nat \ {0}
  /\ ScrMod \in Nat /\ ScrMod > 1 /\ ScrMod >= MaxScreens
  /\ Keyed \subseteq Table

VARIABLES rows,           \* rows[t]: the rows of table t, in insertion order
          global_number,  \* % ScrMod
          todo,           \* the statements left of the handler that runs
          pc,             \* "idle", "query": in mysql_query, "init": in DatabaseInit
          up,             \* mysqld runs
          usable,         \* MysqlHandler is connected
          held,           \* connections mysqld holds for this process
          handlers,       \* handlers begun
          breaks,         \* connections broken
          unanswered      \* statements executed whose answer was lost

serverVars == <<global_number, todo, pc, handlers>>
mysqlVars  == <<rows, up, usable, held, breaks, unanswered>>
vars == <<serverVars, mysqlVars>>

-----------------------------------------------------------------------------
(* Statements. *)

Delete(t)        == [op |-> "delete", table |-> t]
Insert(t, row)   == [op |-> "insert", table |-> t, row |-> row]
Set(d, col, val) == [op |-> "update", table |-> "base", dev |-> d, col |-> col, val |-> val]

BaseRow(d) == [dev |-> d, parts |-> {}, tty_configed |-> 0, tty_connected |-> 0]

(* Variant for the checks: a device that is known is not deleted first. *)
OnlyInsert(d) == <<Insert("base", BaseRow(d))>>

AuthStatements(d) ==
  <<Delete("base"), Delete("ttyinfo"), Delete("scrinfo"), Insert("base", BaseRow(d))>>

TtyStatements(d, t, n) == <<Insert("ttyinfo", [dev |-> d, tty |-> t, scrnum |-> n])>>

(* Variant for the checks: the counter never starts again. *)
Unwrapped(i) == global_number + i

Number(i) == (global_number + i) % ScrMod

(* Variant for the checks: all screens of a terminal get one number. *)
NumberedOnce(d, t, n) ==
  [i \in 1..n |-> Insert("scrinfo", [dev |-> d, tty |-> t, of |-> t, scrno |-> global_number])]

(* One insert for each screen; the number is drawn when the text of the    *)
(* statement is put together, so a repetition has the same.                *)
ScreenStatements(d, t, n) ==
  [i \in 1..n |-> Insert("scrinfo", [dev |-> d, tty |-> t, of |-> t,
                                     scrno |-> Number(i - 1)])]

(* update ... where devid = dev; the columns of one packet are one part. *)
Updated(r, st) ==
  IF r.dev # st.dev THEN r
  ELSE IF st.col = "parts" THEN [r EXCEPT !.parts = @ \cup {st.val}]
  ELSE [r EXCEPT ![st.col] = st.val]

After(tables, st) ==
  [tables EXCEPT ![st.table] =
     CASE st.op = "delete" -> <<>>
       [] st.op = "insert" -> Append(@, st.row)
       [] st.op = "update" -> [i \in DOMAIN @ |-> Updated(@[i], st)]]

Duplicate(tables, st) ==
  st.op = "insert" /\ st.table \in Keyed /\ Contains(tables[st.table], st.row)

-----------------------------------------------------------------------------
(* PresentationLayer's constructor calls DatabaseInit before main runs. *)
Init == /\ rows = [t \in Table |-> <<>>]
        /\ global_number = 0
        /\ todo = <<>>
        /\ pc = "init"
        /\ up = TRUE
        /\ usable = FALSE
        /\ held = 0
        /\ handlers = 0 /\ breaks = 0 /\ unanswered = 0

Begin(statements) ==
  /\ pc = "idle"
  /\ handlers < MaxHandlers
  /\ handlers' = handlers + 1
  /\ todo' = statements
  /\ pc' = "query"
  /\ UNCHANGED mysqlVars

OnRecvAuthResponse(d) == Begin(AuthStatements(d)) /\ UNCHANGED global_number

OnRecvPart(d) == Begin(<<Set(d, "parts", "sys")>>) /\ UNCHANGED global_number

OnRecvTermResponse(d, n) == Begin(<<Set(d, "tty_configed", n)>>) /\ UNCHANGED global_number

UpdateTTYConnected(d, n) == Begin(<<Set(d, "tty_connected", n)>>) /\ UNCHANGED global_number

HasRow(t, d, tty) == \E r \in ToSet(rows[t]) : r.dev = d /\ r.tty = tty

(* The server asks for each terminal of a session once. *)
OnRecvIPTermResponse(d, t, n) ==
  /\ ~HasRow("ttyinfo", d, t)
  /\ Begin(TtyStatements(d, t, n))
  /\ UNCHANGED global_number

OnRecvScreenInfoPackets(d, t, n) ==
  /\ n > 0
  /\ ~HasRow("scrinfo", d, t)
  /\ Begin(ScreenStatements(d, t, n))
  /\ global_number' = Number(n)

Handler(d) ==
  \/ OnRecvAuthResponse(d)
  \/ OnRecvPart(d)
  \/ \E n \in Tty : OnRecvTermResponse(d, n) \/ UpdateTTYConnected(d, n)
  \/ \E t \in Tty, n \in 0..MaxScreens :
       OnRecvIPTermResponse(d, t, n) \/ OnRecvScreenInfoPackets(d, t, n)

-----------------------------------------------------------------------------
(* Variant for the checks: what failed is given up after a reconnection. *)
GivenUp(left) == SubSeq(left, 2, Len(left))

(* After a reconnection the statement that failed comes first again. *)
Retried(left) == left

(* Variant for the checks: a new connection for each statement. *)
Reconnects(left) == IF left = <<>> THEN "idle" ELSE "init"

Going(left) == IF left = <<>> THEN "idle" ELSE "query"

Querying == pc = "query" /\ todo # <<>>

(* Variant for the checks: the query is repeated on the broken connection. *)
QueryAgain == pc' = "query" /\ UNCHANGED <<todo, global_number, handlers>>

Fail == pc' = "init" /\ UNCHANGED <<todo, global_number, handlers>>

(* The statement is executed and mysql_query returns 0.  There is no       *)
(* result to store and no error, so that the second loop ends at once.     *)
Execute ==
  /\ Querying
  /\ up /\ usable
  /\ ~Duplicate(rows, Head(todo))
  /\ rows' = After(rows, Head(todo))
  /\ todo' = Tail(todo)
  /\ pc' = Going(Tail(todo))
  /\ UNCHANGED <<global_number, handlers, up, usable, held, breaks, unanswered>>

(* The connection breaks, or mysqld ends with all it holds. *)
Lost == /\ breaks < MaxBreaks
        /\ breaks' = breaks + 1
        /\ usable' = FALSE
        /\ \/ up' = up /\ held' = held - 1
           \/ up' = FALSE /\ held' = 0

(* The statement is executed and the connection breaks before the answer. *)
ExecuteUnanswered ==
  /\ Querying
  /\ up /\ usable
  /\ ~Duplicate(rows, Head(todo))
  /\ rows' = After(rows, Head(todo))
  /\ unanswered' = unanswered + 1
  /\ Lost
  /\ Fail

(* mysql_query finds the connection gone. *)
QueryFails == /\ Querying
              /\ ~usable
              /\ Fail
              /\ UNCHANGED mysqlVars

(* The row is there already.  The test of the code for such an error,      *)
(* error.substr(3) == "Dup", is never true: "licate entry ..." is what     *)
(* follows the first three characters.  So it reconnects and tries again.  *)
QueryDuplicate == /\ Querying
                  /\ up /\ usable
                  /\ Duplicate(rows, Head(todo))
                  /\ Fail
                  /\ UNCHANGED mysqlVars

(* mysql_init and mysql_real_connect, after as many failures as it takes.  *)
(* The handle of before is overwritten, and if its connection was not      *)
(* broken mysqld keeps it.                                                 *)
DatabaseInit ==
  /\ pc = "init"
  /\ up
  /\ held < MaxConnections
  /\ held' = held + 1
  /\ usable' = TRUE
  /\ todo' = Retried(todo)
  /\ pc' = Going(Retried(todo))
  /\ UNCHANGED <<global_number, handlers, rows, up, breaks, unanswered>>

(* Between two statements: wait_timeout, or mysqld is stopped. *)
Break == /\ usable
         /\ Lost
         /\ UNCHANGED <<serverVars, rows, unanswered>>

MysqldStarts == /\ ~up
                /\ up' = TRUE
                /\ UNCHANGED <<serverVars, rows, usable, held, breaks, unanswered>>

Exec == Execute \/ ExecuteUnanswered \/ QueryFails \/ QueryDuplicate \/ DatabaseInit

Next == \/ \E d \in Dev : Handler(d)
        \/ Exec
        \/ Break
        \/ MysqldStarts

(* The server runs, and a mysqld that has stopped is started again. *)
Spec == Init /\ [][Next]_vars /\ WF_vars(Exec) /\ WF_vars(MysqldStarts)

-----------------------------------------------------------------------------
(* The types of the variables; mysqld's limit is kept. *)
TypeOK == /\ DOMAIN rows = Table
          /\ pc \in {"idle", "query", "init"}
          /\ pc = "idle" => todo = <<>>
          /\ global_number \in 0..(ScrMod - 1)
          /\ held \in 0..MaxConnections
          /\ usable => up /\ held > 0
          /\ breaks \in 0..MaxBreaks

(* Repeated rows stand next to each other: a statement is repeated before  *)
(* the next one is begun.                                                  *)
Once(s) == FoldLeft(LAMBDA acc, r : IF acc # <<>> /\ Last(acc) = r THEN acc ELSE Append(acc, r),
                    <<>>, s)

(* The tables as they will be when the handler that runs is through. *)
Outcome == FoldLeft(After, rows, todo)

(* But for rows that stand twice in a table, the retries make of every     *)
(* handler what Server takes it for: one step that does not fail.          *)
Atomic == INSTANCE AtomicHandlers WITH base    <- ToSet(Outcome["base"]),
                                       ttyinfo <- Once(Outcome["ttyinfo"]),
                                       scrinfo <- Once(Outcome["scrinfo"])

ImplementsAtomic == Atomic!Spec

Surplus(s) == Len(s) - Len(Once(s))

(* An insert is repeated although it was executed; no more rows are        *)
(* doubled than answers were lost.                                         *)
RepeatsBounded == Surplus(rows["ttyinfo"]) + Surplus(rows["scrinfo"]) <= unanswered

Stuck == todo # <<>> /\ Duplicate(rows, Head(todo))

(* Only the repetition of a statement whose answer was lost can be refused *)
(* as a duplicate: the handlers by themselves insert no row twice.         *)
StuckAfterLoss == Stuck => unanswered > 0

(* The server holds one connection; only while it repeats a duplicate,     *)
(* which it does for ever, does it use up those of mysqld.                 *)
OneConnection == held > 1 => Stuck

(* Every handler comes to its end, however mysqld fails, unless it repeats *)
(* a duplicate.                                                            *)
Finishes == pc # "idle" ~> (pc = "idle" \/ Stuck)

=============================================================================
