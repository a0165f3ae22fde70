------------------------------ MODULE Database -------------------------------
(***************************************************************************)
(* fly::DatabaseConnection (server/src/DatabaseConnection.cpp): the three  *)
(* tables the server writes and the SQL statements of its handlers.  The   *)
(* server is the only writer and waits for every statement, so a handler's *)
(* statements are one step; a table is its rows in insertion order.        *)
(***************************************************************************)
EXTENDS Naturals, Sequences

CONSTANT ScrMod   \* the 127 of global_number++ % 127

ASSUME ScrModAssumption == ScrMod \in Nat \ {0}

VARIABLES base,           \* devstate_base, a set of rows
          ttyinfo,        \* devstate_ttyinfo
          scrinfo,        \* devstate_scrinfo
          global_number   \* the counter screen numbers are taken from, % ScrMod

dbVars == <<base, ttyinfo, scrinfo, global_number>>

BaseRow(dev) == [dev |-> dev, parts |-> {}, tty_configed |-> 0, tty_connected |-> 0]

DbInit == /\ base = {}
          /\ ttyinfo = <<>>
          /\ scrinfo = <<>>
          /\ global_number = 0

(* Variant for the checks: the insert without the three deletes. *)
InsertOnly(dev) ==
  /\ base' = base \cup {BaseRow(dev)}
  /\ UNCHANGED <<ttyinfo, scrinfo, global_number>>

(* delete from devstate_base, _ttyinfo and _scrinfo, with no where clause, *)
(* then insert the row of this device.                                     *)
OnRecvAuthResponse(dev) ==
  /\ base' = {BaseRow(dev)}
  /\ ttyinfo' = <<>>
  /\ scrinfo' = <<>>
  /\ UNCHANGED global_number

(* update devstate_base set the columns of one packet where devid = dev. *)
OnRecvPart(dev, part) ==
  /\ base' = {IF r.dev = dev THEN [r EXCEPT !.parts = @ \cup {part}] ELSE r : r \in base}
  /\ UNCHANGED <<ttyinfo, scrinfo, global_number>>

OnRecvTermResponse(dev, term_num) ==
  /\ base' = {IF r.dev = dev THEN [r EXCEPT !.tty_configed = term_num] ELSE r : r \in base}
  /\ UNCHANGED <<ttyinfo, scrinfo, global_number>>

OnRecvIPTermResponse(dev, tty, screen_num) ==
  /\ ttyinfo' = Append(ttyinfo, [dev |-> dev, tty |-> tty, scrnum |-> screen_num])
  /\ UNCHANGED <<base, scrinfo, global_number>>

(* Variant for the checks: the counter is advanced once for a terminal. *)
NumberedOnce(dev, tty, whose) ==
  /\ scrinfo' = scrinfo \o
       [i \in 1..Len(whose) |->
          [dev |-> dev, tty |-> tty, scrno |-> global_number, of |-> whose[i]]]
  /\ global_number' = (global_number + 1) % ScrMod
  /\ UNCHANGED <<base, ttyinfo>>

(* One insert for each screen, numbered by the running counter: whose[i] is *)
(* the terminal whose bytes the i-th screen was decoded from, 0 if none.    *)
OnRecvScreenInfoPackets(dev, tty, whose) ==
  /\ scrinfo' = scrinfo \o
       [i \in 1..Len(whose) |->
          [dev |-> dev, tty |-> tty, scrno |-> (global_number + i - 1) % ScrMod,
           of |-> whose[i]]]
  /\ global_number' = (global_number + Len(whose)) % ScrMod
  /\ UNCHANGED <<base, ttyinfo>>

UpdateTTYConnected(dev, tty_connected) ==
  /\ base' = {IF r.dev = dev THEN [r EXCEPT !.tty_connected = tty_connected] ELSE r : r \in base}
  /\ UNCHANGED <<ttyinfo, scrinfo, global_number>>

=============================================================================
