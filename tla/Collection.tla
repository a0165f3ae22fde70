----------------------------- MODULE Collection ------------------------------
(***************************************************************************)
(* The whole system: the emulated terminals of client/ report to the       *)
(* Server, which may die and be started again while they do.               *)
(***************************************************************************)
EXTENDS Server, Terminal

CONSTANT MaxKills   \* bound: how often the server is killed

ASSUME KillsAssumption == MaxKills \in Nat

VARIABLE kills

vars == <<netVars, dbVars, serverVars, term, xls, kills>>

Init == NetInit /\ DbInit /\ ServerInit /\ TermInit /\ kills = 0

(* The server process ends, after undefined behaviour or an exception, or  *)
(* killed from outside at any point of its loop; the tables stay.          *)
ServerDies ==
  /\ status \in {"up", "crashed"}
  /\ kills < MaxKills \/ status = "crashed"
  /\ kills' = IF status = "up" THEN kills + 1 ELSE kills
  /\ Cut
  /\ status' = "down"
  /\ session_set' = <<>>
  /\ sess' = [c \in Conn |-> NewClient]
  /\ todo' = {}
  /\ ready' = {}
  /\ UNCHANGED <<dbVars, phase, incoming, term, xls>>

(* yzmond is started again: its memory is as at first, its tables are not. *)
ServerStarts ==
  /\ status = "down"
  /\ status' = "up"
  /\ phase' = "tail"
  /\ incoming' = FALSE
  /\ global_number' = 0
  /\ UNCHANGED <<netVars, base, ttyinfo, scrinfo, session_set, sess, todo, ready,
                 term, xls, kills>>

Listening == status = "up"

TerminalStep(d) == TerminalNext(d, Listening) /\ UNCHANGED <<dbVars, serverVars, kills>>

ServerStep == ServerNext /\ UNCHANGED <<term, xls, kills>>

Arrive(c) == Deliver(c) /\ UNCHANGED <<dbVars, serverVars, term, xls, kills>>

Next == \/ \E d \in Dev : TerminalStep(d)
        \/ \E c \in Conn : Arrive(c)
        \/ ServerStep
        \/ ServerDies
        \/ ServerStarts

Spec == Init /\ [][Next]_vars

(* Every process runs, segments arrive, and a server that is down is       *)
(* started again.  Nobody need kill it.                                    *)
Fairness == /\ \A d \in Dev : WF_vars(TerminalStep(d))
            /\ \A c \in Conn : WF_vars(Arrive(c))
            /\ WF_vars(ServerStep)
            /\ WF_vars(status = "crashed" /\ ServerDies)
            /\ WF_vars(ServerStarts)

FairSpec == Spec /\ Fairness

-----------------------------------------------------------------------------
TypeOK ==
  /\ \A c \in Conn : peer[c] \in PeerState /\ sess[c].state \in SessionState
  /\ \A d \in Dev : /\ term[d].pc \in {"connect", "first", "send", "data", "recv", "done", "died"}
                    /\ term[d].tries \in 0..MaxTries
                    /\ term[d].screenCount \in Nat
  /\ IsInjective(session_set) /\ ToSet(session_set) \subseteq Conn
  /\ ToSet(backlog) \cap ToSet(session_set) = {}
  /\ status \in {"up", "crashed", "down"}
  /\ kills \in 0..MaxKills
  /\ Cardinality(base) <= 1

CountOf(table, d) == Cardinality({i \in DOMAIN table : table[i].dev = d})

(* d was the last to authenticate: no later delete has touched its rows. *)
Current(d) == \E r \in base : r.dev = d

RowOf(d) == CHOOSE r \in ToSet(xls) : r.dev = d

HasRow(d) == \E r \in ToSet(xls) : r.dev = d

(* The terminals a finished device counted in ts_count.xls are in          *)
(* devstate_ttyinfo, also when it had to start again on a new connection.  *)
TtysAgree == \A d \in Dev : HasRow(d) /\ Current(d) => CountOf(ttyinfo, d) = RowOf(d).ttys

(* The same for its screens and devstate_scrinfo. *)
ScreensAgree == \A d \in Dev : HasRow(d) /\ Current(d) => CountOf(scrinfo, d) = RowOf(d).screens

(* The tables never hold more of a device than its process has counted,    *)
(* whichever of its connections the rows came over.                        *)
NoneInvented ==
  \A d \in Dev : Current(d) => /\ CountOf(ttyinfo, d) <= term[d].terCount
                               /\ CountOf(scrinfo, d) <= term[d].screenCount

(* A process has used up what the model allows it.                         *)
OutOfBounds(d) == \/ term[d].pc = "connect" /\ term[d].tries = MaxTries
                  \/ term[d].screenCount > MaxScreens

Ends(d) == term[d].pc \in {"done", "died"} \/ OutOfBounds(d)

(* It waits for another request, but has answered for all its terminals,   *)
(* and the server waits for as many as it said are configured.             *)
Outnumbered(d) ==
  /\ term[d].pc = "recv"
  /\ LET s == sess[Cur(d)]
     IN  s.tty_cnt = term[d].terCount /\ s.tty_cnt < s.tty_connected

(* Every process comes to its end, by itself or by SIGPIPE, over any kills *)
(* of the server, unless it has more terminals configured than active: as  *)
(* client_communicate.cpp draws the number, that is nearly every process.  *)
(* Those wait for ever after the last of their terminals, and nothing but  *)
(* the death of the server would end that.                                 *)
EveryoneEnds ==
  /\ \A d \in Dev : <>Ends(d) \/ <>[]Outnumbered(d)
  /\ [][\A d \in Dev : Outnumbered(d) => Outnumbered(d)' \/ kills' # kills]_vars

(* What README.md:50 says: the transmission ends and every child of ts can *)
(* be recycled.                                                            *)
AllEnd == \A d \in Dev : <>Ends(d)

=============================================================================
