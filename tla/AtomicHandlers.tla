--------------------------- MODULE AtomicHandlers ----------------------------
(***************************************************************************)
(* The database as the fsm takes it to be, and as Server uses it: every    *)
(* handler's statements happen at once, once, and never fail.              *)
(***************************************************************************)
EXTENDS Database

CONSTANTS Dev, Tty, MaxScreens

Handle(d) ==
  \/ OnRecvAuthResponse(d)
  \/ OnRecvPart(d, "sys")
  \/ \E n \in Tty : OnRecvTermResponse(d, n) \/ UpdateTTYConnected(d, n)
  \/ \E t \in Tty, n \in 0..MaxScreens :
       \/ OnRecvIPTermResponse(d, t, n)
       \/ OnRecvScreenInfoPackets(d, t, [i \in 1..n |-> t])

Next == \E d \in Dev : Handle(d)

Spec == DbInit /\ [][Next]_dbVars

=============================================================================
