----------------------------- MODULE MCServerLog -----------------------------
(* A main log, a small one and one that is switched off. *)
EXTENDS ServerLog

Sizes == [s \in Stream |-> CASE s = "log" -> 7 [] s = "err" -> 4 [] s = "db" -> 0]

Enabled == {"TP_S", "DP_RD"}
=============================================================================
