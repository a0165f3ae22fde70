----------------------------- MODULE MCMysqlExec -----------------------------
(* Values for the run. *)
EXTENDS MysqlExec

Devices == {1, 2}
Terminals == {1}
BaseAndTtys == {"base", "ttyinfo"}
=============================================================================
