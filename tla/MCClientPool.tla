---------------------------- MODULE MCClientPool -----------------------------
(* Runs of ClientPool: constants are plain numbers, given in the cfgs. *)
EXTENDS ClientPool
=============================================================================
