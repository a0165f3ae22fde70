---------------------------- MODULE MCCollection -----------------------------
(* Runs of Collection: a connection is a device and the number of its try. *)
EXTENDS Collection, TLC

Connections == Dev \X (1..MaxTries)

Key == (0 :> 1 @@ 1 :> 0 @@ 2 :> 1 @@ 3 :> 1)
Agreed == <<1, 0, 1>>

OneOrTwo == {{1}, {1, 2}}
Two == {{1, 2}}
=============================================================================
