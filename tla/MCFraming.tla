------------------------------ MODULE MCFraming ------------------------------
(* One client: a terminal with two screens and one without, in one flight. *)
EXTENDS Framing

Pkt(type, tail, screens) == [type |-> type, tail |-> tail, screens |-> screens]

Talk == <<Pkt("auth", 0, 0), Pkt("sys", 1, 0), Pkt("ter", 0, 0),
          Pkt("ipterm", 0, 2), Pkt("ipterm", 0, 0), Pkt("end", 0, 0)>>

Sizes == [auth |-> 7, sys |-> 6, ter |-> 6, ipterm |-> 6, end |-> 4]
=============================================================================
