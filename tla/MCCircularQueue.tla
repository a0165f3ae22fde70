--------------------------- MODULE MCCircularQueue ---------------------------
(* A ring of five bytes: one more than a packet header, so that the header *)
(* and every block can wrap, and blocks of up to three bytes.              *)
EXTENDS CircularQueue

=============================================================================
