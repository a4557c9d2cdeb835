---------------------------- MODULE MCLineBroker ----------------------------
(* Small instances of LineBroker: the queue and the ring overflow. *)
EXTENDS LineBroker
=============================================================================
