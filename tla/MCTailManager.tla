--------------------------- MODULE MCTailManager ---------------------------
(* Small instances of TailManager. *)
EXTENDS TailManager
=============================================================================
