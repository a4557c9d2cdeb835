--------------------------- MODULE MCHostRequests ---------------------------
(* HostRequests alone. *)
EXTENDS HostRequests

\* Two files in one directory.
Tree == [n \in {"f1", "f2"} |-> "d0"]
=============================================================================
