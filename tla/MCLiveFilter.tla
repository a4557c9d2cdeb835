---------------------------- MODULE MCLiveFilter ----------------------------
(* Small instances of LiveFilter. *)
EXTENDS LiveFilter
=============================================================================
