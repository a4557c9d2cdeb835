---------------------------- MODULE MCTailSystem ----------------------------
(* Small instances of TailSystem. *)
EXTENDS TailSystem, TLC

Symmetry == Permutations(Browsers) \cup Permutations(Sessions)
               \cup Permutations(Conns) \cup Permutations(Tasks)
=============================================================================
