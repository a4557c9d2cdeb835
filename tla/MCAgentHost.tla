----------------------------- MODULE MCAgentHost -----------------------------
(***************************************************************************)
(* An agent's host: FileTail and HostRequests side by side.  A follower and*)
(* a request share no state, so a behaviour moves one of the two and every *)
(* behaviour of either is one of the run's.                                *)
(***************************************************************************)
EXTENDS FileTail, HostRequests

VARIABLE part   \* which of the two moves

mcVars == <<part, hostVars, tailVars, requestVars>>

\* A directory beside two files, with one file in it.
Tree == [n \in {"d1", "f1", "f2", "f3"} |-> IF n = "f3" THEN "d1" ELSE "d0"]

\* Where the part that rests stays: nothing on the host, and a follower that has
\* ended.
RequestAtRest == RequestInit /\ there = {Root} /\ readable = {} /\ ~script

FollowAtRest ==
    /\ source = "file" /\ written = 0 /\ breaks = {} /\ starts = {} /\ faults = 0
    /\ writer = CHOOSE i \in Inodes : TRUE
    /\ path = writer /\ disk = [i \in Inodes |-> <<>>]
    /\ place = "closed" /\ fd = Nowhere /\ pos = 0 /\ proc = "none"
    /\ pending = <<>> /\ ready = <<>> /\ corpus = <<>> /\ backfill = <<>> /\ lines = <<>>
    /\ stopped = TRUE /\ told = FALSE

HostInit ==
    \/ part = "follow" /\ FollowInit /\ RequestAtRest
    \/ part = "request" /\ RequestInit /\ FollowAtRest

HostNext ==
    /\ UNCHANGED part
    /\ \/ part = "follow" /\ FollowNext /\ UNCHANGED requestVars
       \/ part = "request" /\ RequestNext /\ UNCHANGED <<hostVars, tailVars>>

HostSpec == HostInit /\ [][HostNext]_mcVars /\ FollowFairness

HostTypeOK == FollowTypeOK /\ RequestTypeOK
=============================================================================
