------------------------------ MODULE LineFeed ------------------------------
(***************************************************************************)
(* What the fan-out of a TailSession promises its viewers, without queues: *)
(* one numbered feed of events, and per viewer the position of the next    *)
(* event to show it.  The feed never waits.  A viewer misses an event only *)
(* when it is Window events behind.                                        *)
(***************************************************************************)
EXTENDS Integers

CONSTANTS Viewers, Window

VARIABLES
    last,   \* number of events emitted so far
    on,     \* who is watching
    next    \* the next event to show each viewer

feedVars == <<last, on, next>>

MaxOf(a, b) == IF a >= b THEN a ELSE b

Init == last = 0 /\ on = {} /\ next = [v \in Viewers |-> 1]

\* Every viewer keeps at most a window of the newest events.
Emit ==
    /\ last' = last + 1
    /\ next' = [v \in Viewers |-> IF v \in on THEN MaxOf(next[v], last' - Window + 1)
                                              ELSE last' + 1]
    /\ UNCHANGED on

\* A viewer starts at the present and is shown events one by one, in order.
Enter(v) ==
    /\ v \notin on
    /\ on' = on \cup {v}
    /\ UNCHANGED <<last, next>>

Show(v) ==
    /\ v \in on /\ next[v] <= last
    /\ next' = [next EXCEPT ![v] = @ + 1]
    /\ UNCHANGED <<last, on>>

Exit(v) ==
    /\ v \in on
    /\ on' = on \ {v}
    /\ next' = [next EXCEPT ![v] = last + 1]
    /\ UNCHANGED last

Next == Emit \/ \E v \in Viewers : Enter(v) \/ Show(v) \/ Exit(v)

Spec == Init /\ [][Next]_feedVars
=============================================================================
