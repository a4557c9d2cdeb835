----------------------------- MODULE MCLogSocket -----------------------------
(***************************************************************************)
(* A tab's connection: LogSocket, one connection at a time and what is said*)
(* over it, and TabSockets, the sockets that overlap.  They share no state,*)
(* so a behaviour moves one of the two and every behaviour of either is one*)
(* of the run's.                                                           *)
(***************************************************************************)
EXTENDS LogSocket

CONSTANT Sockets

VARIABLES part,   \* which of the two moves
          state, ws, connecting, keys, asked, retry, tabTimer   \* TabSockets

tabVars == <<state, ws, connecting, keys, asked, retry, tabTimer>>
mcVars == <<part, vars, tabVars>>

Tab == INSTANCE TabSockets WITH subs <- keys, timer <- tabTimer

TabInit == part \in {"said", "sockets"} /\ Init /\ Tab!Init

TabNext ==
    /\ UNCHANGED part
    /\ \/ part = "said" /\ Next /\ UNCHANGED tabVars
       \/ part = "sockets" /\ Tab!Next /\ UNCHANGED vars

TabSpec == TabInit /\ [][TabNext]_mcVars
TabFairSpec == TabSpec /\ Fairness

\* As in TabSockets, with the types: while sockets overlap, no panel is left
\* without a connection, an attempt or a timer (wsClient.ts 14-16).
NeverLeft == Tab!TypeOK /\ Tab!NeverLeft

\* "One shared connection per browser tab" (wsClient.ts 252), which is refuted.
OneConnection == Tab!OneConnection
=============================================================================
