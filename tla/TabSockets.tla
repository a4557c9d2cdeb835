------------------------------ MODULE TabSockets ------------------------------
(***************************************************************************)
(* The WebSockets a browser tab makes: frontend/src/lib/wsClient.ts, while *)
(* a connection that was lost is still in state CLOSING.  connect() makes  *)
(* a new one then, and the handlers of the old one, which run later, do    *)
(* not ask whose this.ws and this.connecting are.                          *)
(*                                                                         *)
(* LogSocket has what is said over a connection; here it is only known for *)
(* whom a subscribe was sent over which.                                   *)
(***************************************************************************)
CONSTANTS
    Sockets,   \* WebSocket objects, used again when closed; their number is a bound
    Panels,    \* client ids, a new one for each subscription
    None

VARIABLES
    state,        \* readyState of each socket
    ws,           \* this.ws
    connecting,   \* the socket whose promise is this.connecting
    subs,         \* keys of this.subscriptions
    asked,        \* asked[s]: panels that are there and were subscribed over s
    retry,        \* sockets whose promise the reconnect timer awaits
    timer         \* reconnectTimer is set

vars == <<state, ws, connecting, subs, asked, retry, timer>>

Init ==
    /\ state = [s \in Sockets |-> "closed"]
    /\ ws = None /\ connecting = None
    /\ subs = {} /\ asked = [s \in Sockets |-> {}]
    /\ retry = {} /\ timer = FALSE

-----------------------------------------------------------------------------

IsOpen == ws # None /\ state[ws] = "open"

\* this.ws.send(): without a socket, or while it connects, the call throws; while
\* it closes the message is discarded.
Sent(panels) == IF IsOpen THEN [asked EXCEPT ![ws] = @ \cup panels] ELSE asked

NewSocket(s) ==
    /\ state[s] = "closed"
    /\ state' = [state EXCEPT ![s] = "connecting"]
    /\ ws' = s /\ connecting' = s

\* connect() for a panel, or for the timer, which tries again if it fails.
Connect(byTimer) ==
    \/ /\ IsOpen
       /\ UNCHANGED <<state, ws, connecting, retry>>
    \/ /\ ~IsOpen /\ connecting # None
       /\ retry' = IF byTimer THEN retry \cup {connecting} ELSE retry
       /\ UNCHANGED <<state, ws, connecting>>
    \/ /\ ~IsOpen /\ connecting = None
       /\ \E s \in Sockets : /\ NewSocket(s)
                             /\ retry' = IF byTimer THEN retry \cup {s} ELSE retry

\* subscribe(), and its callback when the socket is open already.
Subscribe(p) ==
    /\ p \notin subs
    /\ subs' = subs \cup {p}
    /\ asked' = Sent({p})
    /\ Connect(FALSE)
    /\ UNCHANGED timer

Unsubscribe(p) ==
    /\ p \in subs
    /\ subs' = subs \ {p}
    /\ asked' = [s \in Sockets |-> asked[s] \ {p}]
    /\ UNCHANGED <<state, ws, connecting, retry, timer>>

\* onopen, and the callbacks of subscribe(), which ask for the same panels again:
\* over this.ws, whichever it is by now.
Opens(s) ==
    /\ state[s] = "connecting"
    /\ state' = [state EXCEPT ![s] = "open"]
    /\ connecting' = None
    /\ asked' = IF ws = s \/ IsOpen THEN [asked EXCEPT ![ws] = @ \cup subs] ELSE asked
    /\ retry' = retry \ {s}
    /\ UNCHANGED <<ws, subs, timer>>

\* onerror, the rejected promise, then onclose.
Fails(s) ==
    /\ state[s] = "connecting"
    /\ state' = [state EXCEPT ![s] = "closed"]
    /\ connecting' = None /\ ws' = None
    /\ timer' = (timer \/ s \in retry \/ subs # {})
    /\ retry' = retry \ {s}
    /\ UNCHANGED <<subs, asked>>

\* The server closes, or the network is lost: no handler runs yet.
Drops(s) ==
    /\ state[s] = "open"
    /\ state' = [state EXCEPT ![s] = "closing"]
    /\ UNCHANGED <<ws, connecting, subs, asked, retry, timer>>

\* Wrong variant: a socket that is not this.ws does not reconnect, but clears it.
ClosesQuietly(s) ==
    /\ state[s] = "closing"
    /\ state' = [state EXCEPT ![s] = "closed"]
    /\ connecting' = None /\ ws' = None
    /\ asked' = [asked EXCEPT ![s] = {}]
    /\ timer' = (timer \/ (ws = s /\ subs # {}))
    /\ UNCHANGED <<subs, retry>>

\* onclose
Closes(s) ==
    /\ state[s] = "closing"
    /\ state' = [state EXCEPT ![s] = "closed"]
    /\ connecting' = None /\ ws' = None
    /\ asked' = [asked EXCEPT ![s] = {}]
    /\ timer' = (timer \/ subs # {})
    /\ UNCHANGED <<subs, retry>>

TimerFires ==
    /\ timer
    /\ timer' = FALSE
    /\ IF subs = {} THEN UNCHANGED <<state, ws, connecting, retry>> ELSE Connect(TRUE)
    /\ UNCHANGED <<subs, asked>>

Next ==
    \/ \E p \in Panels : Subscribe(p) \/ Unsubscribe(p)
    \/ \E s \in Sockets : Opens(s) \/ Fails(s) \/ Drops(s) \/ Closes(s)
    \/ TimerFires

Spec == Init /\ [][Next]_vars

-----------------------------------------------------------------------------

TypeOK ==
    /\ state \in [Sockets -> {"closed", "connecting", "open", "closing"}]
    /\ ws \in Sockets \cup {None} /\ (ws # None => state[ws] # "closed")
    /\ connecting \in Sockets \cup {None}
    /\ connecting # None => connecting = ws /\ state[ws] = "connecting"
    /\ subs \subseteq Panels /\ timer \in BOOLEAN
    /\ asked \in [Sockets -> SUBSET subs]
    /\ retry \subseteq {s \in Sockets : state[s] = "connecting"}

\* "On an unexpected disconnect, the client ... transparently re-subscribes
\* everything" (wsClient.ts 14-16), also when sockets overlap and their handlers take
\* this.ws and this.connecting from each other: while there are panels, all are
\* subscribed over this.ws, or an attempt, a handler or the timer is still to come.
NeverLeft ==
    \/ subs = {} \/ timer
    \/ ws # None /\ (state[ws] = "open" => subs \subseteq asked[ws])

(* What a comment says and the code does not keep *)

\* "One shared connection per browser tab" (wsClient.ts 252).
OneConnection == \A s, r \in Sockets : state[s] = "open" /\ state[r] = "open" => s = r
=============================================================================
