------------------------------ MODULE LogSocket ------------------------------
(***************************************************************************)
(* A browser tab and the server at the two ends of /ws/logs:               *)
(* frontend/src/lib/wsClient.ts and the handler of api/routes/ws_logs.py.  *)
(*                                                                         *)
(* The client names a panel's subscription once and for all; the server    *)
(* names it anew on every connection.  The client reconnects for ever and  *)
(* subscribes again.  Both directions of a connection are FIFO and die     *)
(* with it.  The browser runs one task at a time, and after it the promise *)
(* callbacks it made ready; a component may make several calls in a task.  *)
(*                                                                         *)
(* Lines, backfills and snapshots change nothing here and are left out:    *)
(* see LineBroker and LiveFilter.                                          *)
(***************************************************************************)
EXTENDS Naturals, Sequences, FiniteSets

CONSTANTS
    Panels,    \* client ids, reused once nothing refers to them
    Subs,      \* server subscription ids, likewise
    Filters,   \* grep expressions
    None,
    Backlog,   \* bound of the model: panels call while fewer messages are unsent
    Faults     \* what may happen besides calls of the panels, see below

\* "drop"     the connection is lost
\* "refuse"   an attempt to connect fails, or a subscribe is answered by an error
\* "expire"   the access cookie expires
ASSUME FaultsAssumption == Faults \subseteq {"drop", "refuse", "expire"}
ASSUME BacklogAssumption == Backlog \in Nat
ASSUME NoneAssumption == None \notin Panels \cup Subs \cup Filters

VARIABLES
    \* the client
    socket,        \* ws: "none", "connecting" or "open"
    subs,          \* keys of this.subscriptions
    serverSubId,   \* sub.serverSubId
    filter,        \* sub.filterExpression
    routes,        \* this.serverToClient
    pending,       \* keys of pendingByReqId
    waiting,       \* who awaits this.connecting: panels, and None for the timer
    ready,         \* panels whose sendSubscribe callback is due
    timer,         \* reconnectTimer is set
    refreshing,    \* handleReauthRequired() awaits its fetch
    refused,       \* panels the server refused to serve on this connection
    \* the server
    serving,       \* the handler of this connection runs
    owner,         \* the panel each entry of its subscriptions was made for
    serverFilter,  \* Subscription.filter_expression
    cookie,        \* the access cookie is "valid" or "expired"
    \* the connection
    toServer, toClient

clientVars == <<socket, subs, serverSubId, filter, routes, pending, waiting,
                ready, timer, refreshing, refused>>
serverVars == <<serving, owner, serverFilter, cookie>>
vars == <<clientVars, serverVars, toServer, toClient>>

\* A panel subscribes at most twice on a connection: in resubscribeAll() and in
\* the callback of its own subscribe().
Request(p, by) == [panel |-> p, by |-> by]
Requests == {Request(p, by) : p \in Panels, by \in {"all", "own"}}

Subscribed(r, s) == [type |-> "subscribed", req |-> r, sub |-> s]
Refused(r) == [type |-> "error", req |-> r]
Reauth == [type |-> "reauth_required"]
SubscribeMsg(r) == [type |-> "subscribe", req |-> r]
UnsubscribeMsg(s) == [type |-> "unsubscribe", sub |-> s]
FilterMsg(s, f) == [type |-> "filter", sub |-> s, filter |-> f]   \* f = None clears

\* ws.send while readyState is OPEN; what the other end cannot get is lost.
Send(msgs) == toServer' = IF socket = "open" /\ serving THEN toServer \o msgs ELSE toServer

Mentions(channel, key, value) ==
    \E i \in 1..Len(channel) : key \in DOMAIN channel[i] /\ channel[i][key] = value

FreePanel(p) ==
    /\ p \notin subs \cup waiting \cup ready
    /\ \A s \in Subs : owner[s] # p /\ routes[s] # p
    /\ \A r \in Requests : r.panel = p =>
          /\ r \notin pending
          /\ ~Mentions(toServer, "req", r) /\ ~Mentions(toClient, "req", r)

FreeSub(s) ==
    /\ owner[s] = None /\ routes[s] = None
    /\ \A p \in Panels : serverSubId[p] # s
    /\ ~Mentions(toServer, "sub", s) /\ ~Mentions(toClient, "sub", s)

\* Callbacks that are due run before the browser's next event.
Settled == ready = {}

Init ==
    /\ socket = "none" /\ subs = {} /\ pending = {}
    /\ serverSubId = [p \in Panels |-> None]
    /\ filter = [p \in Panels |-> None]
    /\ routes = [s \in Subs |-> None]
    /\ waiting = {} /\ ready = {} /\ refused = {}
    /\ timer = FALSE /\ refreshing = FALSE
    /\ serving = FALSE /\ cookie = "valid"
    /\ owner = [s \in Subs |-> None]
    /\ serverFilter = [s \in Subs |-> None]
    /\ toServer = <<>> /\ toClient = <<>>

-----------------------------------------------------------------------------
(* Calls of the panels *)

\* connect(): at once when the socket is open, else with the attempt under way
\* or a new one.
Connect(who) ==
    IF socket = "open"
    THEN /\ ready' = ready \cup (who \cap Panels)
         /\ UNCHANGED <<socket, waiting>>
    ELSE /\ socket' = "connecting"
         /\ waiting' = waiting \cup who
         /\ UNCHANGED ready

Subscribe(p) ==
    /\ FreePanel(p)
    /\ subs' = subs \cup {p}
    /\ refused' = refused \ {p}
    /\ Connect({p})
    /\ UNCHANGED <<serverSubId, filter, routes, pending, timer, refreshing,
                   serverVars, toServer, toClient>>

Unsubscribe(p) ==
    /\ p \in subs
    /\ subs' = subs \ {p}
    /\ filter' = [filter EXCEPT ![p] = None]
    /\ IF serverSubId[p] = None
       THEN UNCHANGED <<routes, serverSubId, toServer>>
       ELSE /\ routes' = [routes EXCEPT ![serverSubId[p]] = None]
            /\ serverSubId' = [serverSubId EXCEPT ![p] = None]
            /\ Send(<<UnsubscribeMsg(serverSubId[p])>>)
    /\ UNCHANGED <<socket, pending, waiting, ready, timer, refreshing, refused,
                   serverVars, toClient>>

\* setFilter() and, for f = None, clearFilter(), when that changes something.
SetFilter(p, f) ==
    /\ p \in subs /\ filter[p] # f
    /\ filter' = [filter EXCEPT ![p] = f]
    /\ IF serverSubId[p] = None THEN UNCHANGED toServer
       ELSE Send(<<FilterMsg(serverSubId[p], f)>>)
    /\ UNCHANGED <<socket, subs, serverSubId, routes, pending, waiting, ready,
                   timer, refreshing, refused, serverVars, toClient>>

\* sendSubscribe() in the callback of subscribe(): it does not ask whether the
\* panel is still there.
SendOwn(p) ==
    /\ p \in ready
    /\ ready' = ready \ {p}
    /\ pending' = pending \cup {Request(p, "own")}
    /\ Send(<<SubscribeMsg(Request(p, "own"))>>)
    /\ UNCHANGED <<socket, subs, serverSubId, filter, routes, waiting, timer,
                   refreshing, refused, serverVars, toClient>>

-----------------------------------------------------------------------------
(* The life of a connection *)

\* Wrong variant: the new connection starts without the old subscriptions.
OpenForgetful ==
    /\ socket = "connecting" /\ Settled /\ cookie = "valid"
    /\ socket' = "open" /\ serving' = TRUE
    /\ ready' = waiting \cap Panels /\ waiting' = {}
    /\ UNCHANGED <<subs, serverSubId, filter, routes, pending, timer, refreshing,
                   refused, owner, serverFilter, cookie, toServer, toClient>>

\* Accepted by the server; onopen subscribes everything, then the callers that
\* awaited the connection go on.
Open ==
    /\ socket = "connecting" /\ Settled /\ cookie = "valid"
    /\ socket' = "open" /\ serving' = TRUE
    /\ \E order \in [1..Cardinality(subs) -> subs] :
          /\ \A p \in subs : \E i \in 1..Cardinality(subs) : order[i] = p
          /\ toServer' = [i \in 1..Cardinality(subs) |-> SubscribeMsg(Request(order[i], "all"))]
    /\ pending' = pending \cup {Request(p, "all") : p \in subs}
    /\ ready' = waiting \cap Panels /\ waiting' = {}
    /\ UNCHANGED <<subs, serverSubId, filter, routes, timer, refreshing, refused,
                   owner, serverFilter, cookie, toClient>>

\* onerror, the rejected promise, then onclose: scheduleReconnect() for the timer
\* that awaited the attempt and for the panels that are left.
OpenFails ==
    /\ socket = "connecting" /\ Settled
    /\ cookie = "expired" \/ "refuse" \in Faults
    /\ socket' = "none"
    /\ timer' = (timer \/ None \in waiting \/ subs # {})
    /\ waiting' = {}
    /\ UNCHANGED <<subs, serverSubId, filter, routes, pending, ready, refreshing, refused,
                   serverVars, toServer, toClient>>

\* The handler's finally clause tears every subscription down.
HandlerEnds ==
    /\ serving' = FALSE
    /\ owner' = [s \in Subs |-> None]
    /\ serverFilter' = [s \in Subs |-> None]
    /\ toServer' = <<>>

\* What was on its way to the browser arrives in part.
Drop ==
    /\ "drop" \in Faults /\ serving
    /\ HandlerEnds
    /\ \E n \in 0..Len(toClient) : toClient' = SubSeq(toClient, 1, n)
    /\ UNCHANGED <<clientVars, cookie>>

\* The cookie expires, and with it the connection it opened: reauth_watchdog().
Expire ==
    /\ "expire" \in Faults /\ cookie = "valid"
    /\ cookie' = "expired"
    /\ IF serving THEN HandlerEnds /\ toClient' = Append(toClient, Reauth)
                  ELSE UNCHANGED <<serving, owner, serverFilter, toServer, toClient>>
    /\ UNCHANGED clientVars

\* The refresh of handleReauthRequired() is answered with a new cookie, or fails.
\* Pages with a menu poll, and that refreshes the cookie too; the views of one log
\* or dashboard do not (App.tsx 20-24, AppShell.tsx 26-38).
Refreshed ==
    /\ refreshing /\ Settled
    /\ refreshing' = FALSE
    /\ cookie' \in {"valid"} \cup IF "refuse" \in Faults THEN {cookie} ELSE {}
    /\ UNCHANGED <<socket, subs, serverSubId, filter, routes, pending, waiting,
                   ready, timer, refused, serving, owner, serverFilter, toServer, toClient>>

\* Wrong variants: the names of the lost connection are kept, no timer is set.
CloseKeepsIds ==
    /\ socket = "open" /\ ~serving /\ toClient = <<>> /\ Settled
    /\ socket' = "none"
    /\ routes' = [s \in Subs |-> None]
    /\ pending' = {} /\ refused' = {}
    /\ timer' = (timer \/ subs # {})
    /\ UNCHANGED <<subs, serverSubId, filter, waiting, ready, refreshing, serverVars,
                   toServer, toClient>>
CloseForGood ==
    /\ socket = "open" /\ ~serving /\ toClient = <<>> /\ Settled
    /\ socket' = "none"
    /\ routes' = [s \in Subs |-> None]
    /\ serverSubId' = [p \in Panels |-> None]
    /\ pending' = {} /\ refused' = {}
    /\ UNCHANGED <<subs, filter, waiting, ready, timer, refreshing, serverVars,
                   toServer, toClient>>

\* onclose: the server's names are void, and so are the requests under way.  That a
\* new socket may be made before it runs is TabSockets'.
Close ==
    /\ socket = "open" /\ ~serving /\ toClient = <<>> /\ Settled
    /\ socket' = "none"
    /\ routes' = [s \in Subs |-> None]
    /\ serverSubId' = [p \in Panels |-> None]
    /\ pending' = {} /\ refused' = {}
    /\ timer' = (timer \/ subs # {})
    /\ UNCHANGED <<subs, filter, waiting, ready, refreshing, serverVars, toServer,
                   toClient>>

TimerFires ==
    /\ timer /\ Settled
    /\ timer' = FALSE
    /\ IF subs = {} THEN UNCHANGED <<socket, waiting, ready>> ELSE Connect({None})
    /\ UNCHANGED <<subs, serverSubId, filter, routes, pending, refreshing, refused,
                   serverVars, toServer, toClient>>

-----------------------------------------------------------------------------
(* Messages *)

Is(channel, type) == channel # <<>> /\ Head(channel).type = type

\* Wrong variant: the route is not recorded.
ServedUnrouted(r, s) ==
    /\ pending' = pending \ {r}
    /\ IF r \in pending /\ r.panel \in subs
       THEN /\ serverSubId' = [serverSubId EXCEPT ![r.panel] = s]
            /\ refused' = refused \ {r.panel}
       ELSE UNCHANGED <<serverSubId, refused>>
    /\ UNCHANGED <<routes, toServer>>

Served(r, s) ==
    /\ pending' = pending \ {r}
    /\ IF r \in pending /\ r.panel \in subs
       THEN /\ serverSubId' = [serverSubId EXCEPT ![r.panel] = s]
            /\ routes' = [routes EXCEPT ![s] = r.panel]
            /\ refused' = refused \ {r.panel}
            /\ IF filter[r.panel] = None THEN UNCHANGED toServer
               ELSE Send(<<FilterMsg(s, filter[r.panel])>>)
       ELSE UNCHANGED <<serverSubId, routes, refused, toServer>>

\* handleMessage(), "subscribed": the panel's filter is applied again.
ReceiveSubscribed ==
    /\ socket = "open" /\ Settled /\ Is(toClient, "subscribed")
    /\ toClient' = Tail(toClient)
    /\ Served(Head(toClient).req, Head(toClient).sub)
    /\ UNCHANGED <<socket, subs, filter, waiting, ready, timer, refreshing, serverVars>>

ReceiveError ==
    /\ socket = "open" /\ Settled /\ Is(toClient, "error")
    /\ toClient' = Tail(toClient)
    /\ pending' = pending \ {Head(toClient).req}
    /\ refused' = IF Head(toClient).req \in pending
                  THEN refused \cup {Head(toClient).req.panel} ELSE refused
    /\ UNCHANGED <<socket, subs, serverSubId, filter, routes, waiting, ready, timer,
                   refreshing, serverVars, toServer>>

ReceiveReauth ==
    /\ socket = "open" /\ Settled /\ Is(toClient, "reauth_required")
    /\ toClient' = Tail(toClient)
    /\ refreshing' = TRUE
    /\ UNCHANGED <<socket, subs, serverSubId, filter, routes, pending, waiting,
                   ready, timer, refused, serverVars, toServer>>

\* secrets.token_urlsafe(): a name that is not in use.  Which one is no matter.
NewSub == CHOOSE s \in Subs : FreeSub(s)

\* handle_subscribe(): the handler does nothing else meanwhile.
HandleSubscribe ==
    /\ serving /\ Is(toServer, "subscribe") /\ \E s \in Subs : FreeSub(s)
    /\ owner' = [owner EXCEPT ![NewSub] = Head(toServer).req.panel]
    /\ serverFilter' = [serverFilter EXCEPT ![NewSub] = None]
    /\ toClient' = Append(toClient, Subscribed(Head(toServer).req, NewSub))
    /\ toServer' = Tail(toServer)
    /\ UNCHANGED <<clientVars, serving, cookie>>

RefuseSubscribe ==
    /\ serving /\ Is(toServer, "subscribe") /\ "refuse" \in Faults
    /\ toClient' = Append(toClient, Refused(Head(toServer).req))
    /\ toServer' = Tail(toServer)
    /\ UNCHANGED <<clientVars, serverVars>>

HandleUnsubscribe ==
    /\ serving /\ Is(toServer, "unsubscribe")
    /\ owner' = [owner EXCEPT ![Head(toServer).sub] = None]
    /\ serverFilter' = [serverFilter EXCEPT ![Head(toServer).sub] = None]
    /\ toServer' = Tail(toServer)
    /\ UNCHANGED <<clientVars, serving, cookie, toClient>>

\* handle_set_filter() and handle_clear_filter().
HandleFilter ==
    /\ serving /\ Is(toServer, "filter")
    /\ serverFilter' = [serverFilter EXCEPT ![Head(toServer).sub] =
                          IF owner[Head(toServer).sub] = None THEN @ ELSE Head(toServer).filter]
    /\ toServer' = Tail(toServer)
    /\ UNCHANGED <<clientVars, serving, owner, cookie, toClient>>

-----------------------------------------------------------------------------

Call(p) ==
    /\ Len(toServer) < Backlog
    /\ Subscribe(p) \/ Unsubscribe(p) \/ \E f \in Filters \cup {None} : SetFilter(p, f)

Receive == ReceiveSubscribed \/ ReceiveError \/ ReceiveReauth

Handle ==
    \/ HandleSubscribe \/ RefuseSubscribe
    \/ HandleUnsubscribe \/ HandleFilter

Next ==
    \/ \E p \in Panels : Call(p) \/ SendOwn(p)
    \/ Open \/ OpenFails \/ Close \/ TimerFires \/ Refreshed \/ Receive
    \/ Handle \/ Drop \/ Expire

Spec == Init /\ [][Next]_vars

\* The browser serves its event sources in turn and runs every callback, the
\* handler reads on, and attempts to connect end, and do not fail for ever
\* while the cookie is valid.
Fairness ==
    /\ \A p \in Panels : WF_vars(SendOwn(p))
    /\ SF_vars(Open) /\ SF_vars(Close) /\ SF_vars(TimerFires)
    /\ SF_vars(Receive) /\ SF_vars(Refreshed)
    /\ WF_vars(OpenFails) /\ WF_vars(Handle)

FairSpec == Spec /\ Fairness

-----------------------------------------------------------------------------

Messages ==
    [type : {"subscribed"}, req : Requests, sub : Subs]
        \cup [type : {"subscribe", "error"}, req : Requests]
        \cup [type : {"unsubscribe"}, sub : Subs]
        \cup [type : {"filter"}, sub : Subs, filter : Filters \cup {None}]
        \cup {Reauth}

TypeOK ==
    /\ socket \in {"none", "connecting", "open"}
    /\ subs \subseteq Panels /\ ready \subseteq Panels /\ refused \subseteq Panels
    /\ waiting \subseteq Panels \cup {None} /\ pending \subseteq Requests
    /\ serverSubId \in [Panels -> Subs \cup {None}]
    /\ filter \in [Panels -> Filters \cup {None}]
    /\ routes \in [Subs -> Panels \cup {None}]
    /\ timer \in BOOLEAN /\ refreshing \in BOOLEAN /\ serving \in BOOLEAN
    /\ owner \in [Subs -> Panels \cup {None}]
    /\ serverFilter \in [Subs -> Filters \cup {None}]
    /\ cookie \in {"valid", "expired"}
    /\ toServer \in Seq(Messages) /\ toClient \in Seq(Messages)
    /\ serving => socket = "open"
    /\ \A p \in Panels : serverSubId[p] # None => routes[serverSubId[p]] = p

\* Nothing is under way between the two ends.
Quiet == socket = "open" /\ serving /\ ready = {} /\ toServer = <<>> /\ toClient = <<>>

\* "On an unexpected disconnect, the client ... transparently re-subscribes
\* everything" (wsClient.ts 14-16): once quiet, every panel has a subscription
\* at the server under the name the client knows, unless the server refused it.
Resubscribed ==
    Quiet => \A p \in subs :
                \/ serverSubId[p] # None /\ owner[serverSubId[p]] = p
                \/ p \in refused

\* "... including re-applying any active grep filter" (wsClient.ts 16): whatever
\* filters were set and cleared before, during and after a reconnection, the
\* server ends up with the panel's filter.
FilterAgrees ==
    Quiet => \A p \in subs :
                serverSubId[p] # None => serverFilter[serverSubId[p]] = filter[p]

\* "... transparently re-subscribes everything, including re-applying any active
\* grep filter" (wsClient.ts 14-16).
Restored == Resubscribed /\ FilterAgrees

\* What the server streams for a panel that is still there reaches that panel.
StreamsArrive == Quiet => \A s \in Subs : owner[s] \in subs => routes[s] = owner[s]

\* A tab with panels gets a connection again and again (wsClient.ts 97-107), as
\* long as its cookie is valid: only a reauth_required makes the client refresh it.
Reconnects ==
    \A p \in Panels : p \in subs ~> serving \/ p \notin subs \/ cookie = "expired"

\* "On an unexpected disconnect, the client reconnects with exponential backoff"
\* (wsClient.ts 14-15), which says nothing of cookies.
ReconnectsAlways == \A p \in Panels : p \in subs ~> serving \/ p \notin subs

\* "A dashboard with N panels ... still uses exactly one, with N `subscribe`
\* messages multiplexed over it" (wsClient.ts 6-8): a panel is served by one
\* subscription at a time, or it would show every line twice.
SubscribedOnce == \A p \in Panels : Cardinality({s \in Subs : routes[s] = p}) <= 1
=============================================================================
