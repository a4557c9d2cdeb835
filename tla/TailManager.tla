---------------------------- MODULE TailManager ----------------------------
(***************************************************************************)
(* backend/app/tailing/manager.py and session.py: browsers that watch the  *)
(* same path on the same agent share one TailSession.                      *)
(*                                                                         *)
(* One key "agent:path" is modelled.  Locks, registrations and sessions of *)
(* different keys share nothing, so the manager is a product of copies of  *)
(* this machine.  The server is one asyncio loop: an action is the code    *)
(* between two awaits that can suspend.  A browser is one /ws/logs handler *)
(* and has at most one subscription to the key at a time.                  *)
(*                                                                         *)
(* The agent is left free here: it answers start_tail or not, sends        *)
(* tail_error or tail_closed whenever it is connected, and may connect     *)
(* again before the server has noticed that it left, so that handlers of   *)
(* several of its connections run at once.  TailSystem replaces that       *)
(* freedom by the real dispatcher behind FIFO channels.                    *)
(***************************************************************************)
EXTENDS Naturals, Sequences, FiniteSets

CONSTANTS
    Browsers,   \* /ws/logs handlers that may watch the path
    Sessions,   \* identities of TailSession objects, reused once unreferenced
    Conns,      \* identities of /ws/agent connections, reused when closed
    None        \* Python's None

ASSUME BrowsersFinite == IsFiniteSet(Browsers)
ASSUME NoneAssumption == None \notin Sessions /\ None \notin Conns

VARIABLES
    lockQueue,    \* the key's asyncio.Lock: its holder, then its waiters (FIFO)
    registered,   \* manager._sessions.get(key)
    status,       \* session.status
    count,        \* session.subscriber_count
    subscribers,  \* session.broker._subscribers: the browsers with a queue there
    ended,        \* browsers whose queue was handed a TailError or a TailClosed
    pc,           \* where each browser's handler is
    held,         \* the session that handler has a reference to
    reply,        \* the future of the start_tail request in flight
    via,          \* the connection that request captured
    handlers,     \* connections of the agent whose handler has not detached
    current       \* the agent's entry in registry._connections

vars == <<lockQueue, registered, status, count, subscribers, ended, pc, held,
          reply, via, handlers, current>>
requestVars == <<reply, via>>
connVars == <<handlers, current>>

Dead == {"closed", "error"}
Status == {"starting", "running"} \cup Dead
Places == {"idle", "subWait", "starting", "subscribed", "unsubWait", "stopping"}
Replies == {"none", "pending", "ok", "error", "failed"}

Holds(b) == lockQueue # <<>> /\ Head(lockQueue) = b
Release == lockQueue' = Tail(lockQueue)
Goto(b, place) == pc' = [pc EXCEPT ![b] = place]

\* registry.is_connected()
online == current # None

\* The request is over.
NoRequest == reply' = "none" /\ via' = None

\* subscribe() shares the registered session unless it has already ended.
Reusable == registered # None /\ status[registered] \notin Dead

\* An object nobody references any more: its identity can serve a new session.
Fresh(s) == s # registered /\ \A b \in Browsers : held[b] # s

Init ==
    /\ lockQueue = <<>>
    /\ registered = None
    /\ status = [s \in Sessions |-> "closed"]
    /\ count = [s \in Sessions |-> 0]
    /\ subscribers = [s \in Sessions |-> {}]
    /\ ended = {}
    /\ pc = [b \in Browsers |-> "idle"]
    /\ held = [b \in Browsers |-> None]
    /\ reply = "none" /\ via = None
    /\ handlers = {} /\ current = None

-----------------------------------------------------------------------------
(* subscribe *)

SubscribeCall(b) ==
    /\ pc[b] = "idle"
    /\ lockQueue' = Append(lockQueue, b)
    /\ Goto(b, "subWait")
    /\ UNCHANGED <<registered, status, count, subscribers, ended, held,
                   requestVars, connVars>>

\* Count the subscriber, open its queue and snapshot the buffer: no await.
Attach(b, s) ==
    /\ count' = [count EXCEPT ![s] = @ + 1]
    /\ subscribers' = [subscribers EXCEPT ![s] = @ \cup {b}]
    /\ held' = [held EXCEPT ![b] = s]
    /\ Goto(b, "subscribed")
    /\ Release

Join(b) ==
    /\ pc[b] = "subWait" /\ Holds(b) /\ Reusable
    /\ Attach(b, registered)
    /\ UNCHANGED <<registered, status, ended, requestVars, connVars>>

\* The new session is registered before start() is awaited, so that it gets
\* the events that arrive while start_tail is being answered.
Create(b, s) ==
    /\ pc[b] = "subWait" /\ Holds(b) /\ ~Reusable /\ online
    /\ Fresh(s)
    /\ registered' = s
    /\ status' = [status EXCEPT ![s] = "starting"]
    /\ count' = [count EXCEPT ![s] = 0]
    /\ subscribers' = [subscribers EXCEPT ![s] = {}]
    /\ held' = [held EXCEPT ![b] = s]
    /\ reply' = "pending" /\ via' = current
    /\ Goto(b, "starting")
    /\ UNCHANGED <<lockQueue, ended, connVars>>

\* registry.request raises AgentOfflineError before it awaits anything.
CreateOffline(b) ==
    /\ pc[b] = "subWait" /\ Holds(b) /\ ~Reusable /\ ~online
    /\ registered' = None
    /\ Goto(b, "idle")
    /\ Release
    /\ UNCHANGED <<status, count, subscribers, ended, held, requestVars, connVars>>

StartOk(b) ==
    /\ pc[b] = "starting" /\ reply = "ok"
    /\ status' = [status EXCEPT ![held[b]] = "running"]
    /\ Attach(b, held[b])
    /\ NoRequest
    /\ UNCHANGED <<registered, ended, connVars>>

\* Wrong variant: the lock is not released when start() raises.
StartFailKeepsLock(b) ==
    /\ pc[b] = "starting" /\ reply \in {"error", "failed"}
    /\ registered' = None
    /\ held' = [held EXCEPT ![b] = None]
    /\ NoRequest
    /\ Goto(b, "idle")
    /\ UNCHANGED <<lockQueue, status, count, subscribers, ended, connVars>>

\* An error reply, a timeout or a disconnection: the key is forgotten.
StartFail(b) ==
    /\ pc[b] = "starting" /\ reply \in {"error", "failed"}
    /\ status' = IF reply = "error"
                 THEN [status EXCEPT ![held[b]] = "error"] ELSE status
    /\ registered' = None
    /\ held' = [held EXCEPT ![b] = None]
    /\ NoRequest
    /\ Goto(b, "idle")
    /\ Release
    /\ UNCHANGED <<count, subscribers, ended, connVars>>

-----------------------------------------------------------------------------
(* unsubscribe *)

\* The queue leaves the broker at once; the count waits for the lock.
UnsubscribeCall(b) ==
    /\ pc[b] = "subscribed"
    /\ subscribers' = [subscribers EXCEPT ![held[b]] = @ \ {b}]
    /\ ended' = ended \ {b}
    /\ lockQueue' = Append(lockQueue, b)
    /\ Goto(b, "unsubWait")
    /\ UNCHANGED <<registered, status, count, held, requestVars, connVars>>

\* Wrong variants: unsubscribe() does not count, forgets whatever is registered,
\* or keeps the handler's reference.
NoDecrement(n) == n
UnregisterAny(s) == registered' = None
DoneKeepsHeld(b) == Goto(b, "idle") /\ Release /\ UNCHANGED held

MinusOne(n) == IF n = 0 THEN 0 ELSE n - 1

Unregister(s) == registered' = IF registered = s THEN None ELSE registered

Done(b) ==
    /\ held' = [held EXCEPT ![b] = None]
    /\ Goto(b, "idle")
    /\ Release

\* Not the last subscriber of its session.
Leave(b) ==
    /\ pc[b] = "unsubWait" /\ Holds(b)
    /\ MinusOne(count[held[b]]) # 0
    /\ count' = [count EXCEPT ![held[b]] = MinusOne(@)]
    /\ Done(b)
    /\ UNCHANGED <<registered, status, subscribers, ended, requestVars, connVars>>

\* The last one: session.stop() awaits the send of stop_tail under the lock ...
LeaveLast(b) ==
    /\ pc[b] = "unsubWait" /\ Holds(b) /\ online
    /\ MinusOne(count[held[b]]) = 0
    /\ count' = [count EXCEPT ![held[b]] = MinusOne(@)]
    /\ status' = [status EXCEPT ![held[b]] = "closed"]
    /\ Goto(b, "stopping")
    /\ UNCHANGED <<lockQueue, registered, subscribers, ended, held,
                   requestVars, connVars>>

\* ... and finds no connection when the agent is away.
LeaveLastOffline(b) ==
    /\ pc[b] = "unsubWait" /\ Holds(b) /\ ~online
    /\ MinusOne(count[held[b]]) = 0
    /\ count' = [count EXCEPT ![held[b]] = MinusOne(@)]
    /\ status' = [status EXCEPT ![held[b]] = "closed"]
    /\ Unregister(held[b])
    /\ Done(b)
    /\ UNCHANGED <<subscribers, ended, requestVars, connVars>>

StopSent(b) ==
    /\ pc[b] = "stopping"
    /\ Unregister(held[b])
    /\ Done(b)
    /\ UNCHANGED <<status, count, subscribers, ended, requestVars, connVars>>

-----------------------------------------------------------------------------
(* the agent's connections *)

\* receive_error and receive_closed of the registered session: its status
\* changes and every queue of its broker gets the event.
EndRegistered(how) ==
    IF registered = None
    THEN UNCHANGED <<status, ended>>
    ELSE /\ status' = [status EXCEPT ![registered] = how]
         /\ ended' = ended \cup subscribers[registered]

\* ws_agent.py routes tail_error and tail_closed through get_session(), by agent
\* and path, whichever connection they came in on.
AgentEnds(how) ==
    /\ handlers # {}
    /\ EndRegistered(how)
    /\ UNCHANGED <<lockQueue, registered, count, subscribers, pc, held,
                   requestVars, connVars>>

\* registry.deliver() looks the request up in the connection registered now.
\* The awaiting handler resumes in a later action, so further messages of the
\* agent can be processed in between.
Deliver(answer) ==
    /\ reply = "pending" /\ via = current
    /\ reply' = answer
    /\ UNCHANGED <<lockQueue, registered, status, count, subscribers, ended, pc,
                   held, via, connVars>>

\* wait_for gives up, or the send of the request itself raises: all that ends a
\* request whose connection is no longer the registered one.
TimeOut ==
    /\ reply = "pending"
    /\ reply' = "failed"
    /\ UNCHANGED <<lockQueue, registered, status, count, subscribers, ended, pc,
                   held, via, connVars>>

\* registry.attach() overwrites what is registered.
Connect(c) ==
    /\ c \notin handlers /\ c # via
    /\ handlers' = handlers \cup {c}
    /\ current' = c
    /\ UNCHANGED <<lockQueue, registered, status, count, subscribers, ended, pc,
                   held, requestVars>>

\* mark_disconnected(): registry.detach() removes whichever connection of the
\* agent is registered and fails the request that captured it, and every
\* session of the agent is closed, in one step.  It runs several turns of the
\* loop after the last message was read, hence after the handler which that
\* message answered has resumed.
Disconnect(c) ==
    /\ c \in handlers /\ ~(reply \in {"ok", "error"} /\ via = c)
    /\ handlers' = handlers \ {c}
    /\ current' = None
    /\ reply' = IF reply = "pending" /\ via = current THEN "failed" ELSE reply
    /\ EndRegistered("closed")
    /\ UNCHANGED <<lockQueue, registered, count, subscribers, pc, held, via>>

-----------------------------------------------------------------------------

Resume(b) ==
    \/ Join(b) \/ CreateOffline(b) \/ \E s \in Sessions : Create(b, s)
    \/ StartOk(b) \/ StartFail(b)
    \/ Leave(b) \/ LeaveLast(b) \/ LeaveLastOffline(b) \/ StopSent(b)

Next ==
    \/ \E b \in Browsers : SubscribeCall(b) \/ UnsubscribeCall(b) \/ Resume(b)
    \/ \E how \in Dead : AgentEnds(how)
    \/ \E answer \in {"ok", "error"} : Deliver(answer)
    \/ TimeOut
    \/ \E c \in Conns : Connect(c) \/ Disconnect(c)

Spec == Init /\ [][Next]_vars

\* The event loop runs every handler that can go on, and the request timer
\* expires.  Nothing obliges the agent to answer or to stay, or a browser to
\* subscribe or to leave.  A send that never completes would break this: see
\* the hazards.
Fairness == WF_vars(TimeOut) /\ \A b \in Browsers : WF_vars(Resume(b))

FairSpec == Spec /\ Fairness

-----------------------------------------------------------------------------

\* Types, and the references a handler has at each place of its code.
TypeOK ==
    /\ lockQueue \in Seq(Browsers)
    /\ registered \in Sessions \cup {None}
    /\ status \in [Sessions -> Status]
    /\ count \in [Sessions -> Nat]
    /\ subscribers \in [Sessions -> SUBSET Browsers]
    /\ ended \subseteq Browsers
    /\ pc \in [Browsers -> Places]
    /\ held \in [Browsers -> Sessions \cup {None}]
    /\ \A b \in Browsers : held[b] = None <=> pc[b] \in {"idle", "subWait"}
    /\ reply \in Replies /\ via \in Conns \cup {None}
    /\ reply = "none" <=> via = None
    /\ handlers \subseteq Conns /\ current \in handlers \cup {None}

\* Every await of the critical section is under the key's lock, so two
\* handlers are never inside it together: neither two starts, nor two stops,
\* nor a start during a stop (manager.py 39-55, 61-66).
OneInside ==
    \A a, b \in Browsers :
        pc[a] \in {"starting", "stopping"} /\ pc[b] \in {"starting", "stopping"}
            => a = b

Viewers(s) == {b \in Browsers : held[b] = s /\ pc[b] \in {"subscribed", "unsubWait"}}

\* The reference count is exact whatever subscribes, leaves, fails to start or
\* replaces an ended session: the clamp at zero of unsubscribe() never hides an
\* unsubscribe too many (manager.py 50, 62).
RefCount == \A s \in Sessions : count[s] = Cardinality(Viewers(s))

\* A registered session nobody is starting or stopping has a subscriber: no
\* session stays behind when its last browser goes (manager.py 63-66, 46-48).
NoOrphanSession ==
    registered # None /\ (\A b \in Browsers : pc[b] \notin {"starting", "stopping"})
        => count[registered] > 0

\* The sessions that are registered and counted are those that somebody watches,
\* through failed starts and replaced sessions alike (manager.py 39-66).
CountsViewers == RefCount /\ NoOrphanSession

\* A subscribed browser whose session no longer receives the agent's events
\* was told so through its queue: replacing or forgetting a session never
\* leaves a browser hanging silently (manager.py 41-47, 65-66; service.py 71-73).
NoSilentHang ==
    \A b \in Browsers :
        pc[b] = "subscribed" /\ held[b] # registered => b \in ended

\* "Every TailSession this agent owned is marked closed so subscribed browsers
\* see it immediately" (service.py 71-73): no browser is subscribed without an
\* end event in its queue once the handlers of the agent's connections, old and
\* new, have all detached.
OfflineIsSeen ==
    handlers = {} => \A b \in Browsers : pc[b] = "subscribed" => b \in ended

\* A browser whose tail is over, for whatever reason, has the event that says so.
EndIsSeen == NoSilentHang /\ OfflineIsSeen

\* A call of subscribe() returns or raises, whoever else holds the lock and
\* whatever the agent does: the lock is FIFO and every wait under it is timed.
SubscribeReturns ==
    \A b \in Browsers : pc[b] = "subWait" ~> pc[b] \in {"subscribed", "idle"}

\* A call of unsubscribe() returns.
UnsubscribeReturns == \A b \in Browsers : pc[b] = "unsubWait" ~> pc[b] = "idle"

\* Nobody waits for ever on the lock of a key, whoever fails inside it
\* (manager.py 39-66).
CallsReturn == SubscribeReturns /\ UnsubscribeReturns

\* "Server-initiated stop (last browser subscriber went away)" (session.py
\* 68-70): stop_tail is sent for the path only when no browser still watches
\* a running session of that path.
StopAfterLastBrowser ==
    [][\A b \in Browsers : pc[b] = "unsubWait" /\ pc'[b] = "stopping"
           => \A v \in Browsers : pc[v] = "subscribed"
                                      => status[held[v]] # "running"]_vars
=============================================================================
