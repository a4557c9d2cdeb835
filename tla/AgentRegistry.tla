--------------------------- MODULE AgentRegistry ---------------------------
(***************************************************************************)
(* The server's view of one agent: agents/registry.py, the connection      *)
(* handler in api/routes/ws_agent.py, and what agents/service.py does when *)
(* a connection comes and goes.  Agents share nothing here.                *)
(*                                                                         *)
(* Every connection has a handler of its own, and a handler awaits a       *)
(* database commit after attaching and another before detaching: handlers  *)
(* of two connections of the same agent interleave at those awaits, for an *)
(* agent may be back before the server has noticed that it left.           *)
(***************************************************************************)
EXTENDS Naturals, FiniteSets

CONSTANTS
    Conns,       \* identities of /ws/agent connections, reused
    Requests,    \* request ids, reused once neither end knows them any more
    None         \* no connection

ASSUME NoneAssumption == None \notin Conns

VARIABLES
    current,      \* registry._connections.get(agent_id)
    phase,        \* how far each connection's handler is
    alive,        \* the agent still holds its end of the connection
    pending,      \* _Connection.pending: request ids with a future
    via,          \* the _Connection a request captured when it was made
    fut,          \* the future of each request
    asked,        \* requests the agent has not answered, per connection
    connectedAt,  \* Agent.connected_at is not NULL
    row,          \* the agent's row in the database
    live          \* some TailSession of this agent is not closed

vars == <<current, phase, alive, pending, via, fut, asked, connectedAt, row,
          live>>
requestVars == <<pending, via, fut, asked>>
rowVars == <<connectedAt, row>>

\* marking: attached, the commit of mark_connected() is awaited; ending: the
\* commit of mark_disconnected() is; leaving: it is done, its caller not resumed.
Phases == {"closed", "marking", "open", "ending", "leaving"}
Settled == {"answered", "offline", "cancelled"}
Futures == {"none", "pending"} \cup Settled

Init ==
    /\ current = None
    /\ phase = [c \in Conns |-> "closed"]
    /\ alive = [c \in Conns |-> FALSE]
    /\ pending = [c \in Conns |-> {}]
    /\ via = [r \in Requests |-> None]
    /\ fut = [r \in Requests |-> "none"]
    /\ asked = [c \in Conns |-> {}]
    /\ connectedAt = FALSE
    /\ row = "present"
    /\ live = FALSE

-----------------------------------------------------------------------------
(* Connections *)

\* Wrong variant: attach() keeps what is registered.
AcceptKeepsOld(c) ==
    /\ phase[c] = "closed" /\ pending[c] = {} /\ row = "present"
    /\ \A d \in Conns : ~alive[d]
    /\ phase' = [phase EXCEPT ![c] = "marking"]
    /\ alive' = [alive EXCEPT ![c] = TRUE]
    /\ current' = IF current = None THEN c ELSE current
    /\ asked' = [asked EXCEPT ![c] = {}]
    /\ UNCHANGED <<pending, via, fut, rowVars, live>>

\* Authenticated and accepted: attach() overwrites whatever was registered.
\* The agent holds one connection at a time, but the server may still serve
\* earlier ones.
Accept(c) ==
    /\ phase[c] = "closed" /\ pending[c] = {} /\ row = "present"
    /\ \A d \in Conns : ~alive[d]
    /\ phase' = [phase EXCEPT ![c] = "marking"]
    /\ alive' = [alive EXCEPT ![c] = TRUE]
    /\ current' = c
    /\ asked' = [asked EXCEPT ![c] = {}]
    /\ UNCHANGED <<pending, via, fut, rowVars, live>>

\* The commit of mark_connected() went through.
Marked(c) ==
    /\ phase[c] = "marking" /\ row = "present"
    /\ phase' = [phase EXCEPT ![c] = "open"]
    /\ connectedAt' = TRUE
    /\ UNCHANGED <<current, alive, requestVars, row, live>>

\* It raised, there being no row to update: the handler ends before its try
\* block, so nothing is detached.
MarkFailed(c) ==
    /\ phase[c] = "marking" /\ row = "deleted"
    /\ phase' = [phase EXCEPT ![c] = "closed"]
    /\ alive' = [alive EXCEPT ![c] = FALSE]
    /\ UNCHANGED <<current, requestVars, rowVars, live>>

\* The agent's process or its network goes away; the server does not know yet.
Drop(c) ==
    /\ alive[c]
    /\ alive' = [alive EXCEPT ![c] = FALSE]
    /\ UNCHANGED <<current, phase, requestVars, rowVars, live>>

\* The read loop or the heartbeat ended: mark_disconnected() begins and awaits
\* its commit.
Ends(c) ==
    /\ phase[c] = "open"
    /\ phase' = [phase EXCEPT ![c] = "ending"]
    /\ alive' = [alive EXCEPT ![c] = FALSE]
    /\ UNCHANGED <<current, requestVars, rowVars, live>>

\* Wrong variants: the entry stays, the futures are left to time out, or every
\* future is failed.
DetachKeepsEntry ==
    /\ UNCHANGED current
    /\ fut' = [r \in Requests |->
                 IF current # None /\ r \in pending[current] /\ fut[r] = "pending"
                 THEN "offline" ELSE fut[r]]
DetachSilently == current' = None /\ UNCHANGED fut
DetachAll == current' = None /\ fut' = [r \in Requests |-> "offline"]

\* registry.detach(): by agent id, whichever connection is registered now.
Detach ==
    /\ current' = None
    /\ fut' = [r \in Requests |->
                 IF /\ current # None /\ r \in pending[current]
                    /\ fut[r] = "pending"
                 THEN "offline" ELSE fut[r]]

\* A commit takes several turns of the loop: the caller a last message answered
\* has resumed by then.
Resumed(c) == \A r \in Requests : via[r] = c => fut[r] # "answered"

\* The commit of mark_disconnected() went through.
Unmark(c) ==
    /\ phase[c] = "ending" /\ row = "present" /\ Resumed(c)
    /\ phase' = [phase EXCEPT ![c] = "leaving"]
    /\ connectedAt' = FALSE
    /\ UNCHANGED <<current, alive, requestVars, row, live>>

\* Wrong variant: the sessions are not closed.
LeaveKeepsSessions(c) ==
    /\ phase[c] = "leaving"
    /\ phase' = [phase EXCEPT ![c] = "closed"]
    /\ Detach
    /\ UNCHANGED <<alive, pending, via, asked, rowVars, live>>

\* Its caller resumes: detach, close the sessions.
Leave(c) ==
    /\ phase[c] = "leaving"
    /\ phase' = [phase EXCEPT ![c] = "closed"]
    /\ Detach
    /\ live' = FALSE
    /\ UNCHANGED <<alive, pending, via, asked, rowVars>>

\* The commit raised, and with it the rest of mark_disconnected() is skipped.
UnmarkFailed(c) ==
    /\ phase[c] = "ending" /\ row = "deleted" /\ Resumed(c)
    /\ phase' = [phase EXCEPT ![c] = "closed"]
    /\ UNCHANGED <<current, alive, requestVars, rowVars, live>>

-----------------------------------------------------------------------------
(* Requests *)

\* request() remembers the _Connection it found and registers a future there.
Ask(r) ==
    /\ current # None
    /\ fut[r] = "none" /\ \A c \in Conns : r \notin asked[c]
    /\ via' = [via EXCEPT ![r] = current]
    /\ fut' = [fut EXCEPT ![r] = "pending"]
    /\ pending' = [pending EXCEPT ![current] = @ \cup {r}]
    /\ asked' = [asked EXCEPT ![current] = @ \cup {r}]
    /\ UNCHANGED <<current, phase, alive, rowVars, live>>

\* deliver() looks the id up in the connection registered now, which need not
\* be the one the answer came in on, and drops an answer nobody waits for.
Matches(r) == current # None /\ r \in pending[current] /\ fut[r] = "pending"

Answer(c, r) ==
    /\ phase[c] = "open" /\ r \in asked[c]
    /\ asked' = [asked EXCEPT ![c] = @ \ {r}]
    /\ fut' = IF Matches(r) THEN [fut EXCEPT ![r] = "answered"] ELSE fut
    /\ UNCHANGED <<current, phase, alive, pending, via, rowVars, live>>

\* Wrong variant: no timer for a request whose connection was replaced.
TimeOutIfCurrent(r) ==
    /\ fut[r] = "pending" /\ via[r] = current
    /\ fut' = [fut EXCEPT ![r] = "cancelled"]
    /\ UNCHANGED <<current, phase, alive, pending, via, asked, rowVars, live>>

\* wait_for cancels the future, or the send of the request raised.
TimeOut(r) ==
    /\ fut[r] = "pending"
    /\ fut' = [fut EXCEPT ![r] = "cancelled"]
    /\ UNCHANGED <<current, phase, alive, pending, via, asked, rowVars, live>>

\* Wrong variant: the future is popped from the connection registered now.
ReturnFromCurrent(r) ==
    /\ fut[r] \in Settled
    /\ fut' = [fut EXCEPT ![r] = "none"]
    /\ pending' = IF current = None THEN pending
                  ELSE [pending EXCEPT ![current] = @ \ {r}]
    /\ UNCHANGED <<current, phase, alive, via, asked, rowVars, live>>

\* The caller resumes; the finally clause pops the future where it was put.  A
\* caller that was starting a tail now has a running session.
Return(r) ==
    /\ fut[r] \in Settled
    /\ fut' = [fut EXCEPT ![r] = "none"]
    /\ pending' = [pending EXCEPT ![via[r]] = @ \ {r}]
    /\ live' \in IF fut[r] = "answered" THEN {live, TRUE} ELSE {live}
    /\ UNCHANGED <<current, phase, alive, via, asked, rowVars>>

-----------------------------------------------------------------------------
(* Administration and restarts *)

\* reissue_token() stores a new hash and sends a message the agent ignores: it
\* changes nothing here.

\* delete_agent() removes the row and leaves the connection alone.
Delete ==
    /\ row = "present"
    /\ row' = "deleted"
    /\ UNCHANGED <<current, phase, alive, requestVars, connectedAt, live>>

\* The server's process ends, its connections with it, and starts again: the
\* registry, the futures and the sessions are gone, the database stays as it
\* is (bootstrap() looks at no agent).
Restart ==
    /\ current' = None
    /\ phase' = [c \in Conns |-> "closed"]
    /\ alive' = [c \in Conns |-> FALSE]
    /\ pending' = [c \in Conns |-> {}]
    /\ fut' = [r \in Requests |-> "none"]
    /\ asked' = [c \in Conns |-> {}]
    /\ live' = FALSE
    /\ UNCHANGED <<via, rowVars>>

-----------------------------------------------------------------------------

Handler(c) ==
    \/ Marked(c) \/ MarkFailed(c) \/ Unmark(c) \/ UnmarkFailed(c) \/ Leave(c)
    \/ ~alive[c] /\ Ends(c)

Next ==
    \/ \E c \in Conns :
          \/ Accept(c) \/ Handler(c) \/ Drop(c) \/ Ends(c)
          \/ \E r \in Requests : Answer(c, r)
    \/ \E r \in Requests : Ask(r) \/ TimeOut(r) \/ Return(r)
    \/ Delete \/ Restart

Spec == Init /\ [][Next]_vars

\* Handlers run, a dead connection is noticed (the heartbeat), and the timers
\* of requests expire.  The agent need not answer, nor leave.
Fairness ==
    /\ \A c \in Conns : WF_vars(Handler(c))
    /\ \A r \in Requests : WF_vars(TimeOut(r)) /\ WF_vars(Return(r))

FairSpec == Spec /\ Fairness

-----------------------------------------------------------------------------

TypeOK ==
    /\ current \in Conns \cup {None}
    /\ phase \in [Conns -> Phases]
    /\ alive \in [Conns -> BOOLEAN]
    /\ pending \in [Conns -> SUBSET Requests]
    /\ via \in [Requests -> Conns \cup {None}]
    /\ fut \in [Requests -> Futures]
    /\ asked \in [Conns -> SUBSET Requests]
    /\ connectedAt \in BOOLEAN /\ live \in BOOLEAN
    /\ row \in {"present", "deleted"}
    /\ \A r \in Requests : fut[r] # "none" => via[r] # None

\* A future is registered with the connection its request captured exactly
\* while the caller is inside request(), whatever was attached or detached
\* meanwhile: no pending table leaks an entry (registry.py 75, 83-84).
PendingExact ==
    \A c \in Conns : pending[c] = {r \in Requests : fut[r] # "none" /\ via[r] = c}

\* The result of a future is set once: an answer, a timeout and a detach that
\* race never set it twice, which would raise InvalidStateError in the read
\* loop or in detach (registry.py 49-51, 94-97).
SetOnce == [][\A r \in Requests : fut[r] \in Settled => fut'[r] \in {fut[r], "none"}]_vars

\* Every request returns or raises (registry.py 76-84).
RequestsReturn == \A r \in Requests : fut[r] = "pending" ~> fut[r] = "none"

\* The connection the agent holds is the one registered for it unless the
\* handler of an earlier one has detached it: no earlier connection is put back
\* (registry.py 43, 46).  What is registered has a handler that will detach it.
NewestWins ==
    /\ \A c \in Conns : alive[c] => current \in {c, None}
    /\ row = "present" /\ current # None => phase[current] # "closed"

\* While the agent holds the connection a request was sent on, its answer finds
\* the request: handlers of earlier connections that detach this one have
\* failed it at once, and do not leave it to its timer (registry.py 45-51).
AnswerFindsRequest ==
    \A r \in Requests : fut[r] = "pending" /\ alive[via[r]] => via[r] = current

\* An agent that requests reach is shown as connected, except while a handler
\* that has just cleared the flag is about to detach it (service.py 74-78).
ReachableIsOnline ==
    row = "present" /\ current # None /\ phase[current] = "open" =>
        connectedAt \/ \E c \in Conns : phase[c] = "leaving"

\* When all handlers of an agent have finished none of its sessions is left
\* open, whatever was answered while they ended (service.py 76-80): stated for
\* an agent that has not been deleted.
SessionsClosedIfPresent ==
    row = "present" /\ (\A c \in Conns : phase[c] = "closed") => ~live

-----------------------------------------------------------------------------
(* What the comments say and the code does not keep.                       *)

\* "connected_at is not None IS the online/offline signal ... there's nothing to
\* drift out of sync with the actual /ws/agent connection state" (models/agent.py
\* 29-31): an agent whose open connection is served is shown as connected.
ConnectedIsShown ==
    row = "present" =>
        \A c \in Conns : alive[c] /\ phase[c] = "open" => connectedAt

\* The other direction: an agent shown as connected has a connection.
ShownIsConnected ==
    row = "present" /\ connectedAt =>
        \E c \in Conns : phase[c] \in {"open", "ending"}

\* "Every TailSession this agent owned is marked closed so subscribed browsers
\* see it immediately instead of hanging silently" on any disconnect
\* (service.py 70-73): once all handlers have finished, no session is open.
SessionsClosed == (\A c \in Conns : phase[c] = "closed") => ~live
=============================================================================
