----------------------------- MODULE TailSystem -----------------------------
(***************************************************************************)
(* TailManager together with the agent that serves it: the dispatcher of   *)
(* agent/logsonfire_agent/dispatch.py, for the same path, at the other end *)
(* of a WebSocket whose two directions are FIFO.                           *)
(*                                                                         *)
(* The dispatcher handles one message at a time, and a follower is a task  *)
(* of its own.  When the agent loses its connection, what is on its way to *)
(* it is gone, and so is its whole state: stop_all() runs and the next     *)
(* connection has a new Dispatcher.  The server goes on reading what came  *)
(* over the old one until that connection's handler ends, which may be     *)
(* after the agent is back.                                                *)
(*                                                                         *)
(* tail_line messages change no state modelled here and are left out; see  *)
(* LineBroker.                                                             *)
(***************************************************************************)
EXTENDS Naturals, Sequences, FiniteSets

CONSTANTS
    Browsers, Sessions, Conns, None,   \* as in TailManager
    Tasks,    \* identities of follower tasks, reused
    Faults    \* what may happen besides browsers that come and go, see below

\* "timeout"   a start_tail request times out on the server
\* "end"       a follower fails or its source ends
\* "drop"      the connection is lost
\* "refuse"    the agent answers start_tail with an error
\* "overtake"  the clean-up of a cancelled follower (closing a file in a
\*             thread, waiting for a process) lasts longer than the next start
\* "batch"     the server reads further messages of the agent before the
\*             handler whose request was answered resumes
\* "overlap"   the agent is back before the server has noticed that it left
FaultNames == {"timeout", "end", "drop", "refuse", "overtake", "batch", "overlap"}
ASSUME FaultsAssumption == Faults \subseteq FaultNames
ASSUME BrowsersFinite == IsFiniteSet(Browsers)
ASSUME NoTaskAssumption == None \notin Tasks /\ None \notin Sessions /\ None \notin Conns

VARIABLES lockQueue, registered, status, count, subscribers, ended, pc, held,
          reply, via, handlers, current   \* TailManager

VARIABLES
    link,     \* the connection the agent has its end of
    down,     \* messages on their way to the agent, over that connection
    up,       \* messages on their way to the server, over each connection
    job,      \* the start_tail the dispatcher is in: the id of its request
    stage,    \* how far it is: "reading" the backfill or "sent"
    tails,    \* dispatcher._tails.get(path)
    task      \* the state of each follower task

serverVars == <<lockQueue, registered, status, count, subscribers, ended, pc,
                held, reply, via, handlers, current>>
agentVars == <<job, stage, tails, task>>
netVars == <<link, down, up>>
vars == <<serverVars, netVars, agentVars>>

Server == INSTANCE TailManager

\* "failed" and "cancelled" tasks still have their finally clause to run.
TaskStates == {"none", "created", "running", "failed", "cancelled"}

\* A session makes one request, so its identity stands for the request's id.
Start(s) == [type |-> "start", id |-> s]
\* Wrong variant: the message that stops a tail says start_tail.
StopAsStart == Start(None)

Stop == [type |-> "stop", id |-> None]
Reply(answer, s) == [type |-> answer, id |-> s]
Ended(how) == [type |-> how, id |-> None]

DownMessages == [type : {"start"}, id : Sessions] \cup [type : {"stop"}, id : {None}]
UpMessages == [type : {"ok", "error"}, id : Sessions]
                 \cup [type : Server!Dead, id : {None}]

\* What is sent over a connection the agent no longer holds is lost.
Down(m) == down' = IF link # None /\ current = link THEN Append(down, m) ELSE down
Up(m) == up' = [up EXCEPT ![link] = Append(@, m)]

Mentions(channel, s) == \E i \in 1..Len(channel) : channel[i].id = s

Init ==
    /\ Server!Init
    /\ link = None /\ down = <<>> /\ up = [c \in Conns |-> <<>>]
    /\ job = None /\ stage = "sent" /\ tails = None
    /\ task = [t \in Tasks |-> "none"]

-----------------------------------------------------------------------------
(* The server *)

\* Steps of a browser's handler that send nothing.
Handle(b) ==
    /\ \/ Server!SubscribeCall(b) \/ Server!UnsubscribeCall(b)
       \/ Server!Join(b) \/ Server!CreateOffline(b)
       \/ Server!StartOk(b) \/ Server!StartFail(b)
       \/ Server!Leave(b) \/ Server!LeaveLastOffline(b) \/ Server!StopSent(b)
    /\ UNCHANGED <<netVars, agentVars>>

\* The request is written before its reply is awaited, stop_tail likewise.
SendStart(b, s) ==
    /\ ~Mentions(down, s) /\ (\A c \in Conns : ~Mentions(up[c], s)) /\ job # s
    /\ Server!Create(b, s)
    /\ Down(Start(s))
    /\ UNCHANGED <<link, up, agentVars>>

SendStop(b) ==
    /\ Server!LeaveLast(b)
    /\ Down(Stop)
    /\ UNCHANGED <<link, up, agentVars>>

RequestTimesOut ==
    /\ "timeout" \in Faults
    /\ Server!TimeOut
    /\ UNCHANGED <<netVars, agentVars>>

\* deliver() looks for the request in the connection registered now.
Awaited(s) ==
    /\ reply = "pending" /\ via = current
    /\ \E b \in Browsers : pc[b] = "starting" /\ held[b] = s

\* The read loop of a connection.  A reply to a request that is no longer awaited
\* is dropped.
Receive(c) ==
    /\ c \in handlers /\ up[c] # <<>>
    /\ "batch" \in Faults \/ reply \notin {"ok", "error"}
    /\ up' = [up EXCEPT ![c] = Tail(@)]
    /\ LET m == Head(up[c])
       IN  CASE m.type \in {"ok", "error"} /\ m.id # None ->
                  IF Awaited(m.id) THEN Server!Deliver(m.type) ELSE UNCHANGED serverVars
             [] OTHER -> Server!AgentEnds(m.type)
    /\ UNCHANGED <<link, down, agentVars>>

\* Wrong variant: only the registry learns of the disconnection.
ServerForgets(c) ==
    /\ c # link /\ c \in handlers /\ ~(reply \in {"ok", "error"} /\ via = c)
    /\ handlers' = handlers \ {c} /\ current' = None
    /\ up' = [up EXCEPT ![c] = <<>>]
    /\ UNCHANGED <<lockQueue, registered, status, count, subscribers, ended, pc,
                   held, reply, via, link, down, agentVars>>

\* The handler of a lost connection ends; what it had not read is gone.
ServerDisconnects(c) ==
    /\ c # link
    /\ Server!Disconnect(c)
    /\ up' = [up EXCEPT ![c] = <<>>]
    /\ UNCHANGED <<link, down, agentVars>>

\* The agent tries again half a second later, whatever the server has noticed: a
\* new connection, with a new Dispatcher.
Reconnect(c) ==
    /\ link = None
    /\ "overlap" \in Faults \/ handlers = {}
    /\ Server!Connect(c)
    /\ link' = c
    /\ UNCHANGED <<down, up, agentVars>>

-----------------------------------------------------------------------------
(* The agent *)

\* wsclient.py leaves its loop and calls stop_all(); the tasks of the old
\* dispatcher end without anything they do being seen.
Lose ==
    /\ link # None /\ "drop" \in Faults
    /\ link' = None
    /\ down' = <<>>
    /\ job' = None /\ stage' = "sent" /\ tails' = None
    /\ task' = [t \in Tasks |-> "none"]
    /\ UNCHANGED <<serverVars, up>>

\* _handle_start_tail: read the last lines in a thread (or a process), which
\* takes turns of the loop in which a task created before begins ...
TakeStart ==
    /\ job = None /\ down # <<>> /\ Head(down).type = "start"
    /\ job' = Head(down).id /\ stage' = "reading"
    /\ down' = Tail(down)
    /\ UNCHANGED <<serverVars, link, up, tails, task>>

HasRead == job # None /\ stage = "reading" /\ \A t \in Tasks : task[t] # "created"

ReadFails ==
    /\ HasRead /\ "refuse" \in Faults
    /\ Up(Reply("error", job))
    /\ job' = None /\ stage' = "sent"
    /\ UNCHANGED <<serverVars, link, down, tails, task>>

\* ... send them ...
SendBackfill ==
    /\ HasRead
    /\ Up(Reply("ok", job))
    /\ stage' = "sent"
    /\ UNCHANGED <<serverVars, link, down, job, tails, task>>

CleaningUp == \E t \in Tasks : task[t] = "cancelled"

\* Wrong variant: a task is started whether or not one is registered.
FollowAgain(t) ==
    /\ job # None /\ stage = "sent"
    /\ "overtake" \in Faults \/ ~CleaningUp
    /\ task[t] = "none"
    /\ task' = [task EXCEPT ![t] = "created"]
    /\ tails' = t
    /\ job' = None
    /\ UNCHANGED <<serverVars, netVars, stage>>

\* ... and follow the path unless a task is registered for it.
FollowOne(t) ==
    /\ job # None /\ stage = "sent"
    /\ "overtake" \in Faults \/ ~CleaningUp
    /\ job' = None
    /\ IF tails = None
       THEN /\ task[t] = "none"
            /\ task' = [task EXCEPT ![t] = "created"]
            /\ tails' = t
       ELSE UNCHANGED <<task, tails>>
    /\ UNCHANGED <<serverVars, netVars, stage>>

\* Wrong variant: the task is forgotten and not cancelled.
ForgetTask ==
    /\ job = None /\ down # <<>> /\ Head(down).type = "stop"
    /\ down' = Tail(down)
    /\ tails' = None
    /\ UNCHANGED <<serverVars, link, up, job, stage, task>>

\* _handle_stop_tail: a task cancelled before its first step never runs.
TakeStop ==
    /\ job = None /\ down # <<>> /\ Head(down).type = "stop"
    /\ down' = Tail(down)
    /\ tails' = None
    /\ task' = IF tails = None THEN task
               ELSE [task EXCEPT ![tails] = IF @ = "created" THEN "none" ELSE "cancelled"]
    /\ UNCHANGED <<serverVars, link, up, job, stage>>

Begin(t) ==
    /\ task[t] = "created"
    /\ task' = [task EXCEPT ![t] = "running"]
    /\ UNCHANGED <<serverVars, netVars, job, stage, tails>>

\* tail() raised: the task sends tail_error and awaits the send.
Fail(t) ==
    /\ task[t] = "running" /\ "end" \in Faults
    /\ task' = [task EXCEPT ![t] = "failed"]
    /\ Up(Ended("error"))
    /\ UNCHANGED <<serverVars, link, down, job, stage, tails>>

\* Wrong variant: a follower that ends does not say so.
FinishSilently(t) ==
    /\ \/ task[t] \in {"failed", "cancelled"}
       \/ task[t] = "running" /\ "end" \in Faults
    /\ task' = [task EXCEPT ![t] = "none"]
    /\ tails' = None
    /\ UNCHANGED <<serverVars, netVars, job, stage>>

\* The finally clause of _follow, also reached when tail() just ended.  It pops
\* the path, whichever task is registered for it now.
Finish(t) ==
    /\ \/ task[t] \in {"failed", "cancelled"}
       \/ task[t] = "running" /\ "end" \in Faults
    /\ task' = [task EXCEPT ![t] = "none"]
    /\ tails' = None
    /\ Up(Ended("closed"))
    /\ UNCHANGED <<serverVars, link, down, job, stage>>

-----------------------------------------------------------------------------

ServerNext ==
    \/ \E b \in Browsers : Handle(b) \/ SendStop(b) \/ \E s \in Sessions : SendStart(b, s)
    \/ RequestTimesOut
    \/ \E c \in Conns : Receive(c) \/ ServerDisconnects(c) \/ Reconnect(c)

AgentNext ==
    \/ Lose \/ TakeStart \/ ReadFails \/ SendBackfill \/ TakeStop
    \/ \E t \in Tasks : FollowOne(t) \/ Begin(t) \/ Fail(t) \/ Finish(t)

Next == ServerNext \/ AgentNext

Spec == Init /\ [][Next]_vars

\* Both event loops run what can run, the agent reconnects for ever, and what is
\* read in a thread is read.  Nothing obliges a browser, a follower to end or a
\* connection to break.
AgentRuns == \/ TakeStart \/ SendBackfill \/ TakeStop
             \/ \E t \in Tasks : FollowOne(t)

Fairness ==
    /\ \A b \in Browsers :
          WF_vars(/\ \/ Handle(b) \/ SendStop(b) \/ \E s \in Sessions : SendStart(b, s)
                  /\ pc[b] \notin {"idle", "subscribed"})
    /\ \A c \in Conns : WF_vars(Receive(c)) /\ WF_vars(ServerDisconnects(c))
    /\ WF_vars(\E c \in Conns : Reconnect(c))
    /\ WF_vars(AgentRuns)
    /\ \A t \in Tasks : /\ WF_vars(Begin(t))
                        /\ WF_vars(task[t] # "running" /\ Finish(t))

FairSpec == Spec /\ Fairness

-----------------------------------------------------------------------------

TypeOK ==
    /\ Server!TypeOK
    /\ link \in Conns \cup {None}
    /\ down \in Seq(DownMessages) /\ up \in [Conns -> Seq(UpMessages)]
    /\ job \in Sessions \cup {None} /\ stage \in {"reading", "sent"}
    /\ tails \in Tasks \cup {None}
    /\ task \in [Tasks -> TaskStates]

\* The manager behind real channels and a real agent is the manager: all that
\* is proved of TailManager holds here.
ManagerSpec == Server!Spec

Followers == {t \in Tasks : task[t] \in {"created", "running"}}

\* Nothing is in flight and nobody is in the middle of anything.
AtRest ==
    /\ link # None /\ handlers = {link} /\ (\A c \in Conns : up[c] = <<>>)
    /\ down = <<>> /\ job = None /\ reply = "none" /\ lockQueue = <<>>
    /\ \A t \in Tasks : task[t] \in {"none", "running"}

\* The same, and the agent's connection is the registered one: no older handler
\* has detached it.
Quiet == AtRest /\ current = link

Running == registered # None /\ status[registered] = "running"

Unwatched == \A b \in Browsers : pc[b] # "subscribed"

\* "This agent never streams a line for a source nobody's currently watching in
\* the dashboard" (dispatch.py 5-8), once everything has settled and the server
\* can reach the agent.
OnlyWatchedIsFollowed == Quiet /\ Unwatched => Followers = {}

\* A path is never followed twice at a time, which would show every line twice.
OneFollower == Cardinality(Followers) <= 1

\* A subscribed browser gets a follower for its path or is told that there is
\* none any more (service.py 71-73: "instead of hanging silently").
FollowedOrTold ==
    \A b \in Browsers :
        pc[b] = "subscribed" ~> Followers # {} \/ b \in ended \/ pc[b] # "subscribed"

-----------------------------------------------------------------------------
(* What the comments say and the code does not keep.                       *)

\* "A TailSession owns exactly one real 'follow this file' operation on the
\* owning agent" (session.py 1-4): once everything has settled, a running
\* session has its follower.
RunningIsFollowed == Quiet /\ Running => Followers # {}

\* "This agent never streams a line for a source nobody's currently watching in
\* the dashboard" (dispatch.py 5-8), whether or not the server can reach it.
NeverUnwatched == AtRest /\ Unwatched => Followers = {}

\* The server "re-sends start_tail for anything that still has a subscriber once
\* hello arrives" (wsclient.py 4-6).
ResentAfterHello == Quiet /\ ~Unwatched => Followers # {}
=============================================================================
