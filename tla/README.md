# Logs On Fire in TLA+

Logs On Fire shows log files of many hosts live in a browser.  A small *agent*
on each host opens a WebSocket to the central *server*; a browser *tab* opens
another.  A log is followed on its host only while somebody watches it, everybody
who watches the same log shares one follower, and a grep bar filters the live
view.  The program has little data and a lot of protocol: three kinds of asyncio
or browser event loop, two WebSocket hops, sessions shared by reference count,
reconnections on both hops.  That protocol is what these modules model.

Paths below are relative to the repository: `tailing/` is
`src/backend/app/tailing/`, `agents/` is `src/backend/app/agents/`, `routes/` is
`src/backend/app/api/routes/`, `security/` is `src/backend/app/security/`, `frontend/`
is `src/frontend/src/`, `agent/` is `src/agent/logsonfire_agent/`, `agentcore/` is
`src/agentcore/logsonfire_agentcore/`.

Contents: [1 the system](#1-the-system), [2 modules](#2-modules-and-the-code),
[3 runs](#3-what-the-runs-show), [4 fairness](#4-fairness),
[5 proofs](#5-what-is-proved), [6 where code and text disagree](#6-where-the-code-and-its-text-disagree),
[7 not modelled](#7-what-is-not-modelled), [8 plan](#8-plan).

## 1 The system

| component | state it keeps | operations | what makes it correct |
|---|---|---|---|
| Tail session manager (`tailing/manager.py`, `session.py`) | `_sessions`, one lock per key, per session a status and a subscriber count | `subscribe`, `unsubscribe`, `start`, `stop`, routing of `tail_error`/`tail_closed` | one session per path, an exact reference count, no session left behind, no browser waiting on a dead session untold, no call that hangs |
| Line broker and ring buffer (`tailing/broker.py`, `session.py`) | a queue of at most 1000 events per browser, the last N lines | `publish`, `subscribe`, `receive_line`, the snapshot | backfill and queue meet exactly; a slow browser loses only its oldest events and delays nobody |
| Agent connections and requests (`agents/registry.py`, `service.py`, `routes/ws_agent.py`) | the registered connection of each agent, pending futures, `connected_at` | `attach`, `detach`, `request`, `deliver`, `mark_connected`, `mark_disconnected` | the registered connection is the live one, every request ends once, the online flag tells the truth |
| Agent tail dispatcher (`agent/dispatch.py`, `wsclient.py`) | `_tails`: the follower task of each path | `start_tail`, `stop_tail`, `_follow`, `stop_all`, reconnection | a watched path is followed, once; an unwatched one is not |
| Browser WebSocket client (`frontend/lib/wsClient.ts`) | panels' subscriptions, the server's names for them, requests under way, timers | `subscribe`, `unsubscribe`, `setFilter`, `connect`, `onclose`, `handleMessage` | every panel is served again after a reconnection, with its filter, once |
| Live log socket handler (`routes/ws_logs.py`) | a `Subscription` per panel, its filter and its task | `handle_*`, `forward_events`, the reauth watchdog, the teardown | no filter and no line lost to a running grep |
| Log panel (`frontend/components/LogPanel.tsx`) | the typed filter, the shown lines | typing, picking, `onEvent` | what is typed is what is shown, in the end |
| Following a log on its host (`agentcore/local.py`) | file handle, position, the unfinished line, or a child process | `read_tail`, `tail`, rotation, truncation, cancellation | lines as they were written, each once, to the end of the file |
| Requests to a host (`agentcore/local.py`, `resolvers/`, `agent/dispatch.py`, `routes/log_sources.py`, `routes/agents.py`) | the walk of a tree, the message in the dispatcher's hands | exact, glob and regex sources, listings, units, containers, update | what a pattern names is complete or marked as truncated; a failure is reported as one |
| User sessions (`routes/auth.py`, `security/deps.py`, `jwt.py`, `core/csrf.py`, `frontend/lib/api.ts`, `auth.tsx`) | cookies, the shared refresh of a tab | sign in and out, refresh, retry, the csrf check | a user is not asked for the password without need, and what he chose last holds |
| Enrolment and install links (`agents/service.py`, `install_links.py`, `routes/agents.py`, `agent_install.py`, `frontend/routes/AgentsPage.tsx`) | token hashes, links with an expiry, the page's dialog | create, reissue, delete, link, download | a link is used once and in time; a host authenticates as the agent it was enrolled as |
| Heartbeat (`agents/heartbeat.py`) | last pong, rtt | ping, pong, deadline | a dead connection is noticed, a live one kept |
| Grep expressions (`tailing/grep.py`) | none | parse, run | only the documented flags reach grep |
| Log sources, dashboards, saved filters, users, audit | rows | CRUD | |

How they interact.  A panel calls the tab's one WebSocket client, which sends
`subscribe`; the handler of `/ws/logs` awaits `TailSessionManager.subscribe()`,
which on the first viewer of a path awaits `start_tail` through the registry;
the agent's dispatcher reads the last lines, answers, and starts a follower task
that sends `tail_line`.  The read loop of `/ws/agent` routes these to the session
of that *path*, whose broker puts them in every viewer's queue; a task per
subscription takes them from there and sends them to the tab, or runs `grep` over
the buffer when a filter is set.  An administrator enrols an agent on the Agents
page and runs the command of its dialog on the host; forms ask the agent which files a
pattern names.  All of it is done with cookies that expire and are refreshed behind the
page's back.

What is hard about it:

* **Await points.**  The server is one asyncio loop, so there are no data races,
  but every `await` under a lock, between a check and a use, or between a
  delivered future and the caller that resumes, lets something else happen.
* **Names that outlive things.**  `stop_tail`, `tail_closed` and `detach()` name a
  path or an agent, not the session or the connection they are about.
* **Two hops that fail independently**, each with its own reconnection and its own
  idea of what the other side remembers.
* **Bounded queues and rings** that drop.
* **A host that changes while it is looked at**: files rotated under their reader,
  trees that grow and shrink during a walk.
* **One browser, several requests**: answers arrive in another order than they were
  asked for, and every answer may set the cookies all tabs share.
* **Liveness**: locks held across requests to another host, timers, debounces.

`PROJECT.json` lists every such hazard at its line under `hazards`.

## 2 Modules and the code

An action is the code between two awaits that can suspend.  The state of a
coroutine between awaits is a program counter (`pc`, `phase`, `stage`, `task`).
Every module has `Init`, one action per step of a handler, `Next`, `Spec`, and
where liveness is checked `FairSpec`; the four that a run extends two by two have these
under names of their own (`FollowInit`, `RequestNext`, `WebSpec`, `EnrolSpec`).  Definitions named "Wrong variant" in a
comment are plausible mistakes in the code next to them: substituted for the right
definition they must break a property, which shows that the property depends on
the code.  They are used by nothing else.

| module | models | composes |
|---|---|---|
| `TailManager` | `tailing/manager.py`, `session.py`: one key, many browsers; the agent is free to answer, end or vanish | |
| `TailSystem` | the manager behind two FIFO channels and the dispatcher of `agent/dispatch.py` with the connection of `agent/wsclient.py` | instance `Server` of `TailManager`; shown to implement it |
| `LineBroker` | `tailing/broker.py` and the buffer of `session.py` | instance `Feed` of `LineFeed`; shown to implement it |
| `LineFeed` | abstract: one numbered feed, per viewer the position of the next event | |
| `AgentRegistry` | `agents/registry.py`, `service.py`, the handler of `routes/ws_agent.py` | |
| `LogSocket` | `frontend/lib/wsClient.ts` and the message loop of `routes/ws_logs.py`: one connection at a time and what is said over it | both ends and the channels between them |
| `TabSockets` | `frontend/lib/wsClient.ts`: the sockets of a tab while one that was lost is still CLOSING | |
| `LiveFilter` | `LogPanel.tsx`, the filter handlers and `forward_events()` of `routes/ws_logs.py` | panel, handler, task and channels |
| `FileTail` | `tail`, `read_tail` of `agentcore/local.py` and the task of `agent/dispatch.py` that reads them, beside a host that writes, rotates and truncates | |
| `HostRequests` | the routes that ask an agent, the other handlers of `agent/dispatch.py`, the resolvers and listings of `agentcore/` | both ends, the connection and the host's files |
| `WebSession` | `routes/auth.py`, `security/`, `core/csrf.py`, `frontend/lib/api.ts`, `auth.tsx`, and the refresh of `wsClient.ts` | tabs, cookies, server |
| `Enrolment` | `agents/service.py`, `install_links.py`, the routes of agents and links, `AgentsPage.tsx` | page, server, hosts |
| `*Proofs` | theorems about the module of that name; `AgentHostProofs` and `WebAccountsProofs` about the modules of the runs `MCAgentHost` and `MCWebAccounts` | |
| `MCAgentHost`, `MCWebAccounts`, `MCLogSocket` | `FileTail` and `HostRequests`, `WebSession` and `Enrolment`, `LogSocket` and `TabSockets`, side by side | the two modules of each |
| other `MC*` | instances for TLC | |

**TailManager.**  `lockQueue` is the key's `asyncio.Lock`: its holder, then its
waiters.  `registered` is `_sessions.get(key)`.  Sessions are objects: an ended one
lives on while a handler `held`s it and a new one is registered under the same key.
`subscribe()` is `SubscribeCall` (asks for the lock), then `Join`, `Create` or
`CreateOffline`; `Create` awaits `start()`, which ends in `StartOk` or `StartFail`.
`unsubscribe()` is `UnsubscribeCall` (the queue leaves the broker at once), then
`Leave`, `LeaveLast` followed by `StopSent`, or `LeaveLastOffline`.  `ended` is the
set of browsers that have a `TailError` or `TailClosed` in their queue.  `handlers` are
the agent's connections whose handler has not detached, `current` the one registered:
an agent may `Connect` again at any time, and `Disconnect` of any handler ends the
session and detaches whatever is registered.  `via` is the connection a request
captured; if that is not the one detached, only `TimeOut` ends the request.  Keys share
nothing, so one key is modelled.

**TailSystem.**  `link` is the connection the agent holds, `down` what is on its way
to it, `up[c]` what is on its way to the server over each connection.  Losing a
connection empties `down`; the server goes on reading `up[c]` until the handler of `c`
ends, which with `"overlap"` may be after the agent is back.  `job` and `stage` are where
the dispatcher's single message loop is inside `_handle_start_tail`; `tails` is
`_tails.get(path)`; `task` is the state of each follower task, a cancelled one included
until its `finally` clause ran.  A request is named by its session, so `SendStart` waits
until nothing on the wire has that name.  `Faults` says what may happen besides browsers
that come and go, so that each run can say what a property depends on.

**LineBroker.**  Events are numbered in the order they are published; the lines of
the agent's first reply are the numbers 0, -1, ....  `Publish` puts an event in
every queue, dropping the oldest of a full one; `Load` is `start()` resuming,
possibly behind any number of live events, which may have filled the ring.  `early`
remembers how many, so that `Arrival` can say in which order lines came in.
`Subscribe` is the end of `manager.subscribe()`, where the queue is opened and the
buffer copied.

**AgentRegistry.**  Each connection has a handler whose `phase` is the await it is
in: the commit of `mark_connected` (`marking`), the read loop (`open`), the commit of
`mark_disconnected` (`ending`), and behind it (`leaving`).  Handlers of several
connections overlap in every way: nothing makes the agent wait until the server has
noticed that an earlier connection is gone.  `attach` and `detach` are by agent id.  A
request remembers in `via` the connection it found.  `Delete` is the administrator's
deletion of the agent, `Restart` the end of the server process without its `finally`
clauses.

**LogSocket.**  The browser runs one task at a time and after it the promise
callbacks it made ready (`ready`, `Settled`).  `subs`, `serverSubId`, `filter`,
`routes`, `pending` are the fields of `LogWsClient`; `owner` and `serverFilter` are
the handler's `subscriptions`.  The access cookie decides whether a connection is
accepted; its expiry ends the connection with `reauth_required`.  Pages with a menu poll,
which refreshes the cookie as well; the view of one log or dashboard, modelled here, does
not (`App.tsx` 20-24, `AppShell.tsx` 26-38).

**TabSockets.**  `state` is the `readyState` of each socket, `ws`, `connecting` and
`timer` are the fields of `LogWsClient`, `subs` the keys of its subscriptions.  A socket
that is CLOSING is not open, so `connect()` makes another; `Opens`, `Fails` and `Closes`
run for either and do not ask which one they belong to.  `asked[s]` has the panels
subscribed over `s`, `retry` the sockets whose promise the reconnection timer awaits.

**LiveFilter.**  One subscription from the keyboard to the screen: the debounce
timer, the filter messages, the flag `dirty` that makes `forward_events()` run grep
again, and the view.  The result of grep is named by the expression and by how many
lines it was given; what grep prints is not modelled.  `Raising` are expressions that
pass the check and make `run_grep` raise: its task has then `raised`, and the panel hears
no more.

**FileTail.**  A byte is the number of its writing, `breaks` says which bytes are
newlines; so a line of the model tells when and in which file it was written.  `disk`
has the contents of the files the path named over time, `writer` the one the program
still holds open.  The backfill is what `_read_last_lines_sync` computes from blocks
read backwards.  `place` is the await the follower is in; `checking` is between an empty
read and the `stat` that looks for a rotation, `reopening` between closing the old file
and opening the new one.  A journal unit or a container is a source of whole lines read
through a child process `proc`.

**HostRequests.**  A route's `call` waits, fails with the connection, or times out; the
dispatcher takes one message after the other (`job`), and a regex source is a walk of
`walk.stack` with one step per listing and per entry, in any order of entries, while
`FilesChange` adds and removes files, directories and permissions.  `steady` remembers
what could be found ever since the walk began and `owed` what the answer had to have:
they are history and no action reads them.  A glob source comes to one name
after the other, and looks at the files once more for their sizes; the tree may change
between any two of these steps.  A stored source may lack its base directory, since
PATCH checks nothing.  `Above` has the directories a path goes
through: those in every set that holds the path and is closed under "the directory of".

**WebSession.**  A request carries the cookies of the moment it is sent; an answer sets
cookies when it arrives.  `jar` is shared by the tabs, `renewal` holds the refresh that
the calls of a tab share and the one its live socket makes for itself.  A token is good or
was signed with a secret that a restart lost.  `lapsed` and `asked` are history: whether a
refresh could have been refused since a tab's calls were made, and `what` the user last
asked for, with the refreshes that were under way then and say otherwise (`late`), and
whether one of these has undone it (`undone`).

**Enrolment.**  Tokens and codes are numbered as they are generated, a row holds the
token whose hash it stores.  Each handler of the page that may be under way is a `hand`;
it awaits the answer of its request, shows the token, asks for the link, shows it in
whatever dialog is open, and refreshes the list.  `copied` are install commands somebody
has, for the host they were meant for; they may be run at any time.

## 3 What the runs show

`tlc -config X.cfg M` for each; a run and its configuration share a name.

| run | question | bounds |
|---|---|---|
| `MCTailManager` | Is sharing by reference count correct, is everyone told of an end, and does every call return, while the agent does what it likes over connections that overlap? | 2 browsers, 3 sessions, 3 connections |
| `MCTailSystem` | Does the manager still behave so behind channels and the real dispatcher (`ManagerSpec`)?  Is nothing followed that nobody watches, and nothing twice? | 2 browsers, 2 sessions, 2 connections, 2 tasks; lost and overlapping connections, refusals, ended followers, batched reads |
| `MCTailSystemOne` | Is a subscribed browser followed or told? | 1 browser, 2 sessions, 2 connections, 1 task; lost connections, refusals, ended followers, request timeouts |
| `MCLineBroker` | Do backfill and queue meet, is only the oldest dropped, is the ring the newest lines in order of arrival, does it implement `LineFeed`? | 2 browsers, queues of 2, a ring of 3, 2 first lines, 4 events |
| `MCAgentRegistry` | However handlers overlap, agents are deleted and the server restarts: do pending tables leak, is a future set once, does the newest connection stay registered, does an answer find its request, is who is reachable shown online, do sessions end, does every request return? | 3 connections, 1 request |
| `MCLogSocket` | After drops, refusals and expiries: is every panel served, with its filter, under a name the client knows; does the tab reconnect?  When sockets overlap, is some connection, attempt or timer left for the panels? | 2 panels, 4 subscription ids, 1 filter, at most 2 unsent messages when a panel calls; 3 sockets |
| `MCLiveFilter` | Does the view catch up with what is typed, does a plain view have a gap, is what is typed answered? | 3 filters, one of which makes grep raise, 2 further lines, 1 message under way when the user types |
| `MCAgentHost` | Are lines shown as they were written, each once, and does the follower reach the end or tell?  Is what a pattern names complete or marked? | 4 bytes before and in all, 3 files, 2 rotations or truncations, blocks and chunks of 2 bytes, 1 line of backfill; 1 request, 2 directories and 3 files, caps of 1 file and 3 entries |
| `MCWebAccounts` | Is a user asked for the password only if no refresh was possible, does his last choice hold?  Is a link used once and in time, does a host authenticate as itself? | 1 tab, 2 calls, restarts that lose the secret, deactivation, network errors; 2 agents, 2 handlers, 2 tokens, 2 codes, a lifetime of 0 ticks and 1 tick |
| `MCTailManagerStop` | Is the path stopped only by its last browser?  No (6.1). | 2 browsers, 2 sessions, 2 connections |
| `MCAgentRegistryShown` | Is a connected agent shown as such?  No (6.8). | 2 connections, 1 request |
| `MCLogSocketTwice` | Is a panel subscribed once?  No (6.11). | 1 panel, no faults |

The last three check one sentence of the repository each that the code does not keep, in
the smallest instance that shows it, and stop at the counterexample.  The other
configurations in this directory, but for `MCTailSystemBack`, do the same for the remaining
paragraphs of section 6;
`tlc -config X.cfg M` takes for each the `MC` module whose name begins its own.  They are
kept for who wants to see the trace, and are not among the runs of `PROJECT.json`.

`MCTailSystemBack` asks the question of `MCTailSystemOne` of an agent that is back before the
server has noticed that it left, with `"overlap"` in place of `"timeout"`, and passes as well: the
handler of the lost connection still ends the session, so its browser is told.  With both,
liveness takes TLC too long.

`MCAgentHost`, `MCWebAccounts` and `MCLogSocket` check two modules each that share no state.
A variable `part`, fixed in the initial states, says which of the two moves; the other rests in one
state.  Every behaviour of either module is one of the run's, and nothing is said about
both moving, which could show nothing more.

Some properties are conjunctions: `CountsViewers` is `OneInside`, `RefCount` and
`NoOrphanSession`; `EndIsSeen` is `NoSilentHang` and `OfflineIsSeen`; `CallsReturn` is
`SubscribeReturns` and `UnsubscribeReturns`; `Restored` is `Resubscribed` and
`FilterAgrees`.

What a property does not say is part of it:

* `OfflineIsSeen` speaks of an agent with no handler left.  While one of several is left,
  a detach between `deliver()` and the resumption of `start()` can leave a running session
  untold, and its browsers are told when that handler ends, too.
* `OnlyWatchedIsFollowed` speaks of an agent the server can reach (`Quiet` has
  `current = link`).  `MCTailSystemDetached` shows that otherwise it fails.
* `BufferIsNewest` is about the order of arrival.  `MCLineBrokerLate` shows that this is
  not the order of the log.
* `SessionsClosedIfPresent` is about an agent that was not deleted;
  `MCAgentRegistryDeleted` is about one that was.
* `FilterCatchesUp` and `FilterAnswered` are about a task that lives and an expression
  that does not end it; `MCLiveFilterRaises` is about one that does.
* `Reconnects` ends its promise when the cookie expires; `MCLogSocketExpired` goes on.
* `AsTheUserAsked` allows one way out: a refresh that was under way when the user asked,
  and whose cookies arrive (`undone`).  `MCWebAccountsOut` takes it.
* `HostIsItself` is about a dialog during which no second token was revealed;
  `MCWebAccountsLink` is about one during which it was.
* `NeverLeft` says that an attempt is to come, not that it succeeds.

Why the bounds are enough to be interesting.  Two browsers are a lock holder and a
waiter behind it, or a subscriber of a session that was replaced and one of its successor;
a session that ended and is still held plus a registered one needs two, and the third lets
a second replacement happen.  Three browsers take TLC too long;
the run's invariants are proved for any number.  Two tasks are a cancelled follower
and its successor.  A queue of 2 and 4 events overflow twice; with a ring of 3 and a reply of 2, lines of the
reply evict live ones and live ones evict lines of the reply.  Two connections are an old
handler and a new one; with the third, an old handler ends while another old one is
between its commit and its detach and a new one is registered.  Requests share nothing but
their connection's end, so one is enough for their bookkeeping, which is proved for any
number.  Three sockets are a CLOSING one, the one that took its place and was forgotten, and
the timer's.  Two panels with four ids let both panels have an old and a new subscription.
Two lines and two filters let a line and a filter arrive while grep runs on an earlier
one; the third filter raises.  Four bytes with every choice of newlines and blocks of two
put a newline on, before and behind the edge of a block and leave a line unfinished
across it; a rotation and a truncation, in either order, are the two faults; a third file
is needed when the follower holds one, the writer another and the path names a third.  A
tree of two directories and three files exceeds both caps, with the excess in either
directory; that each of several requests is given its own answer is proved.  Two calls share a refresh and miss one; two handlers of the page overlap; a
lifetime of 0 with a clock of 1 makes a link expire before, between and after everything
else.

`Sessions`, `Tasks`, `Conns`, `Panels`, `Subs` and the requests of the registry are
identities that are reused as soon as nothing refers to them, so behaviours are unbounded.
`Sockets` are reused as well, but how many are open at a time is a bound: a tab that makes
more waits until one is closed.  The other bounds are `MaxEvents`, `MaxLines`, the two
`Backlog`s, the bytes and faults of `FileTail`, the requests of `HostRequests` and the
tokens, codes and ticks of `Enrolment`.  They cut inputs off and never what the code does
with one.  Deadlock checking is off where the model's inputs run out
(`MCLineBroker*`, `MCLiveFilter*`, `MCHostRequestsEmpty`; `MCAgentHost`,
where a follower ends; `MCWebAccounts*`, where agents and codes run out;
`MCLogSocketTwice` and `MCLogSocketOverlap`, where an unfaulted connection never gives a
panel's identity back).  In the other runs it is on; in `MCAgentRegistry*` a restart is
always possible.

Symmetry is used only where no liveness property is checked: in `MCTailSystem`, of browsers,
sessions, connections and tasks, and in `MCWebAccounts*`, of agents, handlers and calls.
The temporal properties among these are about steps.  None of these sets occurs in an ordered choice;
tokens and codes are numbers and are not permuted.

The cfg constants that switch a case off are named for it: `Faults` (what is not in the set
does not happen; section 6 says what fails with the rest), `Raising` (a set of expressions),
`Regrows` and `Domain` (section 6).

## 4 Fairness

Weak fairness of the steps of the two asyncio loops and of the browser's event
loop: a callback that can run is run.  In detail:

* `TailManager`: handlers that can go on do, and the timer of a request expires
  (`registry.py` 80).  Subscribing, leaving, and whatever the agent does are not
  fair.  A `send` that never completes is excluded: it happens under the key's lock
  and has no timer of its own (`registry.py` 60; section 6, at the end).
* `TailSystem`: in addition the agent's loop runs, what is read in a thread is read,
  the server notices a lost connection (`ServerDisconnects`: the socket, or a heartbeat
  without a pong), and the agent reconnects for ever (`Reconnect`; `wsclient.py` 25-39), not
  necessarily in this order.  A follower need not end, a connection need not break.
* `AgentRegistry`: handlers run, a dead connection is noticed, request timers expire.
  The agent need not answer.
* `LogSocket`: strong fairness of the browser's event sources.  A task of the
  browser is enabled again and again, disabled in between by callbacks that are due,
  and the browser serves its task queues in turn.  Strong fairness of `Open` says
  that attempts with a valid cookie do not fail for ever, weak fairness of `OpenFails` that
  an attempt ends.
* `LiveFilter`: timers fire, messages are read, the task runs, grep has a time
  limit (`grep.py` 168).
* `FileTail`: `FollowFairness`, weak fairness of the follower task as a whole: a task
  that can go on does, and reads in threads end (`dispatch.py` 206, 215).  The host need
  not write and a child process need not end.
* `TabSockets`, `HostRequests`, `WebSession`, `Enrolment` are checked for safety only and
  assume nothing.

## 5 What is proved

With TLAPS, for every value of the constants that satisfies the named assumptions
(finite sets of browsers, `None` outside the sets it is added to, positive sizes of
queues, blocks and chunks, a tree of directories).

**TailManagerProofs.**  `TypeOK`, `OneInside`, `RefCount`, `NoOrphanSession`,
`NoSilentHang`, `OfflineIsSeen`, and from these `CountsViewers` and `EndIsSeen`, the
conjunctions the run checks.  None of the last five is inductive.  The
invariant `IInv` adds to `TypeOK`

* `LockInv`: a handler is in the lock's queue exactly at the places of its code
  where it waits for the lock or holds it, once, and only the head is inside;
* `RefInv`: `RefCount`, and the broker of a session holds exactly the handlers that
  are subscribed to it; a session that is being started or stopped has no viewer;
* `SessionInv`: the session being started is the registered one, someone holds the
  registered session, a request is in flight exactly while someone is starting and, once
  answered, belongs to a connection whose handler has still to detach, and a dead
  registered session has told all its subscribers.

They are proved in this order (`TypeStep`, `LockStep`, `RefStep`, `SessionStep`),
each from the previous.  `OneInside` is `LockInv`: two heads of one queue are equal.
`NoOrphanSession` combines `RefCount` with the fact that who holds the registered
session and is not starting or stopping is one of its viewers.  `OfflineIsSeen`
is about an agent without handlers: an answer that is read but not taken keeps its
connection's handler, and that handler ends the session.

**TailSystemProofs.**  `SystemImplementsManager`: every step of the composed system
is a step of `TailManager` or leaves its variables alone.  All the refinement needs
to know of the agent is its alphabet (`WireOK`): it answers sessions' requests and
announces ends of the tail.  `SystemRefCount` and `ServerInv` carry what
`TailManagerProofs` shows over through the refinement, and with them `TypeCorrect`.
`FollowedOnce`: if a cancelled follower's clean-up never outlasts the next start, the
registered task is the only one that has not ended (`FollowInv`), so a path is followed
once.

`OnlyWatched` (`OnlyWatchedIsFollowed`), for any browsers, lost connections, connections
that overlap, refusals, ended followers and batched reads, assuming that no request times
out on the server and no clean-up lasts longer than the next start; without either TLC finds
a counterexample (6.3 and 6.6).  What is followed must be traced to somebody who watches it through
both channels: `WatchInv` says that, while the agent's connection is the registered one, a
start the agent has not answered is awaited, and that a follower is being stopped
(`Stopping`), or is there for a browser that has been or will be told yes (`Granted`), or
is watched (`Watched`).  It needs that requests and answers are on the wire once, over one
connection (`OnceInv`), and that the agent does nothing without a connection (`IdleInv`).
An agent whose connection an older handler has detached is outside: nobody can stop what it
follows (6.4).

The converse, that a running session is followed, is not a theorem: batched reads refute it
for one browser (6.2), and `stop_tail` for two (6.1).

**LineBrokerProofs.**  `TypeOK`, `QueueIsWindow`, `DropsOnlyOldest`,
`NeitherNorBoth`, `InOrder`, `BufferHasNoHole` (`BufferIsNewest`), and `ImplementsFeed`:
bounded drop-oldest queues implement `LineFeed`.  Everything rests on `QueueIsWindow`, a queue being the interval of the
newest events, which with `Split` (what was taken or dropped is the interval before
it) is inductive.  The ring is followed in the order of arrival: `RingExtend` says that a
ring behind which later lines are put holds the newest of both, for any order of lines, and
`RingStep` applies it to a live line and to the reply, which `Arrival` places wherever
`start()` resumed.  Only what a full ring has evicted is missing, at either moment.

**AgentRegistryProofs.**  For any connections and requests, however handlers overlap,
agents are deleted and the server restarts: `TypeOK`, `PendingExact`, `SetOnce`,
`NewestWins`, `AnswerFindsRequest`, `ReachableIsOnline`, `SessionsClosedIfPresent`.
`TypeOK` and `PendingExact` are inductive together.  The last four are inductive with
`Bookkeeping`: a connection the agent holds is served, an answer is outstanding only on the
connection the request captured, and a request that was answered has resumed before that
connection's handler is behind its commit.  That is why the handler's `session.receive_closed`
comes after whatever the answer starts.  What `models/agent.py` promises of the flag in
either direction is false (6.8, 6.9), and what `service.py` promises of sessions is false of
an agent that is deleted (6.10): the theorems say what is left.

**LiveFilterProofs.**  `TypeOK`, `PlainHasNoGap` and `FilterCatchesUp`, for any filters and
any number of lines.  For the plain view the invariant follows a line to the screen: `Reaches` says that a line is in the
view, or in a message on its way, and that no message behind it replaces the view by one
without the line.  `MessagesInv`: a line arrives after all earlier ones.  `PlainInv`:
without a filter, a line that is not queued any more reaches the view.  With `QueueInv`,
`ViewInv` and `InputInv` (once the timer is off, what is typed is the last thing sent, or
handled) it is inductive.  For the filtered view `AnswerInv` follows the answer: unless the
filter is about to be run again or cleared, grep has been given all lines but those still
queued, or what it said, its error for this very expression included, is the last message
on its way, or has arrived.  A task that has `raised` or returned answers nothing more, and
no promise is made for it.

**LogSocketProofs.**  `LogSocketTypeCorrect` (`TypeOK`), `PanelsAreRestored` (`Restored`)
and `StreamsReachPanels` (`StreamsArrive`), for any panels, names of subscriptions, filters,
faults and length of the channels.  Both properties speak of moments when nothing is under
way, so the invariant `IInv` says what is under way before them:

* `SocketInv`: the two ends agree whether the connection is there, and names, routes and
  callbacks do not outlive it;
* `RequestInv`: a request is on its way once, there or back, and its callback is
  registered; a panel whose turn has not come has not asked;
* `NameInv`: the name in an answer is in nothing else under way and routed nowhere yet, and
  a route leads to the panel the server serves and is not about to be unsubscribed;
* `StreamInv`, `AwaitedInv`: a panel's subscription is routed or its answer is on the way;
  a panel is subscribed or refused, or somebody has yet to say so;
* `FilterInv`: the last word on a subscription's filter, in force or on its way, is the
  panel's.

`SocketInv` and `RequestInv` come first: that an answer finds its callback is what lets
`NameInv` follow a name, and the other three follow the name to the panel.

**AgentHostProofs.**  About `HostRequests`, for any tree of files, caps and requests:
`RequestsTypeCorrect` (`RequestTypeOK`) and `WalkFindsAllThatStayed`
(`FindsAllThatStayed`).  It follows a file that stayed within reach through the walk: while
the answer is not truncated, the file is found, or it is among the entries still to look at,
or it is below a directory that is among them or on the stack.  From the walk to the caller
it relates the one message in the dispatcher's hands, the answers on their way and the calls
that wait: a request is on its way once, there or back, so an answer is the caller's own.  `TreeAssumption` says that the directories form a tree
without an induction: every set of paths that is closed under "the directory of" has the root.

About `FileTail`, for any log, block, chunk and number of lines, any newlines, and any
writes, rotations, removals and truncations between two steps of the follower:
`FollowerShowsWhatIsWritten` (`ShownIsWritten`) and `HostTypeCorrect` (`HostTypeOK`).  The
first assumes `~Regrows`; with `Regrows` it is false (section 6).  The second does not.

`BackfillIsLastLines` is about `_read_last_lines_sync` alone: whichever block the backward
reading stops at, dropping the piece that may be cut and the empty one after a last newline
leaves the last `BackfillLines` lines.  It needs that a suffix of a log is cut where the log
is (`SuffixFacts`), which is why `Cut` names the k-th newline instead of counting them off:
nothing about it is an induction.

What the follower shows is not inductive.  `FollowInv` relates it to what it has not
read yet:

* `DiskInv`: a file has consecutive bytes, those written since it was created or emptied,
  and the path names the youngest file; only there, or in the file held open, can
  anything be written;
* `FileInv` (`ReadTo`): the unfinished line is what was read last of the open file, it
  begins behind a newline unless it is the first, and all that was shown is older than
  it; of a file that was emptied everything is younger than what was shown.  Reading on
  therefore continues the line, and a truncated file starts a new one.  This is what a file
  that regrows unseen would break;
* `NextInv`: everything in a file that replaced the open one is younger than what was
  shown, so the follower may drop the old file, and the unfinished line with it;
* `LinesInv`: `ShownIsWritten` of the lines of a chunk that are not sent yet as well;
* `BackfillInv`, and the types, places and bounds (`FollowTypeInv`) the rest needs.

`FollowTypeStep` and `FollowStep` take the actions one by one; a chunk's lines are followed
through the positions they were cut at (`ChunkCuts`, `PiecesInOrder`).

**WebAccountsProofs.**  About `WebSession`: `WebTypeCorrect`; `GivesUpOnlyWhenLapsed`
(`GivesUpOnlyIfLapsed`), for any tabs, calls and faults; `SessionAsAsked`
(`AsTheUserAsked`), for cookies without a domain.  The invariants relate the refresh a tab
shares, the calls that wait for it, and the cookies every answer on its way will set: those
of a refresh agree with what the user asked for last, or the refresh is one of `late`.  A
refresh that was under way and is granted does undo a sign-out (6.17); the theorem says that
nothing else does.

About `Enrolment`: `EnrolTypeCorrect`, `LinkGivesOneScript` (the run's `LinkServedOnce`) and
`HostAuthenticatesAsItself` (`HostIsItself`), for any agents, handlers, lifetime and bounds.
Neither property is inductive; `IInv` adds to `EnrolTypeOK`

* `HandsOK`: a handler that has its answer holds a token of its agent and, once it has one,
  the code of a link of its agent;
* `LinksOK`: a stored link was not served yet, holds a token of its agent and expires `Ttl`
  after its birth;
* `RowsOK`: a row holds the newest token of its agent;
* `DialogOK`: the dialog has a token of its agent and, unless tokens were revealed across
  each other, no link but its agent's, now or on its way;
* `HostsOK`: under the same proviso a copied command leads to its host's agent, and an
  installed token is its host's own.

Each is preserved by a lemma of its own (`HandsStep`, `LinksStep`, ...) over the previous
ones, and `KeptStep` says once what no step takes back: tokens keep their owner, codes
their birth.  `AccountsTypeCorrect` puts both side by side, as the run does.

**Only model-checked**: liveness (`CallsReturn`, `FollowedOrTold`, `RequestsReturn`,
`Reconnects`, `FilterAnswered`, `CaughtUpOrTold`), since liveness
under fairness and `ENABLED` are beyond the prover, and `NeverLeft`, where the
number of sockets is a bound anyway.  What a recursive definition
computes for every input would be too, and RECURSIVE operators cannot occur in a module
with theorems: there is none.  Every other invariant of the passing runs is stated by a
theorem; where that has an assumption, its paragraph names it.

## 6 Where the code and its text disagree

Each with a configuration TLC finds the counterexample of.  1, 8 and 11 are runs, and
`PROJECT.json` quotes the sentence.

1. `MCTailManagerStop`.  `stop_tail` names a path.  The last viewer of a session that
   ended, and was replaced meanwhile, sends it and ends the follower of the new
   session, which others watch (`session.py` 68).  They are told that the tail was closed,
   unless the stop reaches the new follower before its first step: a task cancelled then
   runs none of its code, its `finally` clause included (`dispatch.py` 209-213, 215-225), and
   a running session is left without a follower and nobody is told.  With two browsers, two
   tasks and `Faults = {"end"}` TLC finds that as a violation of `RunningIsFollowed`.
2. `MCTailSystemBatch`.  `start()` sets the status to running after a `tail_closed` that
   was read in the same turn as the reply (`session.py` 49): new viewers join a session that
   nothing follows.
3. `MCTailSystemLate`.  A `start_tail` the server gave up on is still carried out, and
   nobody stops it (`registry.py` 79, `manager.py` 47).
4. `MCTailSystemDetached`.  The handler of a lost connection ends after the agent is back
   and detaches the new connection (`service.py` 78): the last viewer's `stop_tail` is not
   sent, and the agent streams on.
5. `MCTailSystemHello`.  `agent/wsclient.py` 4-6 says that the server sends `start_tail`
   again for what still has a subscriber once `hello` arrives; `routes/ws_agent.py` 91 only
   stores the version.  Viewers are told of the disconnection and stay without lines.
6. `MCTailSystemTwice`.  The `finally` clause of a cancelled follower pops its
   successor's entry (`dispatch.py` 224), and the next start follows the path twice.
7. `MCLineBrokerLate`.  `start()` appends the reply behind the live lines that came
   before it resumed (`session.py` 48): backfills and greps have older lines behind newer
   ones, and older lines evict newer ones.
8. `MCAgentRegistryShown`.  `mark_disconnected()` of an old connection clears
   `connected_at` although a newer one is registered, and detaches that (`service.py` 74;
   `models/agent.py` 29-31 says "nothing to drift out of sync").
9. `MCAgentRegistryRestart`.  A server that ends without its `finally` clauses leaves
   `connected_at` set, and nothing resets it at the start.
10. `MCAgentRegistryDeleted`.  The commit of `mark_disconnected()` raises if the row is
    gone, and what follows it is skipped (`service.py` 76): sessions stay open.  The next
    heartbeat's commit fails for the same reason.
11. `MCLogSocketTwice`.  The panel that opens a connection is subscribed by
    `resubscribeAll()` and again by the callback of its own `subscribe()`, and shows
    every line twice (`wsClient.ts` 6-8).
12. `MCLogSocketExpired`.  If the cookie expires while the tab is disconnected, no
    `reauth_required` arrives and the tab reconnects in vain (`wsClient.ts` 105).
13. `MCLogSocketOverlap`.  The `onclose` of a lost socket takes `this.ws` and
    `this.connecting` from the one made while it was CLOSING (`wsClient.ts` 63, 81-83): the
    timer makes another, and the tab has two connections.
14. `MCLiveFilterStale`.  A grep that was running when its filter was cleared sends its
    snapshot after the plain backfill (`ws_logs.py` 153): the panel stays filtered.
15. `MCLiveFilterRaises`.  `lstrip("-").isdigit()` accepts values that `int()` refuses
    (`grep.py` 105): the exception ends the forwarding task, silently for the panel.
16. `MCHostRequestsEmpty`.  A stored source of mode regex without a base directory, which
    PATCH allows, runs into an assertion without a message (`local.py` 289), and an empty
    `error` counts as success (`log_sources.py` 63).
17. `MCWebAccountsOut`.  A refresh that was sent before a sign-out and answered after it
    brings the cookies back (`auth.py` 99).
18. `MCWebAccountsLink`.  When a second token is revealed before the first one's link
    arrived, the first link is shown in the second dialog (`AgentsPage.tsx` 174), and the
    host it is run on becomes the first agent.

Met while modelling.  With a constant of a run changed TLC finds each of these:

* With `"overtake"`, `OnlyWatchedIsFollowed` fails too: nobody can stop the follower whose
  entry was popped.
* With `Regrows`, `ShownIsWritten` fails: a file that is truncated and outgrows what was
  read before the next look is taken for the old one, and what is shown next starts in the
  middle of a line.
* With `Domain`, `AsTheUserAsked` fails: `clear_auth_cookies()` names no domain, so it does
  not remove cookies that were set with one (`deps.py` 68, 47).

Seen by reading a trace or the code:

* A late `tail_closed` of a previous follower closes the session that replaced it.
* `reissue_token()` leaves a connection that used the old token open; its docstring and the
  route's say that it force-disconnects (`service.py` 36-53, `routes/agents.py` 120-122).
* `/api/auth/me` is not refreshed (`api.ts` 62 excludes `/api/auth/`), so a page that is
  opened after the access token ended asks for the password although the refresh token is
  good (`api.ts` 20-22, `config.py` 31-35).
* A panel that is removed before the answer to its `subscribe` is served until the
  connection ends.
* The backfill of `clear_filter` repeats lines that are still in the queue (`ws_logs.py`
  263).
* If the audit record of a subscription fails, the subscription is counted and nobody
  unsubscribes it.
* After a rotation the follower opens the new file without a retry: if it is gone again the
  follower ends with an error; and what a program still writes to the old file is not read
  (`base.py` 64 says "as they arrive, forever").
* `base.py` 68 says that a listing has directories first; `local.py` 329-334 sorts one flat
  list, and says why.
* A grep expression with `-e` passes its pattern as the file operand too (`grep.py`
  109-111, 148-153).
* `_key_locks` gets an entry per agent and path and loses none (`manager.py` 27); a `send`
  that never completes blocks the holder of a key's lock, which has no timer.

## 7 What is not modelled

* Lines' contents, ANSI colours, encodings, scrolling; permissions and the choice of the
  path in `handle_subscribe`.
* The restart of the agent by `self_update`: for the protocol a lost connection.  Of the
  server's restart, `AgentRegistry` and `Enrolment` have what it leaves in the database.
* The heartbeat's arithmetic: that a dead connection is noticed is a fairness assumption of
  `AgentRegistry`, and that a live one may be dropped is among its steps; what is left are
  lengths of time.
* The expression parser of `tailing/grep.py`: it works on characters, which no other part
  looks at.  That some expressions pass it and make `run_grep` raise is the constant
  `Raising` of `LiveFilter`.
* `has_permission()` and the grants: one query without state of its own.  Rate limits.
* Symbolic links, files that cannot be read but listed, inode numbers that are used again.
* Timers' lengths: a timer may expire at any time after it is set.
* Several keys, several agents: they share nothing but the event loop.
* The rows of log sources, the renaming of agents, dashboards, saved filters, users, roles
  and the audit log: CRUD with permission checks, nothing concurrent of its own.
* Bootstrap, configuration, migrations and the shell scripts: they run once.
* Rendering and forms of the browser.
* The database, WebSocket library, `grep`, `tail`'s operating system: external, as the
  code in the repository uses them.

## 8 Plan

Done, in this order: `TailManager` and its proofs; `TailSystem` (composition,
refinement); `LineFeed`, `LineBroker` and the refinement; `AgentRegistry` and its
proofs; `LogSocket` and `TabSockets`; `LiveFilter` and its proofs; `FileTail`, `HostRequests`;
`WebSession`; `Enrolment` and its proofs; then the proofs about `WebSession` and
`HostRequests`, the ring of `LineBroker`, the filtered view of `LiveFilter`, what
`TailSystem` says beyond the refinement, `LogSocket`, and the lines of `FileTail`.

What could follow, by importance:

1. An abstract specification of "a viewer sees the feed of a path while it is watched",
   implemented by the composition of `FileTail`, `TailSystem` and `LineBroker`.
2. `Heartbeat`, timed, with `ws_agent`'s handler: a dead agent is noticed within a bound,
   one that answers in time is not cut off.
