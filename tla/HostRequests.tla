---------------------------- MODULE HostRequests ----------------------------
(***************************************************************************)
(* What the server asks an agent besides tails: which files a log source   *)
(* names, what a directory holds, which units and containers there are,    *)
(* and to update itself.  The routes that ask, the dispatcher that handles *)
(* one message after the other, and the provider that looks at a host      *)
(* whose files come and go while it looks.                                 *)
(***************************************************************************)
EXTENDS Integers, Sequences, FiniteSets

CONSTANTS
    Requests,    \* requests, each made once
    Root, Dirs,  \* the base directory of the log source; the directories
    Files,
    Parent,      \* the directory of every file and of every other directory
    Matching,    \* the files the pattern matches
    MaxFiles,    \* MAX_RESOLVED_FILES
    MaxEntries,  \* MAX_WALK_ENTRIES
    NoRequest

Nodes == Dirs \cup Files

\* Sets that hold the directory of everything in them.
Closed == {S \in SUBSET Nodes : \A n \in S \ {Root} : Parent[n] \in S}

\* Every file and directory is somewhere below the base.
ASSUME TreeAssumption ==
    /\ Root \in Dirs /\ Dirs \cap Files = {} /\ Matching \subseteq Files
    /\ Parent \in [Nodes \ {Root} -> Dirs]
    /\ \A S \in Closed : S # {} => Root \in S

ASSUME RequestAssumption ==
    /\ IsFiniteSet(Dirs) /\ IsFiniteSet(Files)
    /\ MaxFiles \in Nat /\ MaxEntries \in Nat
    /\ NoRequest \notin Requests

VARIABLES
    there,     \* the files and directories that exist
    readable,  \* the directories that can be listed
    script,    \* SELF_UPDATE_SCRIPT exists
    linked,    \* the agent's connection
    call,      \* the route of each request: what it asked and what it returned
    inbox,     \* requests on their way to the agent
    job,       \* the request in the dispatcher's hands
    walk,      \* how far the provider is with it
    outbox,    \* replies on their way to the server
    steady,    \* what could be found ever since the provider began
    owed       \* what was to be found, and whether the provider failed, per request

requestVars == <<there, readable, script, linked, call, inbox, job, walk,
                 outbox, steady, owed>>
fileVars == <<there, readable, script>>

Resolving == {"exact_path", "glob", "regex", "journal", "docker"}
Kinds == Resolving \cup {"browse", "list_units", "list_containers", "self_update"}
Errors == {"none", "empty", "text"}

Children(d) == {n \in Nodes \ {Root} : Parent[n] = d}

\* The directories a path goes through.
Above == [n \in Nodes |-> {d \in Dirs \ {n} : \A S \in Closed : n \in S => d \in S}]

Reach(exist, list) == {n \in exist : Above[n] \subseteq exist \cap list}
Reached == Reach(there, readable)

Reply(error, files, truncated) ==
    [error |-> error, files |-> files, truncated |-> truncated]
Idle == [kind |-> "none", state |-> "idle", reply |-> Reply("none", {}, FALSE)]
NoWalk == [stack |-> <<>>, todo |-> {}, visited |-> 0, found |-> {},
           truncated |-> FALSE, error |-> "none", busy |-> FALSE]

RequestInit ==
    /\ there \in {t \in SUBSET Nodes : \A n \in t \ {Root} : Parent[n] \in t}
    /\ readable \in SUBSET Dirs
    /\ script \in BOOLEAN
    /\ linked = TRUE
    /\ call = [r \in Requests |-> Idle]
    /\ inbox = <<>> /\ outbox = <<>>
    /\ job = NoRequest /\ walk = NoWalk /\ steady = {}
    /\ owed = [r \in Requests |-> [files |-> {}, failed |-> FALSE]]

-----------------------------------------------------------------------------
(* The routes *)

Returns(r, reply) == call' = [call EXCEPT ![r].state = "done", ![r].reply = reply]

\* A route sends its request and waits; AgentOfflineError is an answer at once.
Ask(r, kind) ==
    /\ call[r].state = "idle" /\ linked
    /\ call' = [call EXCEPT ![r].kind = kind, ![r].state = "waiting"]
    /\ inbox' = Append(inbox, r)
    /\ UNCHANGED <<fileVars, linked, job, walk, outbox, steady, owed>>

AskOffline(r, kind) ==
    /\ call[r].state = "idle" /\ ~linked
    /\ call' = [call EXCEPT ![r] = [kind |-> kind, state |-> "done",
                                    reply |-> Reply("offline", {}, FALSE)]]
    /\ UNCHANGED <<fileVars, linked, inbox, job, walk, outbox, steady, owed>>

\* "Agent did not respond in time."
Expires(r) ==
    /\ call[r].state = "waiting"
    /\ Returns(r, Reply("late", {}, FALSE))
    /\ UNCHANGED <<fileVars, linked, inbox, job, walk, outbox, steady, owed>>

\* `if reply.get("error")': an empty message counts as none.
Response(reply) ==
    IF reply.error = "text" THEN Reply("text", {}, FALSE)
    ELSE Reply("none", reply.files, reply.truncated)

\* The read loop delivers a reply by its request's id; one that nobody awaits is
\* dropped.
Deliver ==
    /\ outbox # <<>>
    /\ outbox' = Tail(outbox)
    /\ LET r == Head(outbox).to
       IN  IF call[r].state = "waiting"
           THEN Returns(r, Response(Head(outbox).reply))
           ELSE UNCHANGED call
    /\ UNCHANGED <<fileVars, linked, inbox, job, walk, steady, owed>>

\* The connection breaks: requests fail, what is under way is lost.
Unlink ==
    /\ linked
    /\ linked' = FALSE /\ inbox' = <<>> /\ outbox' = <<>>
    /\ call' = [r \in Requests |->
                  IF call[r].state = "waiting"
                  THEN [call[r] EXCEPT !.state = "done", !.reply = Reply("offline", {}, FALSE)]
                  ELSE call[r]]
    /\ UNCHANGED <<fileVars, job, walk, steady, owed>>

Relink ==
    /\ ~linked /\ job = NoRequest
    /\ linked' = TRUE
    /\ UNCHANGED <<fileVars, call, inbox, job, walk, outbox, steady, owed>>

-----------------------------------------------------------------------------
(* The files of the host, while somebody looks at them *)

Looking == job # NoRequest /\ walk.busy

FilesChange ==
    /\ \E n \in Nodes :
          /\ IF n \in there THEN there' = there \ {m \in Nodes : m = n \/ n \in Above[m]}
             ELSE Above[n] \subseteq there /\ there' = there \cup {n}
          /\ UNCHANGED readable
       \/ \E d \in Dirs :
          /\ readable' = IF d \in readable THEN readable \ {d} ELSE readable \cup {d}
          /\ UNCHANGED there
    /\ Looking
    /\ steady' = steady \cap Reach(there', readable')
    /\ UNCHANGED <<script, linked, call, inbox, job, walk, outbox, owed>>

-----------------------------------------------------------------------------
(* The dispatcher and the provider *)

Kind == call[job].kind

\* The next message is handled once the previous one has been.
Take ==
    /\ job = NoRequest /\ inbox # <<>>
    /\ job' = Head(inbox) /\ inbox' = Tail(inbox)
    /\ walk' = [NoWalk EXCEPT !.busy = TRUE,
                    !.stack = IF call[job'].kind = "regex" THEN <<Root>> ELSE <<>>,
                    !.todo = IF call[job'].kind = "glob" THEN Matching ELSE {}]
    /\ steady' = Reached
    /\ UNCHANGED <<fileVars, linked, call, outbox, owed>>

Walks(w) ==
    /\ walk' = w
    /\ UNCHANGED <<fileVars, linked, call, inbox, job, outbox, steady, owed>>

\* resolve_by_regex() refuses a pattern that does not compile; a source that was
\* given the mode regex by PATCH may have no base directory, and the assertion of
\* resolve_sources() has no message.
Refuse ==
    /\ Looking /\ Kind = "regex" /\ walk.stack = <<Root>> /\ walk.visited = 0
    /\ \E error \in {"text", "empty"} : Walks([NoWalk EXCEPT !.error = error])

\* Pops a directory and lists it; one that cannot be listed is left out.
ListDir ==
    /\ Looking /\ Kind = "regex" /\ walk.todo = {} /\ walk.stack # <<>> /\ ~walk.truncated
    /\ LET d == Head(walk.stack)
       IN  Walks([walk EXCEPT !.stack = Tail(@),
                     !.todo = IF d \in Reached \cap readable
                              THEN Children(d) \cap there ELSE {}])

\* Wrong variant: the cap on what is found forgets to say so.
EntrySilentCap(n) ==
    LET seen == [walk EXCEPT !.todo = @ \ {n}, !.visited = @ + 1]
    IN  CASE walk.visited = MaxEntries -> [seen EXCEPT !.truncated = TRUE, !.todo = {}]
          [] walk.visited < MaxEntries /\ n \in Dirs -> [seen EXCEPT !.stack = <<n>> \o @]
          [] walk.visited < MaxEntries /\ n \in Files /\ Cardinality(walk.found) = MaxFiles -> seen
          [] OTHER -> [seen EXCEPT !.found = @ \cup ({n} \cap Matching)]

\* Wrong variant: the entry beyond the cap is still looked at.
EntryOneMore(n) ==
    LET seen == [walk EXCEPT !.todo = @ \ {n}, !.visited = @ + 1]
    IN  CASE walk.visited > MaxEntries -> [walk EXCEPT !.todo = {}, !.truncated = TRUE]
          [] walk.visited <= MaxEntries /\ n \in Dirs -> [seen EXCEPT !.stack = <<n>> \o @]
          [] OTHER -> [seen EXCEPT !.found = @ \cup ({n} \cap Matching)]

\* What the loop does with one entry: count it, push a directory, keep a file
\* that matches, stop at either cap.
Entry(n) ==
    LET seen == [walk EXCEPT !.todo = @ \ {n}, !.visited = @ + 1]
        cut  == [walk EXCEPT !.todo = {}, !.truncated = TRUE]
    IN  CASE walk.visited = MaxEntries -> cut
          [] walk.visited < MaxEntries /\ n \in Dirs -> [seen EXCEPT !.stack = <<n>> \o @]
          [] walk.visited < MaxEntries /\ n \in Files \ Matching -> seen
          [] OTHER -> IF Cardinality(walk.found) = MaxFiles THEN cut
                      ELSE [seen EXCEPT !.found = @ \cup {n}]

Visit == Looking /\ Kind = "regex" /\ \E n \in walk.todo : Walks(Entry(n))

\* iglob() comes to one name after the other: a file that is there then is kept,
\* the one beyond the cap ends the search.
ExpandGlob ==
    /\ Looking /\ Kind = "glob"
    /\ \E n \in walk.todo :
          LET rest == [walk EXCEPT !.todo = @ \ {n}]
          IN  IF n \notin Reached THEN Walks(rest)
              ELSE IF Cardinality(walk.found) = MaxFiles
              THEN Walks([walk EXCEPT !.todo = {}, !.truncated = TRUE])
              ELSE Walks([rest EXCEPT !.found = @ \cup {n}])

\* The list is sorted, or its files are looked at once more for their sizes; one
\* that is gone by then stays in it, without a size.
WalkEnds ==
    /\ Looking /\ Kind \in {"regex", "glob"}
    /\ walk.todo = {} /\ (walk.stack = <<>> \/ walk.truncated)
    /\ Walks([walk EXCEPT !.busy = FALSE])

\* At most MaxFiles of the candidates, in the order they came.
Capped(candidates) ==
    \E some \in SUBSET candidates :
        /\ some = candidates \/ Cardinality(some) = MaxFiles
        /\ Cardinality(some) <= MaxFiles
        /\ Walks([NoWalk EXCEPT !.found = some, !.truncated = some # candidates])

\* list_directory(): an error when the directory cannot be opened.
Browse ==
    /\ Looking /\ Kind = "browse"
    /\ \E d \in Dirs : IF d \in Reached \cap readable THEN Capped(Children(d) \cap there)
                       ELSE Walks([NoWalk EXCEPT !.error = "text"])

\* A missing exact path is an empty answer; a unit or a container is always one
\* entry, with a warning when it cannot be read.
OneFile ==
    /\ Looking /\ Kind \in {"exact_path", "journal", "docker"}
    /\ \E n \in Matching :
          Walks([NoWalk EXCEPT !.found = IF Kind # "exact_path" \/ n \in Reached
                                         THEN {n} ELSE {}])

\* A command that may be missing or exit with an error.
Runs(kind, errors) ==
    /\ Looking /\ Kind = kind
    /\ \E error \in errors : Walks([NoWalk EXCEPT !.error = error])

ListUnits == Runs("list_units", {"none", "text"})
ListContainers == Runs("list_containers", {"none", "text"})

\* Acknowledged before the script is started, which nobody hears of.
SelfUpdate == Runs("self_update", IF script THEN {"none"} ELSE {"text"})

\* The result is sent.  Over a broken connection the send raises, and the
\* dispatcher goes with its connection.
Answer ==
    /\ job # NoRequest /\ ~walk.busy
    /\ outbox' = IF linked
                 THEN Append(outbox, [to |-> job,
                                      reply |-> Reply(walk.error, walk.found, walk.truncated)])
                 ELSE outbox
    /\ owed' = [owed EXCEPT ![job] =
                  [files |-> IF Kind \in {"regex", "glob"} /\ walk.error = "none"
                             THEN steady \cap Matching ELSE {},
                   failed |-> walk.error # "none"]]
    /\ job' = NoRequest /\ walk' = NoWalk /\ steady' = {}
    /\ UNCHANGED <<fileVars, linked, call, inbox>>

-----------------------------------------------------------------------------

Provider ==
    \/ Refuse \/ ListDir \/ Visit \/ WalkEnds \/ ExpandGlob \/ Browse \/ OneFile
    \/ ListUnits \/ ListContainers \/ SelfUpdate \/ Answer

RequestNext ==
    \/ \E r \in Requests : \/ \E kind \in Kinds : Ask(r, kind) \/ AskOffline(r, kind)
                           \/ Expires(r)
    \/ Take \/ Provider \/ Deliver \/ Unlink \/ Relink \/ FilesChange

RequestSpec == RequestInit /\ [][RequestNext]_requestVars

-----------------------------------------------------------------------------

RequestTypeOK ==
    /\ there \subseteq Nodes /\ readable \subseteq Dirs
    /\ \A r \in Requests : call[r].state \in {"idle", "waiting", "done"}
    /\ inbox \in Seq(Requests) /\ job \in Requests \cup {NoRequest}
    /\ walk.error \in Errors /\ walk.visited \in 0..MaxEntries

\* "Resolving a pattern against a huge or misconfigured tree should never hang
\* the agent" (base.py 14-15), nor miss what was there all along: what a
\* pattern is said to name was listed and matches, is no more than the cap, and
\* unless it is marked as truncated it has every matching file that could be
\* reached from the beginning of the walk to its end.
FindsAllThatStayed ==
    \A r \in Requests :
        LET reply == call[r].reply
        IN  call[r].state = "done" /\ reply.error = "none" /\ call[r].kind \in {"regex", "glob"} =>
              /\ reply.files \subseteq Matching /\ Cardinality(reply.files) <= MaxFiles
              /\ ~reply.truncated => owed[r].files \subseteq reply.files

-----------------------------------------------------------------------------
(* What a comment says and the code does not keep.                         *)

\* What the provider raises is "reported to the server, not a crash"
\* (dispatch.py 81): no route returns a failed request as a success.
FailureIsReported ==
    \A r \in Requests :
        call[r].state = "done" /\ call[r].reply.error = "none" => ~owed[r].failed
=============================================================================
