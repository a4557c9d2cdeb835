----------------------------- MODULE LiveFilter -----------------------------
(***************************************************************************)
(* The grep bar of one subscription, from end to end: what is typed in     *)
(* components/LogPanel.tsx, the filter messages of api/routes/ws_logs.py,  *)
(* the forward_events() task that runs grep on the session's buffer, and   *)
(* what the panel shows.                                                   *)
(*                                                                         *)
(* The handler that reads messages and forward_events() are two tasks: a   *)
(* filter is set or cleared while grep runs on an earlier one.  Lines are  *)
(* numbered 1, 2, ...; the result of grep is named by its expression and   *)
(* by how many lines it was given, an error by its expression.  Queue and  *)
(* buffer do not overflow here.                                            *)
(***************************************************************************)
EXTENDS Naturals, Sequences

CONSTANTS
    Filters,    \* grep expressions
    Raising,    \* those for which run_grep() raises what it does not catch
    None,       \* no filter: nothing is typed
    MaxLines,   \* bound of the model: lines received
    Backlog     \* bound of the model: the user types while fewer messages travel

ASSUME RaisingAssumption == Raising \subseteq Filters
ASSUME NoneAssumption == None \notin Filters \cup [filter : Filters, upTo : Nat]
ASSUME BoundsAssumption == MaxLines \in Nat /\ Backlog \in Nat

VARIABLES
    input,       \* filterInput
    due,         \* the debounce timer of applyFilter() runs
    view,        \* what the panel shows
    filterError, \* the expression whose error is shown
    toServer, toClient,
    lines,       \* lines in session.buffer
    queue,       \* sub.queue: line numbers, and 0 for a TailClosed
    expression,  \* sub.filter_expression
    dirty,       \* sub.filter_dirty
    task,        \* forward_events() is "waiting", in "grep", has "returned", or "raised"
    corpus       \* what the running grep was given

clientVars == <<input, due, view, filterError>>
taskVars == <<queue, dirty, task, corpus>>
vars == <<clientVars, toServer, toClient, lines, expression, taskVars>>

Closed == 0
UpTo(n) == [i \in 1..n |-> i]

\* The lines shown: grep's result, if any, and then lines as they came.
View(grep, shown) == [grep |-> grep, shown |-> shown]
Snapshot(f, n) == [filter |-> f, upTo |-> n]

Init ==
    /\ input = None /\ due = FALSE /\ filterError = None
    /\ toServer = <<>> /\ toClient = <<>>
    /\ expression = None /\ dirty = FALSE
    /\ task = "waiting" /\ corpus = None
    /\ queue = <<>>
    /\ lines \in 0..MaxLines
    /\ view = View(None, UpTo(lines))

-----------------------------------------------------------------------------
(* The panel *)

\* applyFilter(): the timer starts anew.
Type(f) ==
    /\ f # input /\ Len(toServer) + Len(toClient) < Backlog
    /\ input' = f /\ due' = TRUE
    /\ UNCHANGED <<view, filterError, toServer, toClient, lines, expression, taskVars>>

\* pushFilterToServer(): set_filter, or clear_filter when nothing is typed.
PushFilter(f) ==
    /\ due' = FALSE
    /\ filterError' = IF f = None THEN None ELSE filterError
    /\ toServer' = Append(toServer, f)

TimerFires ==
    /\ due
    /\ PushFilter(input)
    /\ UNCHANGED <<input, view, toClient, lines, expression, taskVars>>

\* applySavedFilter(): at once, and the timer is stopped.
Pick(f) ==
    /\ f # input /\ Len(toServer) + Len(toClient) < Backlog
    /\ input' = f
    /\ PushFilter(f)
    /\ UNCHANGED <<view, toClient, lines, expression, taskVars>>

\* onEvent().
Receive ==
    /\ toClient # <<>>
    /\ toClient' = Tail(toClient)
    /\ LET m == Head(toClient)
       IN  /\ view' = CASE m.type = "backfill" -> View(None, UpTo(m.upTo))
                        [] m.type = "line" -> [view EXCEPT !.shown = Append(@, m.line)]
                        [] m.type = "snapshot" -> View(m.grep, <<>>)
                        [] OTHER -> view
           /\ filterError' = CASE m.type = "snapshot" -> None
                               [] m.type = "filter_error" -> m.filter
                               [] OTHER -> filterError
    /\ UNCHANGED <<input, due, toServer, lines, expression, taskVars>>

-----------------------------------------------------------------------------
(* The handler *)

\* Wrong variants: a filter set while another is set is not run; a cleared one
\* leaves the panel as it is, or the flag.
SetQuietly(f) ==
    /\ expression' = f
    /\ dirty' = (dirty \/ expression = None)
    /\ UNCHANGED toClient
ClearQuietly == expression' = None /\ dirty' = FALSE /\ UNCHANGED toClient
ClearKeepsFlag ==
    /\ expression' = None /\ UNCHANGED dirty
    /\ toClient' = Append(toClient, [type |-> "backfill", upTo |-> lines])

Set(f) ==
    /\ expression' = f /\ dirty' = TRUE
    /\ UNCHANGED toClient

\* The plain view comes back from the buffer as it is now.
Clear ==
    /\ expression' = None /\ dirty' = FALSE
    /\ toClient' = Append(toClient, [type |-> "backfill", upTo |-> lines])

HandleFilter ==
    /\ toServer # <<>>
    /\ toServer' = Tail(toServer)
    /\ IF Head(toServer) = None THEN Clear ELSE Set(Head(toServer))
    /\ UNCHANGED <<clientVars, lines, queue, task, corpus>>

-----------------------------------------------------------------------------
(* forward_events() *)

\* receive_line() and receive_closed() of the session.
Line ==
    /\ lines < MaxLines /\ ~\E i \in 1..Len(queue) : queue[i] = Closed
    /\ task # "returned"
    /\ lines' = lines + 1
    /\ queue' = Append(queue, lines + 1)
    /\ UNCHANGED <<clientVars, toServer, toClient, expression, dirty, task, corpus>>

SessionCloses ==
    /\ task # "returned" /\ ~\E i \in 1..Len(queue) : queue[i] = Closed
    /\ queue' = Append(queue, Closed)
    /\ UNCHANGED <<clientVars, toServer, toClient, lines, expression, dirty, task, corpus>>

\* The end of an iteration: grep is started on a copy of the buffer.
Start(isDirty) ==
    IF expression # None /\ isDirty
    THEN /\ task' = "grep" /\ dirty' = FALSE
         /\ corpus' = Snapshot(expression, lines)
    ELSE /\ dirty' = isDirty
         /\ UNCHANGED <<task, corpus>>

\* wait_for(queue.get()) gives nothing for a while ...
Idle ==
    /\ task = "waiting" /\ queue = <<>> /\ expression # None /\ dirty
    /\ Start(dirty)
    /\ UNCHANGED <<clientVars, toServer, toClient, lines, expression, queue>>

\* ... or a line, which is sent on or makes the filter's result out of date ...
TakeLine ==
    /\ task = "waiting" /\ queue # <<>> /\ Head(queue) # Closed
    /\ queue' = Tail(queue)
    /\ IF expression = None
       THEN /\ toClient' = Append(toClient, [type |-> "line", line |-> Head(queue)])
            /\ UNCHANGED <<dirty, task, corpus>>
       ELSE /\ Start(TRUE)
            /\ UNCHANGED toClient
    /\ UNCHANGED <<clientVars, toServer, lines, expression>>

\* ... or the end.
TakeClosed ==
    /\ task = "waiting" /\ queue # <<>> /\ Head(queue) = Closed
    /\ queue' = Tail(queue)
    /\ task' = "returned"
    /\ toClient' = Append(toClient, [type |-> "closed"])
    /\ UNCHANGED <<clientVars, toServer, lines, expression, dirty, corpus>>

\* Wrong variant: the flag is reset when grep is done, not when it starts.
GrepResets(message) ==
    /\ task = "grep" /\ corpus.filter \notin Raising
    /\ task' = "waiting" /\ corpus' = None /\ dirty' = FALSE
    /\ toClient' = Append(toClient, message)
    /\ UNCHANGED <<clientVars, toServer, lines, expression, queue>>

GrepEnds(message) ==
    /\ task = "grep" /\ corpus.filter \notin Raising
    /\ task' = "waiting" /\ corpus' = None
    /\ toClient' = Append(toClient, message)
    /\ UNCHANGED <<clientVars, toServer, lines, expression, queue, dirty>>

Error(f) == [type |-> "filter_error", filter |-> f]

\* The exception ends the loop: it is logged and the browser is told nothing.
GrepRaises ==
    /\ task = "grep" /\ corpus.filter \in Raising
    /\ task' = "raised" /\ corpus' = None
    /\ UNCHANGED <<clientVars, toServer, toClient, lines, expression, queue, dirty>>

\* The result is sent whatever has become of the filter, or the expression was
\* not one or grep timed out.
Grep ==
    \/ GrepEnds([type |-> "snapshot", grep |-> corpus])
    \/ GrepEnds(Error(corpus.filter))
    \/ GrepRaises

Forward == Idle \/ TakeLine \/ TakeClosed \/ Grep

-----------------------------------------------------------------------------

User == \E f \in Filters \cup {None} : Type(f) \/ Pick(f)

Next == User \/ TimerFires \/ Receive \/ HandleFilter \/ Line \/ SessionCloses \/ Forward

Spec == Init /\ [][Next]_vars

\* Timers fire, messages are read and the task runs; grep has a time limit.
Fairness == WF_vars(TimerFires) /\ WF_vars(Receive) /\ WF_vars(HandleFilter) /\ WF_vars(Forward)

FairSpec == Spec /\ Fairness

-----------------------------------------------------------------------------

Messages ==
    [type : {"backfill"}, upTo : Nat] \cup [type : {"line"}, line : Nat]
        \cup [type : {"snapshot"}, grep : [filter : Filters, upTo : Nat]]
        \cup [type : {"filter_error"}, filter : Filters] \cup [type : {"closed"}]

TypeOK ==
    /\ input \in Filters \cup {None} /\ expression \in Filters \cup {None}
    /\ filterError \in Filters \cup {None}
    /\ due \in BOOLEAN /\ dirty \in BOOLEAN
    /\ view \in [grep : [filter : Filters, upTo : Nat] \cup {None}, shown : Seq(Nat)]
    /\ queue \in Seq(Nat)
    /\ toServer \in Seq(Filters \cup {None}) /\ toClient \in Seq(Messages)
    /\ lines \in Nat
    /\ task \in {"waiting", "grep", "returned", "raised"}
    /\ corpus \in [filter : Filters, upTo : Nat] \cup {None}
    /\ corpus = None <=> task # "grep"
    /\ dirty => expression # None

\* Nothing is typed, on its way or being worked on.
Quiet == ~due /\ toServer = <<>> /\ toClient = <<>> /\ queue = <<>> /\ task = "waiting" /\ ~dirty

\* "The view filters live" (README 34-37): once quiet, a panel with a filter
\* shows grep's result for what is typed now and every line received, or the
\* error of that very expression; no set_filter and no line is lost to a grep
\* that was running (ws_logs.py 136-149, 250-251).
FilterCatchesUp ==
    Quiet /\ input # None => filterError = input \/ view = View(Snapshot(input, lines), <<>>)

\* "So the client doesn't have a gap" (ws_logs.py 260-261): a plain view always
\* shows the lines up to some line, and up to the last once quiet.
PlainHasNoGap ==
    view.grep = None =>
        LET shown == {view.shown[i] : i \in 1..Len(view.shown)}
        IN  /\ \A n \in shown : 1..n \subseteq shown
            /\ Quiet /\ input = None => shown = 1..lines

\* "Restore the plain live view from the current buffer" (ws_logs.py 260): once
\* quiet, a panel whose filter was cleared shows the plain view.
PlainIsRestored == Quiet /\ input = None => view.grep = None

Answers(f) == filterError = f \/ (view.grep # None /\ view.grep.filter = f)

\* What is typed is answered, with its result or its own error (ws_logs.py
\* 148-166), unless it changes, the session ends or an expression has ended the task.
FilterAnswered ==
    \A f \in Filters : input = f ~> Answers(f) \/ input # f \/ task \in {"returned", "raised"}

\* An expression that is none is "reported as error, not crash" (test_grep.py 102):
\* what is typed is answered, unless it changes or the session ends.
FilterReported ==
    \A f \in Filters : input = f ~> Answers(f) \/ input # f \/ task = "returned"
=============================================================================
