----------------------------- MODULE LineBroker -----------------------------
(***************************************************************************)
(* tailing/broker.py and the buffer of tailing/session.py: one TailSession  *)
(* fans its events out to bounded queues, one per browser, and keeps the    *)
(* last lines in a ring that serves as backfill.                            *)
(*                                                                          *)
(* Events are numbered 1, 2, ... in the order receive_line, receive_error   *)
(* and receive_closed are called.  The lines of the agent's first reply     *)
(* have the numbers 0, -1, ... of older lines.  How a consumer turns an     *)
(* event into a message is LiveFilter's business.                           *)
(***************************************************************************)
EXTENDS Integers, Sequences, FiniteSets

CONSTANTS
    Browsers,
    QueueMax,     \* QUEUE_MAX_SIZE
    BufferMax,    \* log_buffer_max_lines
    FirstLines,   \* lines in the reply to start_tail (at most BACKFILL_LINES)
    MaxEvents     \* bound of the model: events considered

ASSUME SizesAssumption ==
    /\ QueueMax \in Nat \ {0}
    /\ BufferMax \in Nat /\ FirstLines \in Nat /\ MaxEvents \in Nat

VARIABLES
    log,       \* the kind of every event published so far
    loaded,    \* start() has put the reply's lines in the buffer
    early,     \* history: how many events were published before it did
    buffer,    \* session.buffer
    on,        \* browsers with a queue in broker._subscribers
    queue,     \* their queues
    since,     \* events published before each browser subscribed
    backfill,  \* the snapshot subscribe() returned to each browser
    got,       \* what each browser's forward task took from its queue
    dropped,   \* what publish() discarded from each queue
    stopped    \* browsers whose forward task returned

vars == <<log, loaded, early, buffer, on, queue, since, backfill, got, dropped, stopped>>
loadVars == <<loaded, early>>
viewerVars == <<on, since, backfill, got, stopped>>

Kinds == {"line", "error", "closed"}
last == Len(log)

\* Wrong variant: the newest line is the one evicted.
RingOldest(s) == IF Len(s) > BufferMax THEN SubSeq(s, 1, BufferMax) ELSE s

\* deque(maxlen=BufferMax): appending to a full ring evicts on the left.
Ring(s) == IF Len(s) > BufferMax THEN SubSeq(s, Len(s) - BufferMax + 1, Len(s)) ELSE s

\* Wrong variants: the new event is lost, or there is no bound.
PutUnlessFull(q, e) == IF Len(q) >= QueueMax THEN q ELSE Append(q, e)
PutAlways(q, e) == Append(q, e)

\* put_nowait; on QueueFull one event is taken out first.
Full(q) == Len(q) >= QueueMax
Put(q, e) == IF Full(q) THEN Append(Tail(q), e) ELSE Append(q, e)
Discarded(q) == IF Full(q) THEN {Head(q)} ELSE {}

Init ==
    /\ log = <<>>
    /\ loaded = FALSE /\ early = 0 /\ buffer = <<>>
    /\ on = {}
    /\ queue = [b \in Browsers |-> <<>>]
    /\ since = [b \in Browsers |-> 0]
    /\ backfill = [b \in Browsers |-> <<>>]
    /\ got = [b \in Browsers |-> <<>>]
    /\ dropped = [b \in Browsers |-> {}]
    /\ stopped = {}

\* broker.publish(): every queue gets the event, none can refuse it.
Publish(kind) ==
    /\ last < MaxEvents
    /\ log' = Append(log, kind)
    /\ queue' = [b \in Browsers |->
                   IF b \in on THEN Put(queue[b], last + 1) ELSE queue[b]]
    /\ dropped' = [b \in Browsers |->
                     IF b \in on THEN dropped[b] \cup Discarded(queue[b]) ELSE dropped[b]]

\* receive_line(), also before start() has resumed.
ReceiveLine ==
    /\ buffer' = Ring(Append(buffer, last + 1))
    /\ Publish("line")
    /\ UNCHANGED <<loadVars, viewerVars>>

\* receive_error() and receive_closed(): an event that is not a line.
ReceiveEnd(kind) ==
    /\ Publish(kind)
    /\ UNCHANGED <<loadVars, buffer, viewerVars>>

\* start() resumes with the agent's reply, possibly after the first events:
\* the read loop can deliver the reply and the next messages in one go.
Load ==
    /\ ~loaded
    /\ loaded' = TRUE /\ early' = last
    /\ buffer' = Ring(buffer \o [i \in 1..FirstLines |-> i - FirstLines])
    /\ UNCHANGED <<log, queue, dropped, viewerVars>>

\* The tail of TailSessionManager.subscribe(): open a queue, copy the buffer.
Subscribe(b) ==
    /\ loaded /\ b \notin on
    /\ on' = on \cup {b}
    /\ queue' = [queue EXCEPT ![b] = <<>>]
    /\ since' = [since EXCEPT ![b] = last]
    /\ backfill' = [backfill EXCEPT ![b] = buffer]
    /\ got' = [got EXCEPT ![b] = <<>>]
    /\ dropped' = [dropped EXCEPT ![b] = {}]
    /\ stopped' = stopped \ {b}
    /\ UNCHANGED <<log, loadVars, buffer>>

\* Wrong variant: the whole queue is taken and only its first event shown.
TakeAll(b) ==
    /\ b \in on /\ b \notin stopped /\ queue[b] # <<>>
    /\ got' = [got EXCEPT ![b] = Append(@, Head(queue[b]))]
    /\ queue' = [queue EXCEPT ![b] = <<>>]
    /\ UNCHANGED <<log, loadVars, buffer, on, since, backfill, dropped, stopped>>

\* forward_events() takes one event; it returns after a TailClosed.
Take(b) ==
    /\ b \in on /\ b \notin stopped /\ queue[b] # <<>>
    /\ got' = [got EXCEPT ![b] = Append(@, Head(queue[b]))]
    /\ queue' = [queue EXCEPT ![b] = Tail(@)]
    /\ stopped' = IF log[Head(queue[b])] = "closed" THEN stopped \cup {b} ELSE stopped
    /\ UNCHANGED <<log, loadVars, buffer, on, since, backfill, dropped>>

\* Wrong variant: the queue outlives its subscription.
UnsubscribeKeepsQueue(b) ==
    /\ b \in on
    /\ on' = on \ {b}
    /\ UNCHANGED <<log, loadVars, buffer, queue, since, backfill, got, dropped,
                   stopped>>

\* broker.unsubscribe(): the queue is forgotten with what it holds.
Unsubscribe(b) ==
    /\ b \in on
    /\ on' = on \ {b}
    /\ queue' = [queue EXCEPT ![b] = <<>>]
    /\ UNCHANGED <<log, loadVars, buffer, since, backfill, got, dropped,
                   stopped>>

Next ==
    \/ ReceiveLine \/ Load
    \/ \E kind \in {"error", "closed"} : ReceiveEnd(kind)
    \/ \E b \in Browsers : Subscribe(b) \/ Take(b) \/ Unsubscribe(b)

Spec == Init /\ [][Next]_vars

-----------------------------------------------------------------------------

TypeOK ==
    /\ log \in Seq(Kinds)
    /\ loaded \in BOOLEAN /\ early \in Nat
    /\ buffer \in Seq(Int)
    /\ on \subseteq Browsers /\ stopped \subseteq Browsers
    /\ queue \in [Browsers -> Seq(Nat)]
    /\ \A b \in Browsers \ on : queue[b] = <<>>
    /\ since \in [Browsers -> Nat]
    /\ backfill \in [Browsers -> Seq(Int)]
    /\ got \in [Browsers -> Seq(Nat)]
    /\ dropped \in [Browsers -> SUBSET Nat]

Elements(s) == {s[i] : i \in 1..Len(s)}

\* "No line can land in neither or both of them" (manager.py 51-53): an event
\* published before the subscription never reaches the queue, and one published
\* after it was taken, is queued or was dropped, and is not in the backfill.
NeitherNorBoth ==
    \A b \in on :
        /\ \A e \in Elements(backfill[b]) : e <= since[b]
        /\ Elements(got[b]) \cup Elements(queue[b]) \cup dropped[b] = since[b] + 1 .. last
        /\ Elements(got[b]) \cap Elements(queue[b]) = {}
        /\ dropped[b] \cap (Elements(got[b]) \cup Elements(queue[b])) = {}

\* A queue is a window on the newest events, in order: whatever is dropped is
\* older than all that is kept (broker.py 45-57).
QueueIsWindow ==
    \A b \in on :
        /\ Len(queue[b]) <= QueueMax
        /\ \A i \in 1..Len(queue[b]) : queue[b][i] = last - Len(queue[b]) + i

\* An event is dropped only for a browser that is QueueMax events behind, so a
\* TailError or TailClosed followed by less than that reaches every browser.
DropsOnlyOldest == \A b \in on : \A e \in dropped[b] : e + QueueMax <= last

\* A browser is shown events in the order they were published.
InOrder == \A b \in on : \A i, j \in 1..Len(got[b]) : i < j => got[b][i] < got[b][j]

\* What a viewer is shown implements the queue-free feed.
Feed == INSTANCE LineFeed WITH
            Viewers <- Browsers, Window <- QueueMax,
            next <- [b \in Browsers |-> last - Len(queue[b]) + 1]
FeedSpec == Feed!Spec

\* The lines given to the buffer so far, the reply's included, and the place of
\* each among all that came in: those of the reply come where start() resumed.
Received == {e \in 1..last : log[e] = "line"} \cup
            IF loaded THEN 1 - FirstLines .. 0 ELSE {}
Arrival(x) == IF x <= 0 THEN early + FirstLines + x
              ELSE IF loaded /\ x > early THEN x + FirstLines ELSE x

\* The buffer holds the newest lines in the order they came in, the reply's
\* lines among them, and a line that is not there came before all that are and
\* was evicted from a full ring (session.py 48, 51-53): a backfill has no hole.
BufferIsNewest ==
    /\ \A i, j \in 1..Len(buffer) : i < j => Arrival(buffer[i]) < Arrival(buffer[j])
    /\ \A x \in Received \ Elements(buffer) :
          /\ Len(buffer) = BufferMax
          /\ \A i \in 1..Len(buffer) : Arrival(x) < Arrival(buffer[i])

-----------------------------------------------------------------------------
(* What the comments say and the code does not keep.                       *)

\* "A bounded ring buffer of recent lines, used both as backfill context for
\* newly-attached subscribers" (session.py 5-6): the lines are those of the end of
\* the log in the order of the log.
BufferInLogOrder == \A i, j \in 1..Len(buffer) : i < j => buffer[i] < buffer[j]
=============================================================================
