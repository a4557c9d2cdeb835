-------------------------- MODULE LiveFilterProofs --------------------------
(***************************************************************************)
(* A plain view never has a gap and a filtered one catches up, for any     *)
(* filters and any number of lines.                                        *)
(*                                                                         *)
(* The argument for the plain view follows a line to the screen: a line    *)
(* the task has taken while no filter was set is in the view, or in a      *)
(* message on its way that no later one undoes before the view is complete.*)
(* For the filtered view it follows the answer: grep runs on all there is, *)
(* or its result is the last message on its way, or it is there.           *)
(***************************************************************************)
EXTENDS LiveFilter, TLAPS

Results == [filter : Filters, upTo : Nat]
Views == [grep : Results \cup {None}, shown : Seq(Nat)]
Resets == {"backfill", "snapshot"}

\* No message of c from place i to place j replaces the view.
Keeps(c, i, j) == \A q \in i..j : c[q].type \notin Resets

InView(v, n) == v.grep # None \/ \E i \in 1..Len(v.shown) : v.shown[i] = n

\* After message m the view shows line n, or is not a plain one.
Carries(m, n) ==
    \/ m.type = "line" /\ m.line = n
    \/ m.type = "backfill" /\ n <= m.upTo
    \/ m.type = "snapshot"

\* Line n is in the view v, unless v is not plain, once the messages of c before
\* place i have been received.
Reaches(v, c, n, i) ==
    \/ InView(v, n) /\ Keeps(c, 1, i - 1)
    \/ \E p \in 1..(i - 1) : Carries(c[p], n) /\ Keeps(c, p + 1, i - 1)

\* What is queued is in order, and an end comes last.
QueueInv ==
    /\ \A i \in 1..Len(queue) : queue[i] <= lines
    /\ \A i, j \in 1..Len(queue) :
          i < j => queue[i] # Closed /\ (queue[j] # Closed => queue[i] < queue[j])

\* A line arrives after all earlier ones.
MessagesInv ==
    \A i \in 1..Len(toClient) :
        /\ toClient[i].type = "line" =>
              /\ toClient[i].line \in 1..lines
              /\ \A n \in 1..(toClient[i].line - 1) : Reaches(view, toClient, n, i)
        /\ toClient[i].type = "backfill" => toClient[i].upTo <= lines

ViewInv ==
    view.grep = None =>
        \A i \in 1..Len(view.shown) :
            /\ view.shown[i] \in 1..lines
            /\ \A n \in 1..(view.shown[i] - 1) : InView(view, n)

\* Without a filter, what is not queued any more reaches the view.
PlainInv ==
    expression = None =>
        \A n \in 1..lines :
            \/ \E i \in 1..Len(queue) : queue[i] = n
            \/ Reaches(view, toClient, n, Len(toClient) + 1)

\* Once the timer is off, what is typed is the last thing sent, or handled.
InputInv ==
    ~due => IF toServer = <<>> THEN expression = input
                               ELSE toServer[Len(toServer)] = input

IInv == TypeOK /\ QueueInv /\ MessagesInv /\ ViewInv /\ PlainInv /\ InputInv

-----------------------------------------------------------------------------
(* Types *)

LEMMA TailFacts ==
    ASSUME NEW S, NEW s \in Seq(S), s # <<>>
    PROVE  /\ Head(s) \in S /\ Head(s) = s[1] /\ Tail(s) \in Seq(S)
           /\ Len(s) \in Nat \ {0} /\ Len(Tail(s)) = Len(s) - 1
           /\ \A i \in 1..Len(Tail(s)) : Tail(s)[i] = s[i + 1]
  OBVIOUS

LEMMA AppendFacts ==
    ASSUME NEW S, NEW s \in Seq(S), NEW e \in S
    PROVE  /\ Append(s, e) \in Seq(S) /\ Append(s, e) # <<>>
           /\ Len(s) \in Nat /\ Len(Append(s, e)) = Len(s) + 1
           /\ \A i \in 1..Len(s) : Append(s, e)[i] = s[i]
           /\ Append(s, e)[Len(s) + 1] = e
  OBVIOUS

LEMMA UpToFacts ==
    ASSUME NEW n \in Nat
    PROVE  UpTo(n) \in Seq(Nat) /\ Len(UpTo(n)) = n /\ \A i \in 1..n : UpTo(n)[i] = i
  BY DEF UpTo

\* What the handler and the task send.
LEMMA MessageTypes ==
    /\ \A n \in Nat : [type |-> "backfill", upTo |-> n] \in Messages
    /\ \A n \in Nat : [type |-> "line", line |-> n] \in Messages
    /\ \A r \in Results : [type |-> "snapshot", grep |-> r] \in Messages
    /\ \A f \in Filters : Error(f) \in Messages
    /\ [type |-> "closed"] \in Messages
  BY DEF Messages, Results, Error

LEMMA MessageFields ==
    ASSUME NEW m \in Messages
    PROVE  /\ m.type \in {"backfill", "line", "snapshot", "filter_error", "closed"}
           /\ m.type = "backfill" => m.upTo \in Nat
           /\ m.type = "line" => m.line \in Nat
           /\ m.type = "snapshot" => m.grep \in Results
           /\ m.type = "filter_error" => m.filter \in Filters
  BY DEF Messages, Results

LEMMA TypeInit == Init => TypeOK
<1> SUFFICES ASSUME Init PROVE TypeOK
  OBVIOUS
<1>1. lines \in Nat
  BY BoundsAssumption DEF Init
<1>2. view \in Views
  BY <1>1, UpToFacts DEF Init, View, Views
<1>3. queue \in Seq(Nat) /\ toServer \in Seq(Filters \cup {None}) /\ toClient \in Seq(Messages)
  BY DEF Init
<1> QED
  BY <1>1, <1>2, <1>3 DEF Init, TypeOK, Views, Results

\* The view after a message is received.
LEMMA ViewType ==
    ASSUME TypeOK, Receive
    PROVE  view' \in Views
<1> DEFINE m == Head(toClient)
<1>1. m \in Messages
  BY TailFacts DEF Receive, TypeOK
<1>2. view \in Views
  BY DEF TypeOK, Results, Views
<1>3. CASE m.type = "backfill"
  <2>1. view' = View(None, UpTo(m.upTo)) /\ m.upTo \in Nat
    BY <1>1, <1>3, MessageFields DEF Receive
  <2> QED
    BY <2>1, UpToFacts DEF View, Views
<1>4. CASE m.type = "line"
  <2>1. view' = [view EXCEPT !.shown = Append(@, m.line)] /\ m.line \in Nat
    BY <1>1, <1>4, MessageFields DEF Receive
  <2> QED
    BY <1>2, <2>1, AppendFacts DEF Views
<1>5. CASE m.type = "snapshot"
  <2>1. view' = View(m.grep, <<>>) /\ m.grep \in Results
    BY <1>1, <1>5, MessageFields DEF Receive
  <2> QED
    BY <2>1 DEF View, Views
<1>6. CASE m.type \notin {"backfill", "line", "snapshot"}
  BY <1>2, <1>6 DEF Receive
<1> QED
  BY <1>3, <1>4, <1>5, <1>6

LEMMA TypeStep == TypeOK /\ [Next]_vars => TypeOK'
<1> SUFFICES ASSUME TypeOK, [Next]_vars PROVE TypeOK'
  OBVIOUS
<1> USE DEF clientVars, taskVars
<1>1. CASE User \/ TimerFires
  <2>1. UNCHANGED <<view, toClient, lines, expression, queue, dirty, task, corpus>>
    BY <1>1 DEF User, Type, Pick, PushFilter, TimerFires
  <2>2. input' \in Filters \cup {None} /\ due' \in BOOLEAN
    BY <1>1 DEF TypeOK, User, Type, Pick, PushFilter, TimerFires
  <2>3. filterError' \in Filters \cup {None}
    BY <1>1 DEF TypeOK, User, Type, Pick, PushFilter, TimerFires
  <2>4. toServer' \in Seq(Filters \cup {None})
    <3> USE AppendFacts DEF TypeOK
    <3>1. ASSUME NEW f \in Filters \cup {None}, PushFilter(f)
          PROVE  toServer' \in Seq(Filters \cup {None})
      BY <3>1 DEF PushFilter
    <3>2. CASE TimerFires
      BY <3>1, <3>2 DEF TimerFires
    <3>3. ASSUME NEW f \in Filters \cup {None}, Type(f) \/ Pick(f)
          PROVE  toServer' \in Seq(Filters \cup {None})
      BY <3>1, <3>3 DEF Type, Pick
    <3> QED
      BY <1>1, <3>2, <3>3 DEF User
  <2> QED
    BY <2>1, <2>2, <2>3, <2>4 DEF TypeOK
<1>2. CASE Receive
  <2>1. view' \in Views
    BY <1>2, ViewType
  <2>2. filterError' \in Filters \cup {None}
    <3> DEFINE m == Head(toClient)
    <3>1. m \in Messages
      BY <1>2, TailFacts DEF Receive, TypeOK
    <3>2. m.type = "filter_error" => m.filter \in Filters
      BY <3>1, MessageFields
    <3>3. filterError' = CASE m.type = "snapshot" -> None
                           [] m.type = "filter_error" -> m.filter
                           [] OTHER -> filterError
      BY <1>2, Zenon DEF Receive
    <3>4. filterError \in Filters \cup {None}
      BY DEF TypeOK
    <3> HIDE DEF m
    <3> QED
      BY <3>2, <3>3, <3>4
  <2>3. toClient' \in Seq(Messages)
    BY <1>2, TailFacts DEF TypeOK, Receive
  <2>4. UNCHANGED <<input, due, toServer, lines, expression, taskVars>>
    BY <1>2 DEF Receive
  <2> QED
    BY <2>1, <2>2, <2>3, <2>4 DEF TypeOK, Views, Results
<1>3. CASE HandleFilter
  <2>1. UNCHANGED <<clientVars, lines, queue, task, corpus>>
    BY <1>3 DEF HandleFilter
  <2>2. Head(toServer) \in Filters \cup {None} /\ toServer' \in Seq(Filters \cup {None})
    BY <1>3, TailFacts DEF TypeOK, HandleFilter
  <2>3. CASE Head(toServer) = None
    <3>1. toClient' \in Seq(Messages)
      <4>1. toClient' = Append(toClient, [type |-> "backfill", upTo |-> lines])
        BY <1>3, <2>3 DEF HandleFilter, Clear
      <4>2. [type |-> "backfill", upTo |-> lines] \in Messages
        BY MessageTypes DEF TypeOK
      <4> QED
        BY <4>1, <4>2, AppendFacts DEF TypeOK
    <3>2. expression' = None /\ dirty' = FALSE
      BY <1>3, <2>3 DEF HandleFilter, Clear
    <3> QED
      BY <2>1, <2>2, <3>1, <3>2 DEF TypeOK
  <2>4. CASE Head(toServer) # None
    BY <1>3, <2>1, <2>2, <2>4 DEF TypeOK, HandleFilter, Set
  <2> QED
    BY <2>3, <2>4
<1>4. CASE Line \/ SessionCloses
  <2>1. UNCHANGED <<clientVars, toServer, toClient, expression, dirty, task, corpus>>
    BY <1>4 DEF Line, SessionCloses
  <2>2. lines' \in Nat /\ queue' \in Seq(Nat)
    <3> USE AppendFacts DEF TypeOK
    <3>1. CASE Line
      BY <3>1 DEF Line
    <3>2. CASE SessionCloses
      BY <3>2 DEF SessionCloses, Closed
    <3> QED
      BY <1>4, <3>1, <3>2
  <2> QED
    BY <2>1, <2>2 DEF TypeOK
<1>5. CASE Idle
  <2>1. Start(TRUE)
    BY <1>5 DEF Idle, TypeOK
  <2>2. UNCHANGED <<clientVars, toServer, toClient, lines, expression, queue>>
    BY <1>5 DEF Idle
  <2>3. expression \in Filters /\ lines \in Nat
    BY <1>5 DEF Idle, TypeOK
  <2>4. task' = "grep" /\ dirty' = FALSE /\ corpus' = Snapshot(expression, lines)
    BY <1>5, <2>1 DEF Idle, Start
  <2>5. corpus' \in Results /\ corpus' # None
    BY <2>3, <2>4, NoneAssumption DEF Snapshot, Results
  <2> QED
    BY <2>2, <2>4, <2>5 DEF TypeOK, Results
<1>6. CASE TakeLine
  <2>1. Head(queue) \in Nat /\ queue' \in Seq(Nat)
    BY <1>6, TailFacts DEF TypeOK, TakeLine
  <2>2. UNCHANGED <<clientVars, toServer, lines, expression>>
    BY <1>6 DEF TakeLine
  <2>3. CASE expression = None
    <3>1. toClient' \in Seq(Messages)
      <4>1. toClient' = Append(toClient, [type |-> "line", line |-> Head(queue)])
        BY <1>6, <2>3 DEF TakeLine
      <4>2. [type |-> "line", line |-> Head(queue)] \in Messages
        BY <2>1, MessageTypes
      <4> QED
        BY <4>1, <4>2, AppendFacts DEF TypeOK
    <3> QED
      BY <1>6, <2>1, <2>2, <2>3, <3>1 DEF TypeOK, TakeLine
  <2>4. CASE expression # None
    <3>1. Start(TRUE) /\ toClient' = toClient
      BY <1>6, <2>4 DEF TakeLine
    <3>2. task' = "grep" /\ dirty' = FALSE /\ corpus' = Snapshot(expression, lines)
      BY <2>4, <3>1 DEF Start
    <3>3. corpus' \in Results /\ corpus' # None
      BY <2>4, <3>2, NoneAssumption DEF TypeOK, Snapshot, Results
    <3> QED
      BY <2>1, <2>2, <3>1, <3>2, <3>3 DEF TypeOK, Results
  <2> QED
    BY <2>3, <2>4
<1>7. CASE TakeClosed
  <2>1. queue' \in Seq(Nat)
    BY <1>7, TailFacts DEF TypeOK, TakeClosed
  <2>2. toClient' \in Seq(Messages)
    BY <1>7, MessageTypes, AppendFacts DEF TypeOK, TakeClosed
  <2> QED
    BY <1>7, <2>1, <2>2 DEF TypeOK, TakeClosed
<1>8. CASE Grep
  <2>1. toClient' \in Seq(Messages)
    <3>1. corpus \in Results /\ corpus.filter \in Filters
      BY <1>8 DEF TypeOK, Grep, GrepEnds, GrepRaises, Results
    <3>2. [type |-> "snapshot", grep |-> corpus] \in Messages /\ Error(corpus.filter) \in Messages
      BY <3>1, MessageTypes
    <3>3. \/ toClient' = toClient
          \/ toClient' = Append(toClient, [type |-> "snapshot", grep |-> corpus])
          \/ toClient' = Append(toClient, Error(corpus.filter))
      BY <1>8 DEF Grep, GrepEnds, GrepRaises
    <3>4. toClient \in Seq(Messages)
      BY DEF TypeOK
    <3> QED
      BY <3>2, <3>3, <3>4, AppendFacts
  <2>2. /\ task' \in {"waiting", "raised"} /\ corpus' = None
        /\ UNCHANGED <<clientVars, toServer, lines, expression, queue, dirty>>
    BY <1>8 DEF Grep, GrepEnds, GrepRaises
  <2> QED
    BY <2>1, <2>2 DEF TypeOK
<1>9. CASE UNCHANGED vars
  BY <1>9 DEF TypeOK, vars
<1> QED
  BY <1>1, <1>2, <1>3, <1>4, <1>5, <1>6, <1>7, <1>8, <1>9 DEF Next, Forward

\* Type correctness, for any filters and any number of lines.
THEOREM TypeCorrect == Spec => []TypeOK
  BY TypeInit, TypeStep, PTL DEF Spec

-----------------------------------------------------------------------------
(* Reaching the view *)

\* A message that is sent undoes nothing for those before it.
LEMMA ReachAppend ==
    ASSUME NEW c \in Seq(Messages), NEW m \in Messages, NEW v, NEW n
    PROVE  /\ \A i \in 1..(Len(c) + 1) :
                 Reaches(v, c, n, i) <=> Reaches(v, Append(c, m), n, i)
           /\ Reaches(v, c, n, Len(c) + 1) /\ m.type \notin Resets
                 => Reaches(v, Append(c, m), n, Len(c) + 2)
           /\ Carries(m, n) => Reaches(v, Append(c, m), n, Len(c) + 2)
<1> DEFINE d == Append(c, m)
<1>1. Len(c) \in Nat /\ \A q \in 1..Len(c) : d[q] = c[q]
  BY AppendFacts
<1>2. d[Len(c) + 1] = m
  BY AppendFacts
<1> HIDE DEF d
<1>3. \A i \in 1..(Len(c) + 1), p \in 1..(Len(c) + 1) :
         Keeps(c, p, i - 1) <=> Keeps(d, p, i - 1)
  BY <1>1 DEF Keeps
<1>4. \A i \in 1..(Len(c) + 1) : Reaches(v, c, n, i) <=> Reaches(v, d, n, i)
  <2> SUFFICES ASSUME NEW i \in 1..(Len(c) + 1)
               PROVE  Reaches(v, c, n, i) <=> Reaches(v, d, n, i)
    OBVIOUS
  <2>1. Keeps(c, 1, i - 1) <=> Keeps(d, 1, i - 1)
    BY <1>1, <1>3
  <2>2. \A p \in 1..(i - 1) : c[p] = d[p] /\ (Keeps(c, p + 1, i - 1) <=> Keeps(d, p + 1, i - 1))
    BY <1>1, <1>3
  <2> QED
    BY <2>1, <2>2 DEF Reaches
<1>5. ASSUME m.type \notin Resets
      PROVE  \A p \in 1..(Len(c) + 1) : Keeps(c, p, Len(c)) => Keeps(d, p, Len(c) + 1)
  <2> SUFFICES ASSUME NEW p \in 1..(Len(c) + 1), Keeps(c, p, Len(c)),
                      NEW q \in p..(Len(c) + 1)
               PROVE  d[q].type \notin Resets
    BY DEF Keeps
  <2>1. CASE q = Len(c) + 1
    BY <1>2, <1>5, <2>1
  <2>2. CASE q # Len(c) + 1
    BY <1>1, <2>2 DEF Keeps
  <2> QED
    BY <2>1, <2>2
<1>6. ASSUME Reaches(v, c, n, Len(c) + 1), m.type \notin Resets
      PROVE  Reaches(v, d, n, Len(c) + 2)
  <2>1. CASE InView(v, n) /\ Keeps(c, 1, Len(c))
    <3>1. Keeps(d, 1, Len(c) + 1)
      BY <1>1, <1>5, <1>6, <2>1
    <3>2. (Len(c) + 2) - 1 = Len(c) + 1
      BY <1>1
    <3> QED
      BY <2>1, <3>1, <3>2 DEF Reaches
  <2>2. ASSUME NEW p \in 1..Len(c), Carries(c[p], n), Keeps(c, p + 1, Len(c))
        PROVE  Reaches(v, d, n, Len(c) + 2)
    <3>1. Keeps(d, p + 1, Len(c) + 1)
      BY <1>1, <1>5, <1>6, <2>2
    <3>2. d[p] = c[p] /\ p \in 1..((Len(c) + 2) - 1) /\ (Len(c) + 2) - 1 = Len(c) + 1
      BY <1>1
    <3> QED
      BY <2>2, <3>1, <3>2 DEF Reaches
  <2>3. (Len(c) + 1) - 1 = Len(c)
    BY <1>1
  <2> QED
    BY <1>6, <2>1, <2>2, <2>3 DEF Reaches
<1>7. ASSUME Carries(m, n) PROVE Reaches(v, d, n, Len(c) + 2)
  <2>1. Keeps(d, (Len(c) + 1) + 1, (Len(c) + 2) - 1)
    BY <1>1 DEF Keeps
  <2>2. Len(c) + 1 \in 1..((Len(c) + 2) - 1)
    BY <1>1
  <2> QED
    BY <1>2, <1>7, <2>1, <2>2 DEF Reaches
<1> QED
  BY <1>4, <1>6, <1>7 DEF d

\* Receiving the first message moves what it carries into the view.
LEMMA ReachTail ==
    ASSUME NEW c \in Seq(Messages), c # <<>>, NEW v, NEW w, NEW n,
           InView(v, n) /\ Head(c).type \notin Resets => InView(w, n),
           Carries(Head(c), n) => InView(w, n)
    PROVE  \A i \in 1..Len(c) : Reaches(v, c, n, i + 1) => Reaches(w, Tail(c), n, i)
<1> DEFINE d == Tail(c)
<1>1. Len(c) \in Nat \ {0} /\ Len(d) = Len(c) - 1 /\ Head(c) = c[1]
  BY TailFacts
<1>2. \A q \in 1..(Len(c) - 1) : d[q] = c[q + 1]
  BY TailFacts, <1>1
<1> HIDE DEF d
<1> SUFFICES ASSUME NEW i \in 1..Len(c), Reaches(v, c, n, i + 1)
             PROVE  Reaches(w, d, n, i)
  BY DEF d
<1>3. \A p \in 1..i : Keeps(c, p + 1, i) => Keeps(d, p, i - 1)
  <2> SUFFICES ASSUME NEW p \in 1..i, Keeps(c, p + 1, i), NEW q \in p..(i - 1)
               PROVE  d[q].type \notin Resets
    BY DEF Keeps
  <2>1. d[q] = c[q + 1] /\ q + 1 \in (p + 1)..i
    BY <1>1, <1>2
  <2> QED
    BY <2>1 DEF Keeps
<1>4. (i + 1) - 1 = i /\ 1 \in 1..i
  BY <1>1
<1>5. CASE InView(v, n) /\ Keeps(c, 1, i)
  <2>1. Head(c).type \notin Resets
    BY <1>1, <1>4, <1>5 DEF Keeps
  <2>2. Keeps(c, 1 + 1, i)
    BY <1>5 DEF Keeps
  <2>3. Keeps(d, 1, i - 1)
    BY <1>3, <1>4, <2>2
  <2> QED
    BY <1>5, <2>1, <2>3 DEF Reaches
<1>6. ASSUME NEW p \in 1..i, Carries(c[p], n), Keeps(c, p + 1, i)
      PROVE  Reaches(w, d, n, i)
  <2>1. Keeps(d, p, i - 1)
    BY <1>3, <1>6
  <2>2. CASE p = 1
    BY <1>1, <1>6, <2>1, <2>2 DEF Reaches
  <2>3. CASE p # 1
    <3>1. p - 1 \in 1..(i - 1) /\ d[p - 1] = c[p] /\ (p - 1) + 1 = p
      BY <1>1, <1>2, <2>3
    <3> QED
      BY <1>6, <2>1, <3>1 DEF Reaches
  <2> QED
    BY <2>2, <2>3
<1> QED
  BY <1>4, <1>5, <1>6 DEF Reaches

-----------------------------------------------------------------------------
(* Messages and the view *)

LEMMA MessagesKept ==
    ASSUME TypeOK, MessagesInv, ViewInv, UNCHANGED <<view, toClient>>,
           lines' \in Nat, lines <= lines'
    PROVE  (MessagesInv /\ ViewInv)'
<1>1. 1..lines \subseteq 1..lines'
  BY DEF TypeOK
<1>2. \A i \in 1..Len(toClient) : toClient[i].type = "backfill" => toClient[i].upTo \in Nat
  BY MessageFields DEF TypeOK
<1>3. MessagesInv'
  <2> SUFFICES ASSUME NEW i \in 1..Len(toClient)
               PROVE  /\ toClient[i].type = "line" =>
                            /\ toClient[i].line \in 1..lines'
                            /\ \A n \in 1..(toClient[i].line - 1) :
                                  Reaches(view, toClient, n, i)
                      /\ toClient[i].type = "backfill" => toClient[i].upTo <= lines'
    BY DEF MessagesInv
  <2>1. lines \in Nat
    BY DEF TypeOK
  <2> QED
    BY <1>1, <1>2, <2>1 DEF MessagesInv
<1>4. ViewInv'
  BY <1>1 DEF ViewInv
<1> QED
  BY <1>3, <1>4

LEMMA MessagesSend ==
    ASSUME TypeOK, MessagesInv, ViewInv, NEW m \in Messages,
           toClient' = Append(toClient, m), UNCHANGED <<view, lines>>,
           m.type = "line" =>
              /\ m.line \in 1..lines
              /\ \A n \in 1..(m.line - 1) : Reaches(view, toClient, n, Len(toClient) + 1),
           m.type = "backfill" => m.upTo <= lines
    PROVE  (MessagesInv /\ ViewInv)'
<1>1. ViewInv'
  BY DEF ViewInv
<1>2. toClient \in Seq(Messages) /\ Len(toClient) \in Nat
  BY AppendFacts DEF TypeOK
<1>3. Len(toClient') = Len(toClient) + 1
  BY <1>2, AppendFacts
<1>4. \A n : \A i \in 1..(Len(toClient) + 1) :
         Reaches(view, toClient, n, i) <=> Reaches(view, toClient', n, i)
  BY <1>2, ReachAppend
<1>5. MessagesInv'
  <2> SUFFICES ASSUME NEW i \in 1..(Len(toClient) + 1)
               PROVE  /\ toClient'[i].type = "line" =>
                            /\ toClient'[i].line \in 1..lines
                            /\ \A n \in 1..(toClient'[i].line - 1) :
                                  Reaches(view, toClient', n, i)
                      /\ toClient'[i].type = "backfill" => toClient'[i].upTo <= lines
    BY <1>3 DEF MessagesInv
  <2>1. CASE i = Len(toClient) + 1
    <3>1. toClient'[i] = m
      BY <1>2, <2>1, AppendFacts
    <3> QED
      BY <1>4, <2>1, <3>1
  <2>2. CASE i # Len(toClient) + 1
    <3>1. i \in 1..Len(toClient) /\ toClient'[i] = toClient[i]
      BY <1>2, <2>2, AppendFacts
    <3> QED
      BY <1>4, <3>1 DEF MessagesInv
  <2> QED
    BY <2>1, <2>2
<1> QED
  BY <1>1, <1>5

\* What receiving the first message does to the view.
LEMMA ViewStep ==
    ASSUME TypeOK, Receive, NEW n \in Nat \ {0}
    PROVE  /\ InView(view, n) /\ Head(toClient).type \notin Resets => InView(view', n)
           /\ Carries(Head(toClient), n) => InView(view', n)
<1> DEFINE m == Head(toClient)
<1>1. m \in Messages
  BY TailFacts DEF Receive, TypeOK
<1>2. view \in Views
  BY DEF TypeOK, Results, Views
<1>3. CASE m.type = "backfill"
  <2>1. view' = View(None, UpTo(m.upTo)) /\ m.upTo \in Nat
    BY <1>1, <1>3, MessageFields DEF Receive
  <2>2. n <= m.upTo => InView(view', n)
    <3>1. view'.shown = UpTo(m.upTo)
      BY <2>1 DEF View
    <3>2. Len(view'.shown) = m.upTo /\ \A i \in 1..m.upTo : view'.shown[i] = i
      BY <2>1, <3>1, UpToFacts
    <3>3. n <= m.upTo => n \in 1..m.upTo
      BY <2>1
    <3> QED
      BY <3>2, <3>3 DEF InView
  <2> QED
    BY <1>3, <2>2 DEF Carries, Resets
<1>4. CASE m.type = "line"
  <2>1. view' = [view EXCEPT !.shown = Append(@, m.line)] /\ m.line \in Nat
    BY <1>1, <1>4, MessageFields DEF Receive
  <2>2. view'.grep = view.grep /\ view'.shown = Append(view.shown, m.line)
    BY <1>2, <2>1 DEF Views
  <2>3. view.shown \in Seq(Nat)
    BY <1>2 DEF Views
  <2>4. InView(view, n) => InView(view', n)
    BY <2>1, <2>2, <2>3, AppendFacts DEF InView
  <2>5. m.line = n => InView(view', n)
    BY <2>1, <2>2, <2>3, AppendFacts DEF InView
  <2> QED
    BY <1>4, <2>4, <2>5 DEF Carries
<1>5. CASE m.type = "snapshot"
  <2>1. view' = View(m.grep, <<>>) /\ m.grep \in Results
    BY <1>1, <1>5, MessageFields DEF Receive
  <2>2. InView(view', n)
    BY <2>1, NoneAssumption DEF View, InView, Results
  <2> QED
    BY <2>2
<1>6. CASE m.type \notin {"backfill", "line", "snapshot"}
  BY <1>6 DEF Receive, Carries
<1> QED
  BY <1>3, <1>4, <1>5, <1>6

LEMMA ViewInvStep ==
    ASSUME TypeOK, MessagesInv, ViewInv, Receive
    PROVE  ViewInv'
<1> DEFINE m == Head(toClient)
<1>1. m \in Messages /\ m = toClient[1] /\ 1 \in 1..Len(toClient)
  BY TailFacts DEF Receive, TypeOK
<1>2. view \in Views /\ lines' = lines /\ lines \in Nat
  BY DEF TypeOK, Results, Views, Receive
<1>3. CASE m.type = "backfill"
  <2>1. view' = View(None, UpTo(m.upTo)) /\ m.upTo \in Nat /\ m.upTo <= lines
    BY <1>1, <1>3, MessageFields DEF Receive, MessagesInv
  <2>2. view'.shown = UpTo(m.upTo) /\ Len(view'.shown) = m.upTo
    BY <2>1, UpToFacts DEF View
  <2>3. \A n \in 1..m.upTo : view'.shown[n] = n /\ InView(view', n)
    BY <2>1, <2>2, UpToFacts DEF InView
  <2>4. \A i \in 1..m.upTo : i \in 1..lines /\ 1..(i - 1) \subseteq 1..m.upTo
    BY <1>2, <2>1
  <2> QED
    BY <1>2, <2>2, <2>3, <2>4 DEF ViewInv
<1>4. CASE m.type = "line"
  <2>1. view' = [view EXCEPT !.shown = Append(@, m.line)] /\ m.line \in Nat
    BY <1>1, <1>4, MessageFields DEF Receive
  <2>2. view'.grep = view.grep /\ view'.shown = Append(view.shown, m.line)
    BY <1>2, <2>1 DEF Views
  <2>3. view.shown \in Seq(Nat)
    BY <1>2 DEF Views
  <2>4. m.line \in 1..lines /\ \A n \in 1..(m.line - 1) : InView(view, n)
    <3>1. \A n \in 1..(m.line - 1) : Reaches(view, toClient, n, 1)
      BY <1>1, <1>4 DEF MessagesInv
    <3>2. \A n : Reaches(view, toClient, n, 1) => InView(view, n)
      BY DEF Reaches
    <3> QED
      BY <1>1, <1>4, <3>1, <3>2 DEF MessagesInv
  <2>5. \A n \in Nat \ {0} : InView(view, n) => InView(view', n)
    BY <1>4, ViewStep DEF Resets
  <2>6. ASSUME view'.grep = None, NEW i \in 1..Len(view'.shown)
        PROVE  /\ view'.shown[i] \in 1..lines
               /\ \A n \in 1..(view'.shown[i] - 1) : InView(view', n)
    <3>1. CASE i = Len(view.shown) + 1
      <4>1. view'.shown[i] = m.line
        BY <2>1, <2>2, <2>3, <3>1, AppendFacts
      <4> QED
        BY <2>4, <2>5, <4>1
    <3>2. CASE i # Len(view.shown) + 1
      <4>1. i \in 1..Len(view.shown) /\ view'.shown[i] = view.shown[i]
        BY <2>1, <2>2, <2>3, <2>6, <3>2, AppendFacts
      <4>2. /\ view.shown[i] \in 1..lines
            /\ \A n \in 1..(view.shown[i] - 1) : InView(view, n)
        BY <2>2, <2>6, <4>1 DEF ViewInv
      <4> QED
        BY <2>5, <4>1, <4>2
    <3> QED
      BY <3>1, <3>2
  <2> QED
    BY <1>2, <2>6 DEF ViewInv
<1>5. CASE m.type = "snapshot"
  <2>1. view' = View(m.grep, <<>>) /\ m.grep \in Results
    BY <1>1, <1>5, MessageFields DEF Receive
  <2> QED
    BY <2>1, NoneAssumption DEF View, ViewInv, Results
<1>6. CASE m.type \notin {"backfill", "line", "snapshot"}
  <2>1. view' = view
    BY <1>6 DEF Receive
  <2> QED
    BY <1>2, <2>1 DEF ViewInv
<1> QED
  BY <1>3, <1>4, <1>5, <1>6

LEMMA MessagesReceive ==
    ASSUME TypeOK, MessagesInv, ViewInv, Receive
    PROVE  MessagesInv'
<1>1. toClient \in Seq(Messages) /\ toClient # <<>> /\ toClient' = Tail(toClient)
  BY DEF TypeOK, Receive
<1>2. Len(toClient') = Len(toClient) - 1 /\ Len(toClient) \in Nat \ {0} /\ lines' = lines
  BY <1>1, TailFacts DEF Receive
<1>3. \A n \in Nat \ {0} : \A i \in 1..Len(toClient) :
         Reaches(view, toClient, n, i + 1) => Reaches(view', toClient', n, i)
  BY <1>1, ReachTail, ViewStep
<1> SUFFICES ASSUME NEW i \in 1..Len(toClient')
             PROVE  /\ toClient'[i].type = "line" =>
                          /\ toClient'[i].line \in 1..lines
                          /\ \A n \in 1..(toClient'[i].line - 1) :
                                Reaches(view', toClient', n, i)
                    /\ toClient'[i].type = "backfill" => toClient'[i].upTo <= lines
  BY <1>2 DEF MessagesInv
<1>4. toClient'[i] = toClient[i + 1] /\ i \in 1..Len(toClient) /\ i + 1 \in 1..Len(toClient)
  BY <1>1, <1>2, TailFacts
<1> QED
  BY <1>3, <1>4 DEF MessagesInv

-----------------------------------------------------------------------------
(* The invariant *)

LEMMA InitIInv == Init => IInv
<1> SUFFICES ASSUME Init PROVE IInv
  OBVIOUS
<1>1. TypeOK /\ lines \in Nat
  BY TypeInit, BoundsAssumption DEF Init
<1>2. view.shown = UpTo(lines) /\ Len(view.shown) = lines
  BY <1>1, UpToFacts DEF Init, View
<1>3. \A n \in 1..lines : view.shown[n] = n /\ InView(view, n)
  BY <1>1, <1>2, UpToFacts DEF InView
<1>4. QueueInv /\ MessagesInv /\ InputInv
  BY DEF Init, QueueInv, MessagesInv, InputInv
<1>5. ViewInv
  <2>1. \A i \in 1..lines : 1..(i - 1) \subseteq 1..lines
    BY <1>1
  <2> QED
    BY <1>2, <1>3, <2>1 DEF ViewInv
<1>6. PlainInv
  <2>1. Keeps(toClient, 1, (Len(toClient) + 1) - 1)
    BY DEF Init, Keeps
  <2> QED
    BY <1>3, <2>1 DEF PlainInv, Reaches
<1> QED
  BY <1>1, <1>4, <1>5, <1>6 DEF IInv

LEMMA QueueStep == TypeOK /\ QueueInv /\ [Next]_vars => QueueInv'
<1> SUFFICES ASSUME TypeOK, QueueInv, [Next]_vars PROVE QueueInv'
  OBVIOUS
<1>1. queue \in Seq(Nat) /\ lines \in Nat
  BY DEF TypeOK
<1>2. ASSUME UNCHANGED <<queue, lines>> PROVE QueueInv'
  BY <1>2 DEF QueueInv
<1>3. ASSUME NEW e \in Nat, queue' = Append(queue, e), lines' \in Nat,
             lines <= lines', e <= lines', e = Closed \/ e > lines,
             \A i \in 1..Len(queue) : queue[i] # Closed
      PROVE  QueueInv'
  <2>1. /\ Len(queue) \in Nat /\ Len(queue') = Len(queue) + 1
        /\ \A i \in 1..Len(queue) : queue'[i] = queue[i]
        /\ queue'[Len(queue) + 1] = e
    BY <1>1, <1>3, AppendFacts
  <2>2. \A i \in 1..Len(queue) : queue[i] \in Nat /\ queue[i] <= lines
    BY <1>1 DEF QueueInv
  <2>3. \A i \in 1..Len(queue') : queue'[i] <= lines'
    <3> SUFFICES ASSUME NEW i \in 1..Len(queue') PROVE queue'[i] <= lines'
      OBVIOUS
    <3>1. CASE i = Len(queue) + 1
      BY <1>3, <2>1, <3>1
    <3>2. CASE i \in 1..Len(queue)
      BY <1>1, <1>3, <2>1, <2>2, <3>2
    <3> QED
      BY <2>1, <3>1, <3>2
  <2>4. ASSUME NEW i \in 1..Len(queue'), NEW j \in 1..Len(queue'), i < j
        PROVE  queue'[i] # Closed /\ (queue'[j] # Closed => queue'[i] < queue'[j])
    <3>1. i \in 1..Len(queue) /\ queue'[i] = queue[i] /\ queue[i] # Closed
      BY <1>3, <2>1, <2>4
    <3>2. CASE j = Len(queue) + 1
      <4>1. queue'[j] = e /\ queue[i] \in Nat /\ queue[i] <= lines
        BY <2>1, <2>2, <3>1, <3>2
      <4> QED
        BY <1>1, <1>3, <3>1, <4>1
    <3>3. CASE j \in 1..Len(queue)
      BY <2>1, <2>4, <3>1, <3>3 DEF QueueInv
    <3> QED
      BY <2>1, <3>2, <3>3
  <2> QED
    BY <2>3, <2>4 DEF QueueInv
<1>4. ASSUME queue # <<>>, queue' = Tail(queue), lines' = lines PROVE QueueInv'
  <2>1. /\ Len(queue) \in Nat \ {0} /\ Len(queue') = Len(queue) - 1
        /\ \A i \in 1..Len(queue') : queue'[i] = queue[i + 1]
    BY <1>1, <1>4, TailFacts
  <2> QED
    BY <1>4, <2>1 DEF QueueInv
<1>5. CASE Line
  <2>1. Append(queue, lines + 1) = queue' /\ lines' = lines + 1
    BY <1>5 DEF Line
  <2>2. \A i \in 1..Len(queue) : queue[i] # Closed
    BY <1>5 DEF Line
  <2> QED
    BY <1>1, <1>3, <2>1, <2>2
<1>6. CASE SessionCloses
  <2>1. Append(queue, Closed) = queue' /\ lines' = lines
    BY <1>6 DEF SessionCloses
  <2>2. \A i \in 1..Len(queue) : queue[i] # Closed
    BY <1>6 DEF SessionCloses
  <2> QED
    BY <1>1, <1>3, <2>1, <2>2 DEF Closed
<1>7. CASE TakeLine \/ TakeClosed
  BY <1>4, <1>7 DEF TakeLine, TakeClosed
<1>8. CASE User \/ TimerFires \/ Receive \/ HandleFilter \/ Idle \/ Grep \/ UNCHANGED vars
  BY <1>2, <1>8 DEF User, Type, Pick, TimerFires, Receive, HandleFilter, Idle, Grep,
                    GrepEnds, GrepRaises, vars, taskVars
<1> QED
  BY <1>5, <1>6, <1>7, <1>8 DEF Next, Forward

LEMMA InputStep == TypeOK /\ InputInv /\ [Next]_vars => InputInv'
<1> SUFFICES ASSUME TypeOK, InputInv, [Next]_vars PROVE InputInv'
  OBVIOUS
<1>1. toServer \in Seq(Filters \cup {None})
  BY DEF TypeOK
<1>2. ASSUME UNCHANGED <<due, toServer, expression, input>> PROVE InputInv'
  BY <1>2 DEF InputInv
<1>3. ASSUME NEW f \in Filters \cup {None}, Type(f) PROVE InputInv'
  BY <1>3 DEF Type, InputInv
<1>4. ASSUME NEW f \in Filters \cup {None}, PushFilter(f), input' = f PROVE InputInv'
  BY <1>1, <1>4, AppendFacts DEF PushFilter, InputInv
<1>5. ASSUME NEW f \in Filters \cup {None}, Pick(f) PROVE InputInv'
  BY <1>4, <1>5 DEF Pick
<1>6. CASE TimerFires
  <2>1. input \in Filters \cup {None}
    BY DEF TypeOK
  <2> QED
    BY <1>4, <1>6, <2>1 DEF TimerFires
<1>7. CASE HandleFilter
  <2>1. /\ Len(toServer) \in Nat \ {0} /\ Len(toServer') = Len(toServer) - 1
        /\ Head(toServer) = toServer[1]
        /\ \A i \in 1..Len(toServer') : toServer'[i] = toServer[i + 1]
        /\ toServer' \in Seq(Filters \cup {None})
    BY <1>1, <1>7, TailFacts DEF HandleFilter
  <2>2. expression' = Head(toServer) /\ toServer # <<>> /\ UNCHANGED <<due, input>>
    BY <1>7 DEF HandleFilter, Set, Clear, clientVars
  <2>3. CASE toServer' = <<>>
    <3>1. Len(toServer') = 0
      BY <2>3
    <3>2. Len(toServer) = 1
      BY <2>1, <3>1
    <3>3. toServer[Len(toServer)] = Head(toServer)
      BY <2>1, <3>2
    <3> QED
      BY <2>1, <2>2, <2>3, <3>3 DEF InputInv
  <2>4. CASE toServer' # <<>>
    <3>1. toServer'[Len(toServer')] = toServer[Len(toServer)]
      BY <2>1, <2>4
    <3> QED
      BY <2>2, <2>4, <3>1 DEF InputInv
  <2> QED
    BY <2>3, <2>4
<1>8. CASE Receive \/ Line \/ SessionCloses \/ Forward \/ UNCHANGED vars
  BY <1>2, <1>8 DEF Receive, Line, SessionCloses, Forward, Idle, TakeLine, TakeClosed,
                    Grep, GrepEnds, GrepRaises, vars, clientVars
<1> QED
  BY <1>3, <1>5, <1>6, <1>7, <1>8 DEF Next, User

LEMMA MessagesStep == IInv /\ [Next]_vars => (MessagesInv /\ ViewInv)'
<1> SUFFICES ASSUME IInv, [Next]_vars PROVE (MessagesInv /\ ViewInv)'
  OBVIOUS
<1> USE DEF IInv
<1>1. lines \in Nat /\ toClient \in Seq(Messages)
  BY DEF TypeOK
<1>2. ASSUME UNCHANGED <<view, toClient, lines>> PROVE (MessagesInv /\ ViewInv)'
  BY <1>1, <1>2, MessagesKept
<1>3. ASSUME NEW m \in Messages, toClient' = Append(toClient, m), m.type # "line",
             m.type = "backfill" => m.upTo <= lines, UNCHANGED <<view, lines>>
      PROVE  (MessagesInv /\ ViewInv)'
  BY <1>3, MessagesSend
<1>4. CASE User \/ TimerFires \/ SessionCloses \/ Idle \/ UNCHANGED vars
  BY <1>2, <1>4 DEF User, Type, Pick, TimerFires, SessionCloses, Idle, vars, clientVars
<1>5. CASE Receive
  BY <1>5, ViewInvStep, MessagesReceive
<1>6. CASE HandleFilter
  <2>1. UNCHANGED <<view, lines>>
    BY <1>6 DEF HandleFilter, clientVars
  <2>2. CASE Head(toServer) = None
    <3>1. toClient' = Append(toClient, [type |-> "backfill", upTo |-> lines])
      BY <1>6, <2>2 DEF HandleFilter, Clear
    <3>2. [type |-> "backfill", upTo |-> lines] \in Messages
      BY <1>1, MessageTypes
    <3> QED
      BY <1>1, <1>3, <2>1, <3>1, <3>2
  <2>3. CASE Head(toServer) # None
    BY <1>2, <1>6, <2>1, <2>3 DEF HandleFilter, Set
  <2> QED
    BY <2>2, <2>3
<1>7. CASE Line
  <2>1. UNCHANGED <<view, toClient>> /\ lines' = lines + 1
    BY <1>7 DEF Line, clientVars
  <2> QED
    BY <1>1, <2>1, MessagesKept
<1>8. CASE TakeLine
  <2>1. UNCHANGED <<view, lines>>
    BY <1>8 DEF TakeLine, clientVars
  <2>2. CASE expression = None
    <3> DEFINE k == Head(queue)
               m == [type |-> "line", line |-> k]
    <3>1. toClient' = Append(toClient, m)
      BY <1>8, <2>2 DEF TakeLine
    <3>2. /\ k \in Nat \ {0} /\ k = queue[1] /\ k <= lines
          /\ 1 \in 1..Len(queue)
      BY <1>8, TailFacts DEF TakeLine, TypeOK, QueueInv, Closed
    <3>3. m \in Messages
      BY <3>2, MessageTypes
    <3>4. \A n \in 1..(k - 1) : Reaches(view, toClient, n, Len(toClient) + 1)
      <4> SUFFICES ASSUME NEW n \in 1..(k - 1)
                   PROVE  Reaches(view, toClient, n, Len(toClient) + 1)
        OBVIOUS
      <4>1. n \in 1..lines /\ n < k /\ n # Closed
        BY <1>1, <3>2 DEF Closed
      <4>2. \A i \in 1..Len(queue) : queue[i] # n
        <5> SUFFICES ASSUME NEW i \in 1..Len(queue), queue[i] = n PROVE FALSE
          OBVIOUS
        <5>1. i # 1
          BY <3>2, <4>1
        <5>2. queue[1] < queue[i]
          BY <3>2, <4>1, <5>1 DEF QueueInv
        <5> QED
          BY <3>2, <4>1, <5>2
      <4> QED
        BY <2>2, <4>1, <4>2 DEF PlainInv
    <3>5. k \in 1..lines
      BY <1>1, <3>2
    <3> HIDE DEF k
    <3> QED
      BY <2>1, <3>1, <3>3, <3>4, <3>5, MessagesSend
  <2>3. CASE expression # None
    BY <1>2, <1>8, <2>1, <2>3 DEF TakeLine
  <2> QED
    BY <2>2, <2>3
<1>9. CASE TakeClosed
  <2>1. toClient' = Append(toClient, [type |-> "closed"]) /\ UNCHANGED <<view, lines>>
    BY <1>9 DEF TakeClosed, clientVars
  <2> QED
    BY <1>3, <2>1, MessageTypes
<1>10. CASE Grep
  <2>1. UNCHANGED <<view, lines>> /\ corpus \in Results /\ corpus.filter \in Filters
    BY <1>10 DEF Grep, GrepEnds, GrepRaises, clientVars, TypeOK, Results
  <2>2. CASE GrepEnds([type |-> "snapshot", grep |-> corpus])
    <3>1. toClient' = Append(toClient, [type |-> "snapshot", grep |-> corpus])
      BY <2>2 DEF GrepEnds
    <3> QED
      BY <1>3, <2>1, <3>1, MessageTypes
  <2>3. CASE GrepEnds(Error(corpus.filter))
    <3>1. toClient' = Append(toClient, Error(corpus.filter))
      BY <2>3 DEF GrepEnds
    <3>2. Error(corpus.filter).type = "filter_error"
      BY DEF Error
    <3> QED
      BY <1>3, <2>1, <3>1, <3>2, MessageTypes
  <2>4. CASE GrepRaises
    BY <1>2, <2>1, <2>4 DEF GrepRaises
  <2> QED
    BY <1>10, <2>2, <2>3, <2>4 DEF Grep
<1> QED
  BY <1>4, <1>5, <1>6, <1>7, <1>8, <1>9, <1>10 DEF Next, Forward

LEMMA PlainStep == IInv /\ [Next]_vars => PlainInv'
<1> SUFFICES ASSUME IInv, [Next]_vars PROVE PlainInv'
  OBVIOUS
<1> USE DEF IInv
<1> DEFINE end == Len(toClient) + 1
           Queued(n) == \E i \in 1..Len(queue) : queue[i] = n
<1>1. lines \in Nat /\ toClient \in Seq(Messages) /\ queue \in Seq(Nat) /\ Len(toClient) \in Nat
  BY AppendFacts DEF TypeOK
<1>2. ASSUME UNCHANGED <<view, toClient, lines, queue>>, expression' = expression \/ expression' # None
      PROVE PlainInv'
  BY <1>2 DEF PlainInv
\* a message that replaces no view, or carries every line
<1>3. ASSUME NEW m \in Messages, toClient' = Append(toClient, m), UNCHANGED <<view, lines>>,
             NEW n \in 1..lines,
             Carries(m, n) \/ (m.type \notin Resets /\ Reaches(view, toClient, n, end))
      PROVE  Reaches(view', toClient', n, Len(toClient') + 1)
  <2>1. Len(toClient') + 1 = Len(toClient) + 2
    BY <1>1, <1>3, AppendFacts
  <2>2. Reaches(view, Append(toClient, m), n, Len(toClient) + 2)
    BY <1>1, <1>3, ReachAppend
  <2> QED
    BY <1>3, <2>1, <2>2
<1>4. CASE User \/ TimerFires \/ Idle \/ UNCHANGED vars
  BY <1>2, <1>4 DEF User, Type, Pick, TimerFires, Idle, vars, clientVars, taskVars
<1>5. CASE Receive
  <2>1. UNCHANGED <<queue, lines, expression>>
    BY <1>5 DEF Receive, taskVars
  <2>2. toClient # <<>> /\ toClient' = Tail(toClient)
    BY <1>5 DEF Receive
  <2>3. Len(toClient') + 1 = Len(toClient) /\ Len(toClient) \in 1..Len(toClient)
    BY <1>1, <2>2, TailFacts
  <2>4. \A n \in Nat \ {0} : \A i \in 1..Len(toClient) :
           Reaches(view, toClient, n, i + 1) => Reaches(view', toClient', n, i)
    BY <1>1, <1>5, <2>2, ReachTail, ViewStep
  <2>5. \A n \in 1..lines : n \in Nat \ {0}
    BY <1>1
  <2> QED
    BY <2>1, <2>3, <2>4, <2>5 DEF PlainInv
<1>6. CASE HandleFilter
  <2>1. UNCHANGED <<view, lines, queue>>
    BY <1>6 DEF HandleFilter, clientVars
  <2>2. CASE Head(toServer) = None
    <3>1. toClient' = Append(toClient, [type |-> "backfill", upTo |-> lines])
      BY <1>6, <2>2 DEF HandleFilter, Clear
    <3>2. [type |-> "backfill", upTo |-> lines] \in Messages
      BY <1>1, MessageTypes
    <3>3. \A n \in 1..lines : Carries([type |-> "backfill", upTo |-> lines], n)
      BY <1>1 DEF Carries
    <3> QED
      BY <1>3, <2>1, <3>1, <3>2, <3>3 DEF PlainInv
  <2>3. CASE Head(toServer) # None
    <3>1. expression' # None
      BY <1>6, <2>3 DEF HandleFilter, Set
    <3> QED
      BY <3>1 DEF PlainInv
  <2> QED
    BY <2>2, <2>3
<1>7. CASE Line \/ SessionCloses
  <2>1. \E e \in Nat : queue' = Append(queue, e) /\ \A n \in 1..lines' : n \in 1..lines \/ n = e
    BY <1>1, <1>7 DEF Line, SessionCloses, Closed
  <2>2. PICK e \in Nat : queue' = Append(queue, e) /\ \A n \in 1..lines' : n \in 1..lines \/ n = e
    BY <2>1
  <2>3. \A n : Queued(n) \/ n = e => Queued(n)'
    <3>1. /\ Len(queue) \in Nat /\ Len(queue') = Len(queue) + 1
          /\ queue'[Len(queue) + 1] = e
          /\ \A i \in 1..Len(queue) : queue'[i] = queue[i]
      BY <1>1, <2>2, AppendFacts
    <3> QED
      BY <3>1
  <2>4. UNCHANGED <<view, toClient, expression>>
    BY <1>7 DEF Line, SessionCloses, clientVars
  <2> QED
    BY <2>2, <2>3, <2>4 DEF PlainInv
<1>8. ASSUME queue # <<>>, queue' = Tail(queue), NEW n, Queued(n), n # Head(queue)
      PROVE  Queued(n)'
  <2>1. /\ Len(queue) \in Nat \ {0} /\ Len(queue') = Len(queue) - 1
        /\ Head(queue) = queue[1]
        /\ \A i \in 1..Len(queue') : queue'[i] = queue[i + 1]
    BY <1>1, <1>8, TailFacts
  <2>2. PICK i \in 1..Len(queue) : queue[i] = n
    BY <1>8
  <2>3. i - 1 \in 1..Len(queue') /\ queue'[i - 1] = n
    BY <1>8, <2>1, <2>2
  <2> QED
    BY <2>3
<1>9. CASE TakeLine
  <2>1. UNCHANGED <<view, lines, expression>> /\ queue # <<>> /\ queue' = Tail(queue)
    BY <1>9 DEF TakeLine, clientVars
  <2>2. CASE expression = None
    <3> DEFINE m == [type |-> "line", line |-> Head(queue)]
    <3>1. toClient' = Append(toClient, m)
      BY <1>9, <2>2 DEF TakeLine
    <3>2. m \in Messages
      BY <1>1, <2>1, TailFacts, MessageTypes
    <3>3. m.type \notin Resets /\ Carries(m, Head(queue))
      BY DEF Resets, Carries
    <3> HIDE DEF m
    <3>4. \A n \in 1..lines : Queued(n)' \/ Reaches(view', toClient', n, Len(toClient') + 1)
      BY <1>3, <1>8, <2>1, <2>2, <3>1, <3>2, <3>3 DEF PlainInv
    <3> QED
      BY <2>1, <3>4 DEF PlainInv
  <2>3. CASE expression # None
    BY <2>1, <2>3 DEF PlainInv
  <2> QED
    BY <2>2, <2>3
<1>10. CASE TakeClosed
  <2> DEFINE m == [type |-> "closed"]
  <2>1. UNCHANGED <<view, lines, expression>> /\ queue # <<>> /\ queue' = Tail(queue)
    BY <1>10 DEF TakeClosed, clientVars
  <2>2. toClient' = Append(toClient, m) /\ m \in Messages /\ m.type \notin Resets
    BY <1>10, MessageTypes DEF TakeClosed, Resets
  <2>3. \A n \in 1..lines : n # Head(queue)
    BY <1>1, <1>10 DEF TakeClosed, Closed
  <2> HIDE DEF m
  <2>4. \A n \in 1..lines : expression = None =>
           Queued(n)' \/ Reaches(view', toClient', n, Len(toClient') + 1)
    BY <1>3, <1>8, <2>1, <2>2, <2>3 DEF PlainInv
  <2> QED
    BY <2>1, <2>4 DEF PlainInv
<1>11. CASE Grep
  <2>1. /\ UNCHANGED <<view, lines, expression, queue>>
        /\ corpus \in Results /\ corpus.filter \in Filters
    BY <1>11 DEF Grep, GrepEnds, GrepRaises, clientVars, TypeOK, Results
  <2>2. CASE GrepRaises
    BY <1>2, <2>1, <2>2 DEF GrepRaises
  <2> SUFFICES ASSUME ~GrepRaises PROVE PlainInv'
    BY <2>2
  <2>3. \E m \in Messages : /\ toClient' = Append(toClient, m)
                            /\ m.type \notin Resets \/ \A n : Carries(m, n)
    BY <1>11, <2>1, MessageTypes DEF Grep, GrepEnds, Carries, Resets, Error
  <2>4. PICK m \in Messages : /\ toClient' = Append(toClient, m)
                              /\ m.type \notin Resets \/ \A n : Carries(m, n)
    BY <2>3
  <2>5. \A n \in 1..lines : expression = None =>
           Queued(n) \/ Reaches(view', toClient', n, Len(toClient') + 1)
    BY <1>3, <2>1, <2>4 DEF PlainInv
  <2> QED
    BY <2>1, <2>5 DEF PlainInv
<1> QED
  BY <1>4, <1>5, <1>6, <1>7, <1>9, <1>10, <1>11 DEF Next, Forward

LEMMA Invariance == Spec => []IInv
<1>1. IInv /\ [Next]_vars => IInv'
  BY TypeStep, QueueStep, MessagesStep, PlainStep, InputStep DEF IInv
<1> QED
  BY <1>1, InitIInv, PTL DEF Spec

\* A plain view has no gap whenever it is looked at, and shows every line once
\* nothing is under way and nothing is typed: setting and clearing filters while
\* lines arrive and grep runs never costs a line (ws_logs.py 136-149, 253-264).
THEOREM PlainViewHasNoGap == Spec => []PlainHasNoGap
<1>1. ASSUME IInv, view.grep = None PROVE PlainHasNoGap
  <2> DEFINE shown == {view.shown[i] : i \in 1..Len(view.shown)}
  <2>1. \A n : n \in shown <=> InView(view, n)
    BY <1>1 DEF InView
  <2>2. \A n \in shown : n \in 1..lines /\ 1..(n - 1) \subseteq shown
    BY <1>1, <2>1 DEF IInv, ViewInv
  <2>3. \A n \in shown : 1..n \subseteq shown
    <3> SUFFICES ASSUME NEW n \in shown, NEW k \in 1..n PROVE k \in shown
      OBVIOUS
    <3>1. n \in Nat /\ lines \in Nat
      BY <1>1, <2>2 DEF IInv, TypeOK
    <3>2. k = n \/ k \in 1..(n - 1)
      BY <3>1
    <3> QED
      BY <2>2, <3>2
  <2>4. ASSUME Quiet, input = None PROVE 1..lines \subseteq shown
    <3>1. expression = None /\ toClient = <<>> /\ queue = <<>>
      BY <1>1, <2>4 DEF IInv, InputInv, Quiet
    <3>2. \A n \in 1..lines : Reaches(view, toClient, n, 1)
      BY <1>1, <3>1 DEF IInv, PlainInv
    <3>3. \A n : Reaches(view, toClient, n, 1) => InView(view, n)
      BY DEF Reaches
    <3> QED
      BY <2>1, <3>2, <3>3
  <2> HIDE DEF shown
  <2>5. /\ \A n \in shown : 1..n \subseteq shown
        /\ Quiet /\ input = None => shown = 1..lines
    BY <2>2, <2>3, <2>4
  <2> QED
    BY <2>5 DEF PlainHasNoGap, shown
<1>2. IInv => PlainHasNoGap
  BY <1>1 DEF PlainHasNoGap
<1> QED
  BY <1>2, Invariance, PTL

-----------------------------------------------------------------------------
(* The filtered view *)

\* What grep was given is all there is, but for lines the task has not taken.
UpToDate(result) ==
    \E upTo \in 0..lines :
        /\ result = Snapshot(expression, upTo)
        /\ \A n \in (upTo + 1)..lines : \E i \in 1..Len(queue) : queue[i] = n

IsAnswer(m) ==
    \/ m.type = "filter_error" /\ m.filter = expression
    \/ m.type = "snapshot" /\ UpToDate(m.grep)

\* The answer to the filter in force is being computed, is the last message on its
\* way, or is there; a filter about to be cleared has taken its error away.
Answered ==
    IF task = "grep" THEN UpToDate(corpus)
    ELSE \/ toClient # <<>> /\ IsAnswer(toClient[Len(toClient)])
         \/ toClient = <<>> /\ filterError = expression
         \/ toClient = <<>> /\ UpToDate(view.grep) /\ view.shown = <<>>

InForce ==
    /\ expression # None /\ ~dirty /\ task \notin {"returned", "raised"}
    /\ \A i \in 1..Len(toServer) : toServer[i] # None

AnswerInv == InForce => Answered

\* Lines that come are queued, and lines that are queued stay there.
LEMMA StaysUpToDate ==
    ASSUME TypeOK, NEW result, UpToDate(result), UNCHANGED expression,
           \/ UNCHANGED <<lines, queue>>
           \/ queue' = Append(queue, lines + 1) /\ lines' = lines + 1
           \/ queue' = Append(queue, Closed) /\ lines' = lines
    PROVE  UpToDate(result)'
<1>1. lines \in Nat /\ queue \in Seq(Nat) /\ Closed \in Nat
  BY DEF TypeOK, Closed
<1>2. PICK upTo \in 0..lines :
          /\ result = Snapshot(expression, upTo)
          /\ \A n \in (upTo + 1)..lines : \E i \in 1..Len(queue) : queue[i] = n
  BY DEF UpToDate
<1>3. CASE UNCHANGED <<lines, queue>>
  BY <1>3 DEF UpToDate, Snapshot
<1>4. ASSUME NEW e \in Nat, queue' = Append(queue, e),
             lines' = lines \/ (lines' = lines + 1 /\ e = lines + 1)
      PROVE  UpToDate(result)'
  <2>1. /\ Len(queue) \in Nat /\ Len(queue') = Len(queue) + 1 /\ queue'[Len(queue) + 1] = e
        /\ \A i \in 1..Len(queue) : queue'[i] = queue[i]
    BY <1>1, <1>4, AppendFacts
  <2>2. upTo \in 0..lines'
    BY <1>1, <1>4
  <2>3. \A n \in (upTo + 1)..lines' : \E i \in 1..Len(queue') : queue'[i] = n
    BY <1>1, <1>2, <1>4, <2>1
  <2> QED
    BY <1>2, <2>2, <2>3 DEF UpToDate, Snapshot
<1> QED
  BY <1>1, <1>3, <1>4

\* The answer, once it is there, stays while nothing is done to the filter.
LEMMA AnswerStays ==
    ASSUME TypeOK, Answered, UNCHANGED <<expression, task, corpus, toClient, view>>,
           filterError = expression => filterError' = expression,
           \A result : UpToDate(result) => UpToDate(result)'
    PROVE  Answered'
  BY DEF Answered, IsAnswer

LEMMA AnswerStep == TypeOK /\ AnswerInv /\ [Next]_vars => AnswerInv'
<1> SUFFICES ASSUME TypeOK, AnswerInv, [Next]_vars, InForce' PROVE Answered'
  BY DEF AnswerInv
<1>1. /\ toServer \in Seq(Filters \cup {None}) /\ toClient \in Seq(Messages)
      /\ lines \in Nat /\ queue \in Seq(Nat)
  BY DEF TypeOK
<1>2. ASSUME UNCHANGED <<expression, lines, queue>>
      PROVE  \A result : UpToDate(result) => UpToDate(result)'
  BY <1>2 DEF UpToDate, Snapshot
<1>3. ASSUME NEW f \in Filters \cup {None}, Type(f) PROVE Answered'
  BY <1>2, <1>3, AnswerStays DEF Type, taskVars, AnswerInv, InForce
<1>4. ASSUME NEW f \in Filters \cup {None}, PushFilter(f),
             UNCHANGED <<view, toClient, lines, expression, taskVars>>
      PROVE  Answered'
  <2>1. /\ Len(toServer) \in Nat /\ Len(toServer') = Len(toServer) + 1
        /\ toServer'[Len(toServer) + 1] = f
        /\ \A i \in 1..Len(toServer) : toServer'[i] = toServer[i]
    BY <1>1, <1>4, AppendFacts DEF PushFilter
  <2>2. f # None /\ \A i \in 1..Len(toServer) : toServer[i] # None
    BY <2>1 DEF InForce
  <2>3. InForce
    BY <1>4, <2>2 DEF InForce, taskVars
  <2>4. filterError' = filterError
    BY <1>4, <2>2 DEF PushFilter
  <2> QED
    BY <1>2, <1>4, <2>3, <2>4, AnswerStays DEF AnswerInv, taskVars
<1>5. ASSUME NEW f \in Filters \cup {None}, Pick(f) PROVE Answered'
  BY <1>4, <1>5 DEF Pick
<1>6. CASE TimerFires
  <2>1. input \in Filters \cup {None}
    BY DEF TypeOK
  <2> QED
    BY <1>4, <1>6, <2>1 DEF TimerFires
<1>7. CASE HandleFilter
  \* a filter that was just set is dirty, one that was cleared is none
  BY <1>7 DEF HandleFilter, Set, Clear, InForce
<1>8. CASE Receive
  <2> DEFINE m == Head(toClient)
  <2>1. /\ m = toClient[1] /\ Len(toClient) \in Nat \ {0}
        /\ Len(toClient') = Len(toClient) - 1
        /\ \A i \in 1..Len(toClient') : toClient'[i] = toClient[i + 1]
        /\ toClient' \in Seq(Messages)
    BY <1>1, <1>8, TailFacts DEF Receive
  <2>2. UNCHANGED <<toServer, lines, expression, taskVars>> /\ toClient # <<>>
    BY <1>8 DEF Receive
  <2>3. InForce
    BY <2>2 DEF InForce, taskVars
  <2>4. CASE task = "grep"
    BY <1>2, <2>2, <2>3, <2>4 DEF AnswerInv, Answered, taskVars
  <2>5. CASE task # "grep" /\ IsAnswer(toClient[Len(toClient)])
    <3>1. CASE toClient' # <<>>
      <4>1. toClient'[Len(toClient')] = toClient[Len(toClient)]
        BY <2>1, <3>1
      <4> QED
        BY <1>2, <2>2, <2>5, <3>1, <4>1 DEF Answered, IsAnswer, taskVars
    <3>2. CASE toClient' = <<>>
      <4>1. Len(toClient') = 0
        BY <3>2
      <4>2. Len(toClient) = 1
        BY <2>1, <4>1
      <4>20. toClient[Len(toClient)] = m
        BY <2>1, <4>2
      <4>3. CASE m.type = "filter_error" /\ m.filter = expression
        BY <1>8, <2>2, <2>5, <3>2, <4>3 DEF Receive, Answered, taskVars
      <4>4. CASE m.type = "snapshot" /\ UpToDate(m.grep)
        <5>1. view' = View(m.grep, <<>>)
          BY <1>8, <4>4 DEF Receive
        <5>2. view'.grep = m.grep /\ view'.shown = <<>>
          BY <5>1 DEF View
        <5> QED
          BY <1>2, <2>2, <2>5, <3>2, <4>4, <5>2 DEF Answered, taskVars
      <4> QED
        BY <2>5, <4>20, <4>3, <4>4 DEF IsAnswer
    <3> QED
      BY <3>1, <3>2
  <2> QED
    BY <2>2, <2>3, <2>4, <2>5 DEF AnswerInv, Answered
<1>9. CASE Line \/ SessionCloses
  <2>1. /\ UNCHANGED <<toServer, toClient, expression, dirty, task, corpus>>
        /\ UNCHANGED <<view, filterError>>
    BY <1>9 DEF Line, SessionCloses, clientVars
  <2>2. \/ queue' = Append(queue, lines + 1) /\ lines' = lines + 1
        \/ queue' = Append(queue, Closed) /\ lines' = lines
    BY <1>9 DEF Line, SessionCloses
  <2>3. \A result : UpToDate(result) => UpToDate(result)'
    BY <2>1, <2>2, StaysUpToDate
  <2> QED
    BY <2>1, <2>3, AnswerStays DEF AnswerInv, InForce
\* grep is given the buffer as it is now
<1>10. ASSUME Start(TRUE), expression # None, UNCHANGED <<expression, lines>> PROVE Answered'
  <2>1. task' = "grep" /\ corpus' = Snapshot(expression, lines)
    BY <1>10 DEF Start
  <2>2. UpToDate(corpus)'
    BY <1>1, <1>10, <2>1 DEF UpToDate, Snapshot
  <2> QED
    BY <2>1, <2>2 DEF Answered
<1>11. CASE Idle
  BY <1>10, <1>11 DEF Idle
<1>12. CASE TakeLine
  BY <1>10, <1>12 DEF TakeLine, InForce
<1>13. CASE TakeClosed
  BY <1>13 DEF TakeClosed, InForce
<1>14. CASE Grep
  <2>1. UNCHANGED <<clientVars, toServer, lines, expression, queue, dirty>> /\ task = "grep"
    BY <1>14 DEF Grep, GrepEnds, GrepRaises
  <2>2. InForce
    BY <2>1 DEF InForce
  <2>20. UpToDate(corpus) /\ corpus \in Results /\ corpus.filter \in Filters
    BY <2>1, <2>2 DEF AnswerInv, Answered, TypeOK, Results
  <2>21. corpus.filter = expression
    BY <2>20 DEF UpToDate, Snapshot
  <2>3. CASE GrepEnds(Error(corpus.filter))
    <3>1. toClient' = Append(toClient, Error(corpus.filter))
      BY <2>3 DEF GrepEnds
    <3>2. toClient' # <<>> /\ toClient'[Len(toClient')] = Error(corpus.filter)
      BY <1>1, <2>20, <3>1, MessageTypes, AppendFacts
    <3>3. Error(corpus.filter).type = "filter_error" /\ Error(corpus.filter).filter = expression
      BY <2>21 DEF Error
    <3>4. toClient'[Len(toClient')].type = "filter_error" /\ toClient'[Len(toClient')].filter = expression'
      BY <2>1, <3>2, <3>3
    <3> QED
      BY <2>3, <3>2, <3>4 DEF GrepEnds, Answered, IsAnswer
  <2>4. CASE GrepEnds([type |-> "snapshot", grep |-> corpus])
    <3>1. toClient' = Append(toClient, [type |-> "snapshot", grep |-> corpus])
      BY <2>4 DEF GrepEnds
    <3>2. corpus \in Results
      BY <2>1 DEF TypeOK, Results
    <3>3. /\ toClient' # <<>>
          /\ toClient'[Len(toClient')] = [type |-> "snapshot", grep |-> corpus]
      <4>1. [type |-> "snapshot", grep |-> corpus] \in Messages
        BY <3>2, MessageTypes
      <4> QED
        BY <1>1, <3>1, <4>1, AppendFacts
    <3>4. UpToDate(corpus)
      BY <2>1, <2>2 DEF AnswerInv, Answered
    <3>5. /\ toClient'[Len(toClient')].type = "snapshot"
          /\ toClient'[Len(toClient')].grep = corpus
      BY <3>3
    <3>6. UpToDate(toClient[Len(toClient)].grep)'
      BY <2>1, <3>4, <3>5 DEF UpToDate, Snapshot
    <3> QED
      BY <2>4, <3>3, <3>5, <3>6 DEF GrepEnds, Answered, IsAnswer
  \* a task that has ended answers nothing
  <2>5. CASE GrepRaises
    BY <2>5 DEF GrepRaises, InForce
  <2> QED
    BY <1>14, <2>3, <2>4, <2>5 DEF Grep
<1>15. CASE UNCHANGED vars
  BY <1>2, <1>15, AnswerStays DEF vars, clientVars, taskVars, AnswerInv, InForce
<1> QED
  BY <1>3, <1>5, <1>6, <1>7, <1>8, <1>9, <1>11, <1>12, <1>13, <1>14, <1>15
     DEF Next, User, Forward

\* The filter bar catches up (README 34-37; ws_logs.py 136-149, 250-251): once nothing
\* is typed or on its way, a panel with a filter shows the result of grep for just that
\* filter and all lines received, or the error of that filter.  A set_filter or a line that
\* comes while grep runs on earlier ones is never forgotten.
THEOREM FilterViewCatchesUp == Spec => []FilterCatchesUp
<1>1. Init => AnswerInv
  BY DEF Init, AnswerInv, InForce
<1>2. IInv /\ AnswerInv /\ [Next]_vars => AnswerInv'
  BY AnswerStep DEF IInv
<1>3. IInv /\ AnswerInv => FilterCatchesUp
  <2> SUFFICES ASSUME IInv, AnswerInv, Quiet, input # None, filterError # input
               PROVE  view = View(Snapshot(input, lines), <<>>)
    BY DEF FilterCatchesUp
  <2>1. expression = input /\ toServer = <<>> /\ toClient = <<>> /\ queue = <<>>
    BY DEF IInv, InputInv, Quiet
  <2>2. InForce
    BY <2>1 DEF Quiet, InForce
  <2>3. UpToDate(view.grep) /\ view.shown = <<>>
    BY <2>1, <2>2 DEF AnswerInv, Answered, Quiet
  <2>4. PICK upTo \in 0..lines :
            /\ view.grep = Snapshot(expression, upTo)
            /\ \A n \in (upTo + 1)..lines : \E i \in 1..Len(queue) : queue[i] = n
    BY <2>3 DEF UpToDate
  <2>5. lines \in Nat /\ view \in Views
    BY DEF IInv, TypeOK, Views, Results
  <2>6. upTo = lines
    <3>1. ~(lines \in (upTo + 1)..lines)
      BY <2>1, <2>4
    <3> QED
      BY <2>5, <3>1
  <2>7. view = View(view.grep, view.shown)
    BY <2>5 DEF Views, View
  <2> QED
    BY <2>1, <2>3, <2>4, <2>6, <2>7
<1> QED
  BY <1>1, <1>2, <1>3, Invariance, PTL DEF Spec

=============================================================================
