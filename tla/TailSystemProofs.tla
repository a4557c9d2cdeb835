-------------------------- MODULE TailSystemProofs --------------------------
(***************************************************************************)
(* TailSystem implements TailManager, so what TailManagerProofs proves of   *)
(* the manager holds behind channels and the real dispatcher.               *)
(*                                                                         *)
(* The one thing the refinement needs to know of the agent is that it sends *)
(* nothing but replies to sessions' requests and ends of the tail.         *)
(***************************************************************************)
EXTENDS TailSystem, FiniteSetTheorems, TLAPS

USE DEF serverVars, netVars, agentVars, Server!requestVars, Server!connVars

\* What is on the wire.
WireOK ==
    /\ down \in Seq(DownMessages)
    /\ up \in [Conns -> Seq(UpMessages)]
    /\ job \in Sessions \cup {None}

LEMMA Alphabet ==
    /\ Stop \in DownMessages
    /\ \A s \in Sessions : Start(s) \in DownMessages
    /\ \A s \in Sessions : \A a \in {"ok", "error"} : Reply(a, s) \in UpMessages
    /\ \A how \in {"error", "closed"} : Ended(how) \in UpMessages
  BY DEF DownMessages, UpMessages, Server!Dead, Start, Stop, Reply, Ended

\* A dequeued message is a member of the alphabet, and so is what is left.
LEMMA Dequeue ==
    ASSUME NEW S, NEW q \in Seq(S), q # <<>>
    PROVE  Head(q) \in S /\ Tail(q) \in Seq(S)
  OBVIOUS

LEMMA WireInit == Init => WireOK
  BY DEF Init, WireOK

LEMMA WireStep == WireOK /\ [Next]_vars => WireOK'
<1> SUFFICES ASSUME WireOK, [Next]_vars PROVE WireOK'
  OBVIOUS
<1> USE DEF WireOK
<1>1. ASSUME NEW b \in Browsers, Handle(b) PROVE WireOK'
  BY <1>1 DEF Handle
<1>2. ASSUME NEW b \in Browsers, SendStop(b) PROVE WireOK'
  BY <1>2, Alphabet DEF SendStop, Down
<1>3. ASSUME NEW b \in Browsers, NEW s \in Sessions, SendStart(b, s) PROVE WireOK'
  BY <1>3, Alphabet DEF SendStart, Down
<1>4. CASE RequestTimesOut
  BY <1>4 DEF RequestTimesOut
<1>5. ASSUME NEW c \in Conns, Receive(c) PROVE WireOK'
  <2>1. up[c] \in Seq(UpMessages) /\ Tail(up[c]) \in Seq(UpMessages)
    BY <1>5, Dequeue DEF Receive
  <2> QED
    BY <1>5, <2>1 DEF Receive
<1>6. ASSUME NEW c \in Conns, ServerDisconnects(c) PROVE WireOK'
  BY <1>6 DEF ServerDisconnects
<1>7. ASSUME NEW c \in Conns, Reconnect(c) PROVE WireOK'
  BY <1>7 DEF Reconnect
<1>8. CASE Lose
  BY <1>8 DEF Lose
<1>9. CASE TakeStart
  <2>1. Head(down) \in DownMessages /\ Tail(down) \in Seq(DownMessages)
    BY <1>9, Dequeue DEF TakeStart
  <2>2. Head(down).id \in Sessions
    BY <1>9, <2>1 DEF TakeStart, DownMessages, Start, Stop
  <2> QED
    BY <1>9, <2>1, <2>2 DEF TakeStart
<1>u. ASSUME NEW m \in UpMessages, Up(m) PROVE up' \in [Conns -> Seq(UpMessages)]
  <2>1. \A c \in Conns : Append(up[c], m) \in Seq(UpMessages)
    OBVIOUS
  <2> QED
    BY <1>u, <2>1 DEF Up
<1>10. CASE ReadFails
  BY <1>10, <1>u, Alphabet DEF ReadFails, HasRead
<1>11. CASE SendBackfill
  BY <1>11, <1>u, Alphabet DEF SendBackfill, HasRead
<1>12. CASE TakeStop
  BY <1>12, Dequeue DEF TakeStop
<1>13. ASSUME NEW t \in Tasks, FollowOne(t) PROVE WireOK'
  BY <1>13 DEF FollowOne
<1>14. ASSUME NEW t \in Tasks, Begin(t) PROVE WireOK'
  BY <1>14 DEF Begin
<1>15. ASSUME NEW t \in Tasks, Fail(t) PROVE WireOK'
  BY <1>15, <1>u, Alphabet DEF Fail
<1>16. ASSUME NEW t \in Tasks, Finish(t) PROVE WireOK'
  BY <1>16, <1>u, Alphabet DEF Finish
<1>17. CASE UNCHANGED vars
  BY <1>17 DEF vars
<1> QED
  BY <1>1, <1>2, <1>3, <1>4, <1>5, <1>6, <1>7, <1>8, <1>9, <1>10, <1>11, <1>12,
     <1>13, <1>14, <1>15, <1>16, <1>17 DEF Next, ServerNext, AgentNext

LEMMA WireInvariant == Spec => []WireOK
  BY WireInit, WireStep, PTL DEF Spec

-----------------------------------------------------------------------------

\* Every step of the system is a step of the manager or leaves it alone.
LEMMA StepsMap == WireOK /\ [Next]_vars => [Server!Next]_(Server!vars)
<1> SUFFICES ASSUME WireOK, [Next]_vars PROVE [Server!Next]_(Server!vars)
  OBVIOUS
<1>1. ASSUME NEW b \in Browsers, Handle(b) PROVE Server!Next
  BY <1>1 DEF Handle, Server!Next, Server!Resume
<1>2. ASSUME NEW b \in Browsers, SendStop(b) PROVE Server!Next
  BY <1>2 DEF SendStop, Server!Next, Server!Resume
<1>3. ASSUME NEW b \in Browsers, NEW s \in Sessions, SendStart(b, s) PROVE Server!Next
  BY <1>3 DEF SendStart, Server!Next, Server!Resume
<1>4. CASE RequestTimesOut
  BY <1>4 DEF RequestTimesOut, Server!Next
<1>5. ASSUME NEW c \in Conns, ServerDisconnects(c) PROVE Server!Next
  BY <1>5 DEF ServerDisconnects, Server!Next
<1>6. ASSUME NEW c \in Conns, Reconnect(c) PROVE Server!Next
  BY <1>6 DEF Reconnect, Server!Next
<1>7. ASSUME NEW c \in Conns, Receive(c) PROVE [Server!Next]_(Server!vars)
  <2> DEFINE m == Head(up[c])
  <2>1. m \in UpMessages
    BY <1>7, Dequeue DEF Receive, WireOK
  <2>2. CASE m.type \in {"ok", "error"} /\ m.id # None
    <3>1. Server!Deliver(m.type) \/ UNCHANGED Server!vars
      BY <1>7, <2>2 DEF Receive, Server!vars
    <3> QED
      BY <2>2, <3>1 DEF Server!Next
  <2>3. CASE ~(m.type \in {"ok", "error"} /\ m.id # None)
    <3>1. m.type \in Server!Dead
      BY <2>1, <2>3, NoTaskAssumption DEF UpMessages, Reply, Ended, Server!Dead
    <3>2. Server!AgentEnds(m.type)
      BY <1>7, <2>3 DEF Receive
    <3> QED
      BY <3>1, <3>2 DEF Server!Next
  <2> QED
    BY <2>2, <2>3
<1>8. CASE AgentNext
  <2>1. UNCHANGED serverVars
    BY <1>8 DEF AgentNext, Lose, TakeStart, ReadFails, SendBackfill, TakeStop,
                FollowOne, Begin, Fail, Finish
  <2> QED
    BY <2>1 DEF Server!vars
<1>9. CASE UNCHANGED vars
  BY <1>9 DEF vars, Server!vars
<1> QED
  BY <1>1, <1>2, <1>3, <1>4, <1>5, <1>6, <1>7, <1>8, <1>9 DEF Next, ServerNext

\* The manager behind FIFO channels, with the real dispatcher at their other
\* end, behaves as the manager with a free agent (manager.py, session.py,
\* dispatch.py).
THEOREM SystemImplementsManager == Spec => ManagerSpec
<1>1. Init => Server!Init
  BY DEF Init
<1> QED
  BY <1>1, StepsMap, WireInvariant, PTL DEF Spec, ManagerSpec, Server!Spec

-----------------------------------------------------------------------------

\* Unless a cancelled task can outlive the next start, the registered task is
\* the only one that has not ended, and none is registered during a clean-up.
FollowInv ==
    /\ tails \in Tasks \cup {None}
    /\ task \in [Tasks -> TaskStates]
    /\ \A t \in Tasks : task[t] \in {"created", "running", "failed"} => tails = t
    /\ CleaningUp => tails = None

LEMMA FollowStep ==
    ASSUME "overtake" \notin Faults, FollowInv, [Next]_vars
    PROVE  FollowInv'
<1> USE NoTaskAssumption DEF FollowInv, CleaningUp, TaskStates
<1>1. CASE ServerNext
  <2>1. UNCHANGED <<tails, task>>
    BY <1>1 DEF ServerNext, Handle, SendStop, SendStart, RequestTimesOut, Receive,
                ServerDisconnects, Reconnect
  <2> QED
    BY <2>1
<1>2. CASE Lose
  BY <1>2 DEF Lose
<1>3. CASE TakeStart \/ ReadFails \/ SendBackfill
  BY <1>3 DEF TakeStart, ReadFails, SendBackfill
<1>4. CASE TakeStop
  BY <1>4 DEF TakeStop
<1>5. ASSUME NEW t \in Tasks, FollowOne(t) PROVE FollowInv'
  BY <1>5 DEF FollowOne
<1>6. ASSUME NEW t \in Tasks, Begin(t) \/ Fail(t) PROVE FollowInv'
  BY <1>6 DEF Begin, Fail
<1>7. ASSUME NEW t \in Tasks, Finish(t) PROVE FollowInv'
  BY <1>7 DEF Finish
<1>8. CASE UNCHANGED vars
  BY <1>8 DEF vars
<1> QED
  BY <1>1, <1>2, <1>3, <1>4, <1>5, <1>6, <1>7, <1>8 DEF Next, AgentNext

\* A path is followed by one task at most when a cancelled follower ends before
\* the next start is through (dispatch.py 206-213, 223-224).  The condition is
\* needed: with "overtake" in Faults TLC finds two followers.
THEOREM FollowedOnce ==
    ASSUME "overtake" \notin Faults
    PROVE  Spec => []OneFollower
<1>1. Init => FollowInv
  BY DEF Init, FollowInv, CleaningUp, TaskStates
<1>2. FollowInv /\ [Next]_vars => FollowInv'
  BY FollowStep
<1>3. FollowInv => OneFollower
  <2> SUFFICES ASSUME FollowInv PROVE Cardinality(Followers) <= 1
    BY DEF OneFollower
  <2>1. Followers \subseteq {tails}
    BY DEF Followers, FollowInv
  <2>2. IsFiniteSet({tails}) /\ Cardinality({tails}) = 1
    BY FS_Singleton
  <2>3. Cardinality(Followers) <= Cardinality({tails})
    BY <2>1, <2>2, FS_Subset
  <2> QED
    BY <2>2, <2>3
<1> QED
  BY <1>1, <1>2, <1>3, PTL DEF Spec

-----------------------------------------------------------------------------

Manager == INSTANCE TailManagerProofs

\* Two instances of one module with the same substitutions: the same formulas.
LEMMA SameInit == Server!Init <=> Manager!Init
  BY DEF Server!Init, Manager!Init

LEMMA SameNext == [Server!Next]_(Server!vars) <=> [Manager!Next]_(Manager!vars)
  BY DEF Server!Next, Manager!Next, Server!Resume, Manager!Resume,
         Server!SubscribeCall, Manager!SubscribeCall, Server!Join,
         Manager!Join, Server!Create, Manager!Create, Server!CreateOffline,
         Manager!CreateOffline, Server!StartOk, Manager!StartOk,
         Server!StartFail, Manager!StartFail, Server!UnsubscribeCall,
         Manager!UnsubscribeCall, Server!Leave, Manager!Leave,
         Server!LeaveLast, Manager!LeaveLast, Server!LeaveLastOffline,
         Manager!LeaveLastOffline, Server!StopSent, Manager!StopSent,
         Server!AgentEnds, Manager!AgentEnds, Server!Deliver, Manager!Deliver,
         Server!TimeOut, Manager!TimeOut, Server!Connect, Manager!Connect,
         Server!Disconnect, Manager!Disconnect, Server!Holds, Manager!Holds,
         Server!online, Manager!online, Server!NoRequest, Manager!NoRequest,
         Server!requestVars, Manager!requestVars, Server!connVars, Manager!connVars,
         Server!Release, Manager!Release, Server!Goto, Manager!Goto,
         Server!Reusable, Manager!Reusable, Server!Fresh, Manager!Fresh,
         Server!Attach, Manager!Attach, Server!MinusOne, Manager!MinusOne,
         Server!Unregister, Manager!Unregister, Server!Done, Manager!Done,
         Server!EndRegistered, Manager!EndRegistered, Server!Dead,
         Manager!Dead, Server!vars, Manager!vars

LEMMA SameRefCount == Server!RefCount <=> Manager!RefCount
  BY DEF Server!RefCount, Manager!RefCount, Server!Viewers, Manager!Viewers,
         Cardinality, Server!Cardinality, Manager!Cardinality

\* The reference counts of the sessions stay exact in the whole system
\* (manager.py 50, 62).
COROLLARY SystemRefCount == Spec => []Server!RefCount
<1>1. Manager!IsFiniteSet(Browsers) /\ None \notin Sessions /\ None \notin Conns
  BY BrowsersFinite, NoTaskAssumption DEF IsFiniteSet, Manager!IsFiniteSet
<1>2. Manager!Spec => []Manager!RefCount
  BY <1>1, Manager!RefCountExact, PTL
<1>3. Server!Spec => Manager!Spec
  BY SameInit, SameNext, PTL DEF Server!Spec, Manager!Spec
<1> QED
  BY <1>2, <1>3, SameRefCount, SystemImplementsManager, PTL DEF ManagerSpec

-----------------------------------------------------------------------------
(* What is known of the server *)

LEMMA SameTypeOK == Manager!TypeOK => Server!TypeOK
  BY DEF Server!TypeOK, Manager!TypeOK, Server!Status, Manager!Status, Server!Dead, Manager!Dead,
         Server!Places, Manager!Places, Server!Replies, Manager!Replies

\* Counts are exact, a waiter is in the lock's queue and who starts or stops is its
\* head, and a reply is awaited exactly while somebody starts.
ServerInv ==
    /\ Server!TypeOK /\ Server!RefCount
    /\ \A b \in Browsers : pc[b] \in {"starting", "stopping"} => Server!Holds(b)
    /\ \A b \in Browsers : pc[b] = "unsubWait" => lockQueue # <<>>
    /\ reply # "none" <=> \E b \in Browsers : pc[b] = "starting"

LEMMA ServerInvariant == Spec => []ServerInv
<1>1. Manager!IsFiniteSet(Browsers) /\ None \notin Sessions /\ None \notin Conns
  BY BrowsersFinite, NoTaskAssumption DEF IsFiniteSet, Manager!IsFiniteSet
<1>2. Manager!Spec => []Manager!IInv
  BY <1>1, Manager!Invariance, PTL
<1>3. Server!Spec => Manager!Spec
  BY SameInit, SameNext, PTL DEF Server!Spec, Manager!Spec
<1>4. Manager!IInv => ServerInv
  <2> SUFFICES ASSUME Manager!IInv PROVE ServerInv
    OBVIOUS
  <2>1. Server!TypeOK /\ Server!RefCount
    BY SameTypeOK, SameRefCount DEF Manager!IInv, Manager!RefInv
  <2>2. \A b \in Browsers : pc[b] \in {"starting", "stopping"} => Server!Holds(b)
    BY DEF Manager!IInv, Manager!LockInv, Manager!Holds, Server!Holds
  <2>3. \A b \in Browsers : pc[b] = "unsubWait" => lockQueue # <<>>
    <3>1. \A b \in Browsers : pc[b] = "unsubWait" => Manager!InQueue(b)
      BY DEF Manager!IInv, Manager!LockInv
    <3> QED
      BY <3>1 DEF Manager!InQueue
  <2>4. reply # "none" <=> \E b \in Browsers : pc[b] = "starting"
    BY DEF Manager!IInv, Manager!SessionInv
  <2> QED
    BY <2>1, <2>2, <2>3, <2>4 DEF ServerInv
<1> QED
  BY <1>2, <1>3, <1>4, SystemImplementsManager, PTL DEF ManagerSpec

\* Types of both sides and of what is between them, for any browsers, sessions, tasks
\* and faults (manager.py, session.py, dispatch.py).
THEOREM TypeCorrect == Spec => []TypeOK
<1> DEFINE AgentOK == /\ link \in Conns \cup {None} /\ stage \in {"reading", "sent"}
                      /\ tails \in Tasks \cup {None}
                      /\ task \in [Tasks -> TaskStates]
<1>1. Init => AgentOK
  BY DEF Init, TaskStates
<1>2. AgentOK /\ [Next]_vars => AgentOK'
  <2> SUFFICES ASSUME AgentOK, [Next]_vars PROVE AgentOK'
    OBVIOUS
  <2>1. CASE ServerNext
    BY <2>1 DEF ServerNext, Handle, SendStop, SendStart, RequestTimesOut, Receive,
                ServerDisconnects, Reconnect
  <2>2. CASE Lose \/ TakeStart \/ ReadFails \/ SendBackfill
    BY <2>2 DEF Lose, TakeStart, ReadFails, SendBackfill, TaskStates
  <2>3. CASE TakeStop
    BY <2>3 DEF TakeStop, TaskStates
  <2>4. ASSUME NEW t \in Tasks, FollowOne(t) \/ Begin(t) \/ Fail(t) \/ Finish(t) PROVE AgentOK'
    BY <2>4 DEF FollowOne, Begin, Fail, Finish, TaskStates
  <2>5. CASE UNCHANGED vars
    BY <2>5 DEF vars
  <2> QED
    BY <2>1, <2>2, <2>3, <2>4, <2>5 DEF Next, AgentNext
<1>3. ServerInv /\ WireOK /\ AgentOK => TypeOK
  BY DEF ServerInv, WireOK, TypeOK
<1> HIDE DEF AgentOK
<1> QED
  BY <1>1, <1>2, <1>3, ServerInvariant, WireInvariant, PTL DEF Spec

-----------------------------------------------------------------------------
(* Channels *)

Has(channel, m) == \E i \in 1..Len(channel) : channel[i] = m

\* A session's request, and its answer, is on a channel once.
Once(channel) ==
    \A i, j \in 1..Len(channel) :
        channel[i].id # None /\ channel[i].id = channel[j].id => i = j

LEMMA EmptyChannel ==
    /\ Once(<<>>) /\ \A m : ~Has(<<>>, m)
    /\ \A s : ~Mentions(<<>>, s)
  BY DEF Once, Has, Mentions

LEMMA HasMentions == \A q, m : Has(q, m) => Mentions(q, m.id)
  BY DEF Has, Mentions

LEMMA Sent ==
    ASSUME NEW S, NEW q \in Seq(S), NEW x \in S
    PROVE  /\ \A m : Has(Append(q, x), m) <=> m = x \/ Has(q, m)
           /\ \A s : Mentions(Append(q, x), s) <=> s = x.id \/ Mentions(q, s)
           /\ Once(q) /\ (x.id # None => ~Mentions(q, x.id)) => Once(Append(q, x))
<1> DEFINE a == Append(q, x)
<1>1. a \in Seq(S) /\ Len(a) = Len(q) + 1 /\ Len(q) \in Nat
  OBVIOUS
<1>2. \A i \in 1..Len(q) : a[i] = q[i]
  OBVIOUS
<1>3. a[Len(q) + 1] = x
  OBVIOUS
<1>4. \A i \in 1..Len(a) : i = Len(q) + 1 \/ i \in 1..Len(q)
  BY <1>1
<1>5. \A i \in 1..Len(q) : i \in 1..Len(a)
  BY <1>1
<1>6. Len(q) + 1 \in 1..Len(a)
  BY <1>1
<1> HIDE DEF a
<1>7. \A m : Has(a, m) <=> m = x \/ Has(q, m)
  BY <1>2, <1>3, <1>4, <1>5, <1>6 DEF Has
<1>8. \A s : Mentions(a, s) <=> s = x.id \/ Mentions(q, s)
  BY <1>2, <1>3, <1>4, <1>5, <1>6 DEF Mentions
<1>9. Once(q) /\ (x.id # None => ~Mentions(q, x.id)) => Once(a)
  BY <1>2, <1>3, <1>4, <1>5, <1>6 DEF Once, Mentions
<1> QED
  BY <1>7, <1>8, <1>9 DEF a

LEMMA Taken ==
    ASSUME NEW S, NEW q \in Seq(S), q # <<>>
    PROVE  /\ \A m : Has(q, m) <=> m = Head(q) \/ Has(Tail(q), m)
           /\ \A s : Mentions(q, s) <=> s = Head(q).id \/ Mentions(Tail(q), s)
           /\ Once(q) => /\ Once(Tail(q))
                         /\ Head(q).id # None => ~Mentions(Tail(q), Head(q).id)
<1> DEFINE t == Tail(q)
<1>1. t \in Seq(S) /\ Len(t) = Len(q) - 1 /\ Len(q) \in Nat \ {0}
  OBVIOUS
<1>2. \A i \in 1..Len(t) : t[i] = q[i + 1]
  OBVIOUS
<1>3. Head(q) = q[1] /\ 1 \in 1..Len(q)
  OBVIOUS
<1> HIDE DEF t
<1>4. \A i \in 1..Len(t) : i + 1 \in 1..Len(q) /\ i + 1 # 1
  BY <1>1
<1>5. \A i \in 1..Len(q) : i = 1 \/ \E j \in 1..Len(t) : i = j + 1
  <2> TAKE i \in 1..Len(q)
  <2>1. CASE i # 1
    <3>1. i - 1 \in 1..Len(t) /\ i = (i - 1) + 1
      BY <1>1, <2>1
    <3> QED
      BY <3>1
  <2> QED
    BY <2>1
<1>6. \A m : Has(q, m) <=> m = Head(q) \/ Has(t, m)
  BY <1>2, <1>3, <1>4, <1>5 DEF Has
<1>7. \A s : Mentions(q, s) <=> s = Head(q).id \/ Mentions(t, s)
  <2> TAKE s
  <2>1. ASSUME NEW i \in 1..Len(q), q[i].id = s PROVE s = Head(q).id \/ Mentions(t, s)
    BY <1>2, <1>3, <1>5, <2>1 DEF Mentions
  <2>2. ASSUME NEW i \in 1..Len(t), t[i].id = s PROVE Mentions(q, s)
    BY <1>2, <1>4, <2>2 DEF Mentions
  <2>3. s = Head(q).id => Mentions(q, s)
    BY <1>3 DEF Mentions
  <2> QED
    BY <2>1, <2>2, <2>3 DEF Mentions
<1>8. ASSUME Once(q) PROVE Once(t)
  <2> SUFFICES ASSUME NEW i \in 1..Len(t), NEW j \in 1..Len(t),
                      t[i].id # None, t[i].id = t[j].id
               PROVE  i = j
    BY DEF Once
  <2>1. i + 1 = j + 1
    BY <1>2, <1>4, <1>8 DEF Once
  <2> QED
    BY <1>1, <2>1
<1>9. ASSUME Once(q), Head(q).id # None PROVE ~Mentions(t, Head(q).id)
  BY <1>2, <1>3, <1>4, <1>9 DEF Once, Mentions
<1> QED
  BY <1>6, <1>7, <1>8, <1>9 DEF t

-----------------------------------------------------------------------------
(* Who a follower is there for *)

\* The agent has session s's start to answer.
Asked(s) == Mentions(down, s) \/ (job = s /\ stage = "reading")

Stopping == Has(down, Stop)

\* The browser that is starting has, or will read, the agent's yes.
Granted ==
    \E b \in Browsers :
        /\ pc[b] = "starting"
        /\ \/ reply = "ok"
           \/ reply = "pending" /\ via = current /\ Has(up[link], Reply("ok", held[b]))

Watched == \E b \in Browsers : pc[b] \in {"subscribed", "unsubWait"}

Following == Followers # {} \/ (job # None /\ stage = "sent")

\* A session is asked for once and answered once, over one connection, and not
\* answered before.
OnceInv ==
    /\ Once(down) /\ \A c \in Conns : Once(up[c])
    /\ \A c, d \in Conns, s \in Sessions :
          Mentions(up[c], s) /\ Mentions(up[d], s) => c = d
    /\ \A s \in Sessions : Mentions(down, s) => job # s
    /\ \A s \in Sessions, c \in Conns : Asked(s) => ~Mentions(up[c], s)

\* Without its end of the connection the agent does nothing.
IdleInv ==
    /\ link \in Conns \cup {None}
    /\ link = None => down = <<>> /\ job = None /\ \A t \in Tasks : task[t] = "none"

\* The server's messages get to the agent.
Reached == link # None /\ current = link

\* A start that is not answered is awaited; a follower is being stopped, or the
\* browser it is for is about to be told, or it is watched.
WatchInv ==
    Reached =>
        /\ \A s \in Sessions : Asked(s) => Awaited(s)
        /\ Following => Stopping \/ Granted \/ Watched

ForWhom == OnceInv /\ IdleInv /\ WatchInv

\* Whoever leaves a session without being the last one leaves a viewer behind.
LEMMA AnotherViewer ==
    ASSUME ServerInv, NEW b \in Browsers, Server!Leave(b)
    PROVE  \E v \in Browsers : v # b /\ v \in Server!Viewers(held[b])
<1> DEFINE V == Server!Viewers(held[b])
<1>1. pc[b] = "unsubWait" /\ Server!MinusOne(count[held[b]]) # 0
  BY DEF Server!Leave
<1>2. held[b] \in Sessions /\ count[held[b]] \in Nat
  BY <1>1 DEF ServerInv, Server!TypeOK
<1>3. count[held[b]] # 1
  BY <1>1 DEF Server!MinusOne
<1>4. count[held[b]] = Server!Cardinality(V)
  BY <1>2 DEF ServerInv, Server!RefCount
<1>5. Server!Cardinality(V) = Cardinality(V)
  BY DEF Cardinality, Server!Cardinality
<1>6. V = {b} => Cardinality(V) = 1
  BY FS_Singleton
<1>7. b \in V /\ V \subseteq Browsers
  BY <1>1 DEF Server!Viewers
<1> QED
  BY <1>3, <1>4, <1>5, <1>6, <1>7

\* Steps that leave the channels and the agent's work as they are.
LEMMA SameWork ==
    ASSUME UNCHANGED <<down, job, stage, task>>
    PROVE  /\ \A s : Asked(s)' <=> Asked(s)
           /\ Stopping' <=> Stopping
           /\ Following' <=> Following
  BY DEF Asked, Mentions, Stopping, Has, Following, Followers

LEMMA SameOnce ==
    ASSUME UNCHANGED <<down, up, job, stage>>
    PROVE  OnceInv' <=> OnceInv
  BY DEF OnceInv, Once, Mentions, Asked

\* Nobody is served by an agent that is not there.
LEMMA NoLink ==
    ASSUME IdleInv, link = None
    PROVE  (\A s \in Sessions : ~Asked(s)) /\ ~Following
  BY EmptyChannel, NoTaskAssumption DEF IdleInv, Asked, Following, Followers

\* One browser is starting, and it is the one that holds the lock.
LEMMA OneStarts ==
    ASSUME ServerInv, NEW a \in Browsers, pc[a] = "starting"
    PROVE  /\ \A b \in Browsers : pc[b] = "starting" => b = a
           /\ held[a] \in Sessions /\ reply # "none"
           /\ \A b \in Browsers : Server!Holds(b) => b = a
  BY DEF ServerInv, Server!Holds, Server!TypeOK

\* A handler that resumes, or calls, keeps the promises.
LEMMA HandleKeeps ==
    ASSUME ServerInv, IdleInv, WatchInv, NEW b \in Browsers, Handle(b)
    PROVE  WatchInv'
<1> USE DEF ServerInv, Server!TypeOK, Server!Goto
<1>0. /\ UNCHANGED <<up, down, job, stage, task, link, current>>
      /\ \A s : Asked(s)' <=> Asked(s)
      /\ Stopping' <=> Stopping
      /\ Following' <=> Following
  <2>1. UNCHANGED current
    BY DEF Handle, Server!SubscribeCall, Server!UnsubscribeCall, Server!Join,
       Server!CreateOffline, Server!StartOk, Server!StartFail, Server!Leave,
       Server!LeaveLastOffline, Server!StopSent
  <2> QED
    BY <2>1, SameWork DEF Handle
<1> SUFFICES ASSUME Reached PROVE WatchInv'
  BY <1>0 DEF WatchInv, Reached
\* it is enough that those who start go on and viewers stay
<1>1. ASSUME reply' = reply, via' = via, held' = [held EXCEPT ![b] = held'[b]], pc' = [pc EXCEPT ![b] = pc'[b]],
             pc[b] # "starting", Watched => Watched'
      PROVE  WatchInv'
  <2>1. \A a \in Browsers : pc[a] = "starting" => pc'[a] = "starting" /\ held'[a] = held[a]
    BY <1>1
  <2>2. \A s : Awaited(s) => Awaited(s)'
    BY <1>0, <1>1, <2>1 DEF Awaited
  <2>3. Granted => Granted'
    BY <1>0, <1>1, <2>1 DEF Granted, Has
  <2> QED
    BY <1>0, <1>1, <2>2, <2>3 DEF WatchInv
\* and if a browser is served there is nothing else to say
<1>2. ASSUME \A s \in Sessions : ~Asked(s), Watched' PROVE WatchInv'
  BY <1>0, <1>2 DEF WatchInv
<1>3. CASE Server!SubscribeCall(b) \/ Server!CreateOffline(b) \/ Server!StopSent(b)
  <2>1. /\ reply' = reply /\ via' = via /\ held' = [held EXCEPT ![b] = held'[b]]
        /\ pc' = [pc EXCEPT ![b] = pc'[b]]
        /\ pc[b] \notin {"starting", "subscribed", "unsubWait"}
    BY <1>3 DEF Server!SubscribeCall, Server!CreateOffline, Server!StopSent, Server!Done
  <2>2. Watched => Watched'
    BY <2>1 DEF Watched
  <2> QED
    BY <1>1, <2>1, <2>2
<1>4. CASE Server!UnsubscribeCall(b) \/ Server!Join(b)
  <2>1. /\ reply' = reply /\ via' = via /\ held' = [held EXCEPT ![b] = held'[b]]
        /\ pc' = [pc EXCEPT ![b] = pc'[b]]
        /\ pc[b] # "starting" /\ pc'[b] \in {"subscribed", "unsubWait"}
    BY <1>4 DEF Server!UnsubscribeCall, Server!Join, Server!Attach
  <2>2. Watched'
    BY <2>1 DEF Watched
  <2> QED
    BY <1>1, <2>1, <2>2
<1>5. CASE Server!StartOk(b)
  <2>1. \A s \in Sessions : ~Asked(s)
    BY <1>5 DEF Server!StartOk, WatchInv, Awaited
  <2>2. pc'[b] = "subscribed"
    BY <1>5 DEF Server!StartOk, Server!Attach
  <2> QED
    BY <1>2, <2>1, <2>2 DEF Watched
<1>6. CASE Server!StartFail(b)
  <2>1. \A s \in Sessions : ~Asked(s)
    BY <1>6 DEF Server!StartFail, WatchInv, Awaited
  <2>2. ~Granted
    BY <1>6 DEF Server!StartFail, Granted
  <2>3. Watched => Watched'
    BY <1>6 DEF Server!StartFail, Watched
  <2> QED
    BY <1>0, <2>1, <2>2, <2>3 DEF WatchInv
<1>7. CASE Server!Leave(b)
  <2>1. PICK v \in Browsers : v # b /\ v \in Server!Viewers(held[b])
    BY <1>7, AnotherViewer
  <2>2. /\ reply' = reply /\ via' = via /\ held' = [held EXCEPT ![b] = held'[b]]
        /\ pc' = [pc EXCEPT ![b] = pc'[b]]
        /\ pc[b] # "starting"
    BY <1>7 DEF Server!Leave, Server!Done
  <2>3. Watched'
    BY <2>1, <2>2 DEF Server!Viewers, Watched
  <2> QED
    BY <1>1, <2>2, <2>3
<1>8. CASE Server!LeaveLastOffline(b)
  BY <1>8 DEF Server!LeaveLastOffline, Server!online, Reached
<1> QED
  BY <1>3, <1>4, <1>5, <1>6, <1>7, <1>8 DEF Handle

LEMMA SendStopKeeps ==
    ASSUME WireOK, ServerInv, ForWhom, NEW b \in Browsers, SendStop(b)
    PROVE  ForWhom'
<1> USE DEF ForWhom
<1>0. UNCHANGED <<up, job, stage, task, link, current, reply, via>>
  BY DEF SendStop, Server!LeaveLast
<1>1. CASE ~Reached
  <2>1. UNCHANGED down
    BY <1>1 DEF SendStop, Down, Reached
  <2> QED
    BY <1>0, <1>1, <2>1, SameOnce DEF IdleInv, WatchInv, Reached
<1>2. CASE Reached
  <2>1. down' = Append(down, Stop) /\ Stop \in DownMessages /\ Stop.id = None
    BY <1>2, Alphabet DEF SendStop, Down, Stop, Reached
  <2>2. /\ Has(down', Stop) /\ (Once(down) => Once(down'))
        /\ \A s : s # None => (Mentions(down', s) <=> Mentions(down, s))
    BY <2>1, Sent DEF WireOK
  <2>3. \A s \in Sessions : Asked(s)' <=> Asked(s)
    BY <1>0, <2>2, NoTaskAssumption DEF Asked, Mentions
  <2>4. \A s : Awaited(s) => Awaited(s)'
    BY <1>0 DEF Awaited, SendStop, Server!LeaveLast, Server!Goto, ServerInv, Server!TypeOK
  <2>5. WatchInv'
    BY <1>2, <2>2, <2>3, <2>4 DEF WatchInv, Stopping, Has
  <2>6. OnceInv'
    BY <1>0, <2>2, <2>3, NoTaskAssumption DEF OnceInv, Mentions, Once
  <2>7. IdleInv'
    BY <1>0, <1>2 DEF IdleInv, Reached
  <2> QED
    BY <2>5, <2>6, <2>7
<1> QED
  BY <1>1, <1>2

LEMMA SendStartKeeps ==
    ASSUME WireOK, ServerInv, ForWhom, NEW b \in Browsers, NEW s \in Sessions, SendStart(b, s)
    PROVE  ForWhom'
<1> USE DEF ForWhom
<1>0. UNCHANGED <<up, job, stage, task, link, current>>
  BY DEF SendStart, Server!Create
<1>1. \A a \in Browsers : pc[a] # "starting"
  BY OneStarts DEF SendStart, Server!Create
<1>2. CASE ~Reached
  <2>1. UNCHANGED down
    BY <1>2 DEF SendStart, Down, Reached
  <2> QED
    BY <1>0, <1>2, <2>1, SameOnce DEF IdleInv, WatchInv, Reached
<1>3. CASE Reached
  <2>0. (\A t \in Sessions : ~Asked(t)) /\ ~Granted
    BY <1>1, <1>3 DEF WatchInv, Awaited, Granted
  <2>1. Watched => Watched'
    BY DEF SendStart, Server!Create, Server!Goto, Watched, ServerInv, Server!TypeOK
  <2>2. Awaited(s)'
    BY DEF SendStart, Server!Create, Server!Goto, Awaited, ServerInv, Server!TypeOK
  <2>3. down' = Append(down, Start(s)) /\ Start(s) \in DownMessages /\ Start(s).id = s
    BY <1>3, Alphabet DEF SendStart, Down, Start, Reached
  <2>4. ~Mentions(down, s) /\ (\A c \in Conns : ~Mentions(up[c], s)) /\ job # s
    BY DEF SendStart
  <2>5. /\ Has(down, Stop) => Has(down', Stop)
        /\ Once(down) => Once(down')
        /\ \A t : Mentions(down', t) <=> t = s \/ Mentions(down, t)
    BY <2>3, <2>4, Sent DEF WireOK
  <2>6. \A t \in Sessions : Asked(t)' => t = s
    BY <1>0, <2>0, <2>5 DEF Asked, Mentions
  <2>7. WatchInv'
    BY <1>0, <1>3, <2>0, <2>1, <2>2, <2>5, <2>6
    DEF WatchInv, Stopping, Following, Followers, Has
  <2>8. OnceInv'
    <3>1. Once(down')
      BY <2>5 DEF OnceInv
    <3>2. \A t \in Sessions : Mentions(down', t) => job # t
      BY <2>4, <2>5 DEF OnceInv
    <3>3. \A t \in Sessions, c \in Conns : Asked(t)' => ~Mentions(up[c], t)
      BY <2>4, <2>6
    <3> QED
      BY <1>0, <3>1, <3>2, <3>3 DEF OnceInv, Mentions, Once
  <2>9. IdleInv'
    BY <1>0, <1>3 DEF IdleInv, Reached
  <2> QED
    BY <2>7, <2>8, <2>9
<1> QED
  BY <1>2, <1>3

LEMMA ReceiveKeeps ==
    ASSUME WireOK, ServerInv, ForWhom, NEW c \in Conns, Receive(c)
    PROVE  ForWhom'
<1> DEFINE m == Head(up[c])
<1> USE DEF ForWhom
<1>0. /\ UNCHANGED <<link, down, job, stage, task>>
      /\ up[c] \in Seq(UpMessages) /\ up[c] # <<>>
      /\ up'[c] = Tail(up[c]) /\ \A d \in Conns : d # c => up'[d] = up[d]
  BY DEF Receive, WireOK
<1>1. /\ \A x : Has(up[c], x) <=> x = m \/ Has(up'[c], x)
      /\ \A s : Mentions(up[c], s) <=> s = m.id \/ Mentions(up'[c], s)
      /\ Once(up[c]) => Once(up'[c]) /\ (m.id # None => ~Mentions(up'[c], m.id))
  BY <1>0, Taken
<1>2. /\ \A s : Asked(s)' <=> Asked(s)
      /\ Stopping' <=> Stopping
      /\ Following' <=> Following
  BY <1>0, SameWork
<1>3. m \in UpMessages
  BY <1>0, Dequeue
<1>4. UNCHANGED <<pc, held, current, via>>
  BY DEF Receive, Server!Deliver, Server!AgentEnds
<1>5. OnceInv'
  <2>1. /\ \A d \in Conns : Once(up'[d])
        /\ \A d \in Conns, s \in Sessions : Mentions(up'[d], s) => Mentions(up[d], s)
    BY <1>0, <1>1 DEF OnceInv
  <2>2. \A d, e \in Conns, s \in Sessions : Mentions(up'[d], s) /\ Mentions(up'[e], s) => d = e
    BY <2>1 DEF OnceInv
  <2>3. \A s \in Sessions, d \in Conns : Asked(s)' => ~Mentions(up'[d], s)
    BY <1>2, <2>1 DEF OnceInv
  <2> QED
    BY <1>0, <2>1, <2>2, <2>3 DEF OnceInv, Once, Mentions
<1>6. IdleInv'
  BY <1>0 DEF IdleInv
<1>7. (Watched' <=> Watched) /\ (Reached' <=> Reached)
  BY <1>0, <1>4 DEF Watched, Reached
<1> SUFFICES ASSUME Reached PROVE WatchInv'
  BY <1>5, <1>6, <1>7 DEF WatchInv
<1>r. link \in Conns
  BY DEF IdleInv, Reached
<1> HIDE DEF m
<1>8. CASE m.type \in {"ok", "error"} /\ m.id # None /\ Awaited(m.id)
  <2>1. reply' = m.type
    BY <1>8 DEF Receive, Server!Deliver, m
  <2>2. PICK a \in Browsers : pc[a] = "starting" /\ held[a] = m.id
    BY <1>8 DEF Awaited
  <2>3. /\ \A b \in Browsers : pc[b] = "starting" => b = a
        /\ m.id \in Sessions
    BY <2>2, OneStarts
  <2>4. \A s \in Sessions : ~Asked(s)
    <3> SUFFICES ASSUME NEW s \in Sessions, Asked(s) PROVE FALSE
      OBVIOUS
    <3>1. s = m.id
      BY <2>2, <2>3 DEF WatchInv, Awaited
    <3> QED
      BY <1>1, <3>1 DEF OnceInv
  <2>5. CASE m.type = "ok"
    <3>1. Granted'
      BY <1>4, <2>1, <2>2, <2>5 DEF Granted
    <3> QED
      BY <1>2, <2>4, <3>1 DEF WatchInv
  <2>6. CASE m.type = "error"
    <3>1. ~Granted
      <4> SUFFICES ASSUME Granted PROVE FALSE
        OBVIOUS
      <4>1. Has(up[link], Reply("ok", m.id))
        BY <1>8, <2>2, <2>3 DEF Granted, Awaited
      <4>2. Reply("ok", m.id).type = "ok" /\ Reply("ok", m.id).id = m.id
        BY DEF Reply
      <4>3. Mentions(up[link], m.id) /\ Mentions(up[c], m.id)
        BY <1>1, <4>1, <4>2, HasMentions
      <4>4. c = link
        BY <1>r, <2>3, <4>3 DEF OnceInv
      <4>5. Has(up'[c], Reply("ok", m.id))
        BY <1>1, <2>6, <4>1, <4>2, <4>4
      <4>6. Mentions(up'[c], Reply("ok", m.id).id)
        BY <4>5, HasMentions
      <4> QED
        BY <1>1, <1>8, <4>2, <4>6 DEF OnceInv
    <3> QED
      BY <1>2, <1>7, <2>4, <3>1 DEF WatchInv
  <2> QED
    BY <1>8, <2>5, <2>6
<1>9. CASE ~(m.type \in {"ok", "error"} /\ m.id # None /\ Awaited(m.id))
  <2>1. UNCHANGED reply
    BY <1>9 DEF Receive, Server!AgentEnds, m
  <2>2. \A s : Awaited(s)' <=> Awaited(s)
    BY <1>4, <2>1 DEF Awaited
  <2>3. Granted => Granted'
    <3> SUFFICES ASSUME NEW b \in Browsers, pc[b] = "starting",
                        \/ reply = "ok"
                        \/ reply = "pending" /\ via = current /\ Has(up[link], Reply("ok", held[b]))
                 PROVE  Granted'
      BY DEF Granted
    <3>1. CASE reply = "ok" \/ c # link
      BY <1>0, <1>r, <1>4, <2>1, <3>1 DEF Granted, Has
    <3>2. CASE reply = "pending" /\ via = current /\ Has(up[link], Reply("ok", held[b])) /\ c = link
      <4>1. Awaited(held[b]) /\ held[b] # None
        BY <3>2, OneStarts, NoTaskAssumption DEF Awaited
      <4>2. m # Reply("ok", held[b])
        BY <1>9, <4>1 DEF Reply
      <4>3. Has(up'[link], Reply("ok", held[b]))
        BY <1>1, <3>2, <4>2
      <4> QED
        BY <1>0, <1>4, <2>1, <3>2, <4>3 DEF Granted, Has
    <3> QED
      BY <3>1, <3>2
  <2> QED
    BY <1>2, <1>7, <2>2, <2>3 DEF WatchInv
<1> QED
  BY <1>8, <1>9

LEMMA TakeStartKeeps ==
    ASSUME WireOK, ForWhom, TakeStart
    PROVE  ForWhom'
<1> DEFINE m == Head(down)
<1> USE DEF ForWhom
<1>0. /\ UNCHANGED <<up, task, link>> /\ UNCHANGED serverVars
      /\ down # <<>> /\ down' = Tail(down)
      /\ job = None /\ job' = m.id /\ stage' = "reading" /\ m.type = "start"
  BY DEF TakeStart
<1>1. /\ \A x : Has(down, x) <=> x = m \/ Has(down', x)
      /\ \A s : Mentions(down, s) <=> s = m.id \/ Mentions(down', s)
      /\ Once(down) => Once(down') /\ (m.id # None => ~Mentions(down', m.id))
  BY <1>0, Taken DEF WireOK
<1>2. m.id \in Sessions /\ m # Stop /\ m.id # None
  <2>1. m \in DownMessages
    BY <1>0, Dequeue DEF WireOK
  <2> QED
    BY <1>0, <2>1, NoTaskAssumption DEF DownMessages, Stop
<1> HIDE DEF m
<1>3. \A s \in Sessions : Asked(s)' => Asked(s)
  BY <1>0, <1>1 DEF Asked, Mentions
<1>4. OnceInv'
  <2>1. Once(down)'
    BY <1>0, <1>1 DEF OnceInv, Once
  <2>2. \A s \in Sessions : Mentions(down', s) => job' # s
    BY <1>0, <1>1, <1>2 DEF OnceInv
  <2>3. \A s \in Sessions, c \in Conns : Asked(s)' => ~Mentions(up[c], s)
    BY <1>3 DEF OnceInv
  <2> QED
    BY <1>0, <2>1, <2>2, <2>3 DEF OnceInv, Mentions, Once
<1>5. IdleInv'
  <2>1. link # None
    BY <1>0 DEF IdleInv
  <2> QED
    BY <1>0, <2>1 DEF IdleInv
<1>6. WatchInv'
  <2>1. (Following' => Following) /\ (Reached' <=> Reached)
    BY <1>0 DEF Following, Followers, Reached
  <2>2. Stopping => Stopping'
    BY <1>1, <1>2 DEF Stopping, Has
  <2>3. (Granted' <=> Granted) /\ (Watched' <=> Watched)
    BY <1>0 DEF Granted, Watched, Has
  <2>4. \A s : Awaited(s)' <=> Awaited(s)
    BY <1>0 DEF Awaited
  <2> QED
    BY <1>3, <2>1, <2>2, <2>3, <2>4 DEF WatchInv
<1> QED
  BY <1>4, <1>5, <1>6

\* A stop leaves no follower.
LEMMA TakeStopKeeps ==
    ASSUME WireOK, FollowInv, ForWhom, TakeStop
    PROVE  ForWhom'
<1> USE DEF ForWhom
<1>0. /\ UNCHANGED <<up, link, job, stage>> /\ UNCHANGED serverVars
      /\ down # <<>> /\ down' = Tail(down) /\ job = None
  BY DEF TakeStop
<1>1. /\ \A s : Mentions(down', s) => Mentions(down, s)
      /\ Once(down')
  BY <1>0, Taken DEF WireOK, OnceInv
<1>2. \A s \in Sessions : Asked(s)' => Asked(s)
  BY <1>0, <1>1 DEF Asked, Mentions
<1>3. OnceInv'
  BY <1>0, <1>1, <1>2 DEF OnceInv, Once, Mentions
<1>4. IdleInv'
  <2>1. link # None
    BY <1>0 DEF IdleInv
  <2> QED
    BY <1>0, <2>1 DEF IdleInv
<1>5. Followers' = {}
  BY NoTaskAssumption DEF TakeStop, FollowInv, Followers, TaskStates
<1>6. \A s : Awaited(s)' <=> Awaited(s)
  BY <1>0 DEF Awaited
<1>7. WatchInv'
  BY <1>0, <1>2, <1>5, <1>6 DEF WatchInv, Following, Reached
<1> QED
  BY <1>3, <1>4, <1>7

\* The agent answers the start it is in.
Answers(a) ==
    /\ HasRead /\ Up(Reply(a, job)) /\ stage' = "sent"
    /\ job' = IF a = "ok" THEN job ELSE None
    /\ UNCHANGED <<serverVars, link, down, task>>

LEMMA AnswerKeeps ==
    ASSUME WireOK, ServerInv, ForWhom, NEW a \in {"ok", "error"}, Answers(a)
    PROVE  ForWhom'
<1> DEFINE r == Reply(a, job)
<1> USE DEF ForWhom
<1>0. /\ job \in Sessions /\ job # None /\ Asked(job) /\ link \in Conns /\ link # None
      /\ stage' = "sent" /\ job' = (IF a = "ok" THEN job ELSE None)
      /\ UNCHANGED <<serverVars, link, down, task>>
  BY NoTaskAssumption DEF Answers, HasRead, WireOK, Asked, IdleInv
<1>u. /\ up[link] \in Seq(UpMessages) /\ up'[link] = Append(up[link], r)
      /\ \A d \in Conns : d # link => up'[d] = up[d]
  BY <1>0 DEF Answers, Up, WireOK
<1>1. r \in UpMessages /\ r.id = job
  BY <1>0, Alphabet DEF Reply
<1>2. (\A c \in Conns : ~Mentions(up[c], job)) /\ ~Mentions(down, job) /\ (Reached => Awaited(job))
  BY <1>0 DEF OnceInv, WatchInv, Answers, HasRead
<1>3. /\ \A x : Has(up'[link], x) <=> x = r \/ Has(up[link], x)
      /\ \A s : Mentions(up'[link], s) <=> s = job \/ Mentions(up[link], s)
      /\ Once(up'[link])
  BY <1>0, <1>u, <1>1, <1>2, Sent DEF OnceInv
<1>4. \A s \in Sessions : Asked(s)' => Asked(s) /\ s # job
  BY <1>0, <1>2 DEF Asked, Mentions
<1>5. OnceInv'
  <2>1. /\ \A c \in Conns : Once(up'[c])
        /\ \A c \in Conns, s \in Sessions :
              Mentions(up'[c], s) => Mentions(up[c], s) \/ (s = job /\ c = link)
    BY <1>u, <1>3 DEF OnceInv
  <2>2. \A c, d \in Conns, s \in Sessions : Mentions(up'[c], s) /\ Mentions(up'[d], s) => c = d
    BY <1>2, <2>1 DEF OnceInv
  <2>3. \A s \in Sessions : Mentions(down, s) => job' # s
    BY <1>0, NoTaskAssumption DEF OnceInv
  <2>4. \A s \in Sessions, c \in Conns : Asked(s)' => ~Mentions(up'[c], s)
    BY <1>4, <2>1 DEF OnceInv
  <2> QED
    BY <1>0, <2>1, <2>2, <2>3, <2>4 DEF OnceInv, Mentions, Once
<1>6. IdleInv'
  BY <1>0 DEF IdleInv
<1>7. WatchInv'
  <2>0. SUFFICES ASSUME Reached PROVE WatchInv'
    BY <1>0 DEF WatchInv, Reached
  <2>1. \A s : Awaited(s)' <=> Awaited(s)
    BY <1>0 DEF Awaited
  <2>2. (Watched' <=> Watched) /\ (Stopping' <=> Stopping)
    BY <1>0 DEF Watched, Stopping, Has
  <2>3. Granted => Granted'
    BY <1>0, <1>3 DEF Granted, Has
  <2>4. CASE a = "ok"
    <3>1. Granted'
      BY <1>0, <1>2, <1>3, <2>0, <2>4 DEF Awaited, Granted, Has
    <3> QED
      BY <1>4, <2>0, <2>1, <3>1 DEF WatchInv
  <2>5. CASE a = "error"
    <3>1. Following' => Following
      BY <1>0, <2>5 DEF Following, Followers
    <3> QED
      BY <1>4, <2>0, <2>1, <2>2, <2>3, <3>1 DEF WatchInv
  <2> QED
    BY <2>4, <2>5
<1> QED
  BY <1>5, <1>6, <1>7

\* A follower that moves, or that the start it is for has created, is there for
\* the browser that start was for; what it sends is about no session.
TaskMoves ==
    /\ link # None
    /\ \/ job' = job
       \/ stage = "sent" /\ job' = None
    /\ UNCHANGED up \/ Up(Ended("error")) \/ Up(Ended("closed"))
    /\ Following' => Following
    /\ UNCHANGED <<serverVars, link, down, stage>>

LEMMA TaskKeeps == WireOK /\ ForWhom /\ TaskMoves => ForWhom'
<1> SUFFICES ASSUME WireOK, ForWhom, TaskMoves PROVE ForWhom'
  OBVIOUS
<1> USE DEF ForWhom
<1> DEFINE UpGrows(c) == /\ \A s : s # None => (Mentions(up'[c], s) <=> Mentions(up[c], s))
                         /\ \A x : Has(up[c], x) => Has(up'[c], x)
                         /\ Once(up'[c])
<1>0. /\ link \in Conns /\ link # None /\ UNCHANGED <<serverVars, link, down, stage>>
      /\ job' = job \/ (stage = "sent" /\ job' = None)
      /\ Following' => Following
  BY DEF TaskMoves, IdleInv
<1>1. ASSUME NEW c \in Conns PROVE UpGrows(c)
  <2>1. CASE up'[c] = up[c]
    BY <2>1 DEF OnceInv
  <2>2. ASSUME NEW how \in {"error", "closed"}, up'[c] = Append(up[c], Ended(how))
        PROVE  UpGrows(c)
    <3>1. Ended(how) \in UpMessages /\ Ended(how).id = None /\ up[c] \in Seq(UpMessages)
      BY Alphabet DEF Ended, WireOK
    <3> QED
      BY <2>2, <3>1, Sent DEF OnceInv
  <2>3. up'[c] = up[c] \/ \E how \in {"error", "closed"} : up'[c] = Append(up[c], Ended(how))
    BY DEF TaskMoves, Up, WireOK
  <2> QED
    BY <2>1, <2>2, <2>3
<1>2. \A s \in Sessions : Asked(s)' => Asked(s)
  BY <1>0, NoTaskAssumption DEF Asked, Mentions
<1>3. OnceInv'
  <2>1. \A c \in Conns, s \in Sessions : Mentions(up'[c], s) <=> Mentions(up[c], s)
    BY <1>1, NoTaskAssumption
  <2>2. (\A c \in Conns : Once(up'[c])) /\ Once(down)
    BY <1>1 DEF OnceInv
  <2>3. \A s \in Sessions : Mentions(down, s) => job' # s
    BY <1>0, NoTaskAssumption DEF OnceInv
  <2>4. \A c, d \in Conns, s \in Sessions : Mentions(up'[c], s) /\ Mentions(up'[d], s) => c = d
    BY <2>1 DEF OnceInv
  <2>5. \A s \in Sessions, c \in Conns : Asked(s)' => ~Mentions(up'[c], s)
    BY <1>2, <2>1 DEF OnceInv
  <2> QED
    BY <1>0, <2>2, <2>3, <2>4, <2>5 DEF OnceInv, Mentions, Once
<1>4. IdleInv'
  BY <1>0 DEF IdleInv
<1>5. WatchInv'
  <2>1. \A s : Awaited(s)' <=> Awaited(s)
    BY <1>0 DEF Awaited
  <2>2. (Watched' <=> Watched) /\ (Stopping' <=> Stopping) /\ (Reached' <=> Reached)
    BY <1>0 DEF Watched, Stopping, Has, Reached
  <2>3. Granted => Granted'
    BY <1>0, <1>1 DEF Granted, Has
  <2> QED
    BY <1>0, <1>2, <2>1, <2>2, <2>3 DEF WatchInv
<1> QED
  BY <1>3, <1>4, <1>5

LEMMA ForWhomStep ==
    ASSUME "timeout" \notin Faults,
           WireOK, ServerInv, FollowInv, ForWhom, [Next]_vars
    PROVE  ForWhom'
<1>1. ASSUME NEW b \in Browsers, Handle(b) PROVE ForWhom'
  <2>1. WatchInv'
    BY <1>1, HandleKeeps DEF ForWhom
  <2>2. UNCHANGED <<netVars, agentVars>>
    BY <1>1 DEF Handle
  <2>3. OnceInv' /\ IdleInv'
    BY <2>2, SameOnce DEF ForWhom, IdleInv
  <2> QED
    BY <2>1, <2>3 DEF ForWhom
<1>2. ASSUME NEW b \in Browsers, SendStop(b) PROVE ForWhom'
  BY <1>2, SendStopKeeps
<1>3. ASSUME NEW b \in Browsers, NEW s \in Sessions, SendStart(b, s) PROVE ForWhom'
  BY <1>3, SendStartKeeps
<1>4. CASE RequestTimesOut
  BY <1>4 DEF RequestTimesOut
<1>5. ASSUME NEW c \in Conns, Receive(c) PROVE ForWhom'
  BY <1>5, ReceiveKeeps
\* whichever handler ends, what the server sends no longer gets there
<1>6. ASSUME NEW c \in Conns, ServerDisconnects(c) PROVE ForWhom'
  <2>1. /\ UNCHANGED <<link, down, job, stage, task>> /\ current' = None
        /\ up'[c] = <<>> /\ \A d \in Conns : d # c => up'[d] = up[d]
    BY <1>6 DEF ServerDisconnects, Server!Disconnect, WireOK
  <2>2. \A s : Asked(s)' <=> Asked(s)
    BY <2>1, SameWork
  <2>3. /\ \A d \in Conns : Once(up'[d])
        /\ \A d \in Conns, s \in Sessions : Mentions(up'[d], s) => Mentions(up[d], s)
    BY <2>1, EmptyChannel DEF ForWhom, OnceInv
  <2>4. OnceInv'
    BY <2>1, <2>2, <2>3 DEF ForWhom, OnceInv, Once, Mentions
  <2>5. IdleInv' /\ ~Reached'
    BY <2>1 DEF ForWhom, IdleInv, Reached
  <2> QED
    BY <2>4, <2>5 DEF ForWhom, WatchInv
<1>7. ASSUME NEW c \in Conns, Reconnect(c) PROVE ForWhom'
  <2>1. UNCHANGED <<up, down, job, stage, task>> /\ link = None /\ link' = c
    BY <1>7 DEF Reconnect
  <2>2. OnceInv' /\ IdleInv'
    BY <2>1, SameOnce, NoTaskAssumption DEF ForWhom, IdleInv
  <2>3. (\A s \in Sessions : ~Asked(s)') /\ ~Following'
    BY <2>1, SameWork, NoLink DEF ForWhom
  <2> QED
    BY <2>2, <2>3 DEF ForWhom, WatchInv
<1>8. CASE Lose
  <2>1. /\ UNCHANGED up /\ link' = None /\ down' = <<>>
        /\ job' = None /\ stage' = "sent" /\ \A t \in Tasks : task'[t] = "none"
    BY <1>8 DEF Lose
  <2>2. IdleInv' /\ ~Reached'
    BY <2>1 DEF IdleInv, Reached
  <2>3. \A s \in Sessions : ~Asked(s)'
    BY <2>1, EmptyChannel DEF Asked, Mentions
  <2>4. OnceInv'
    BY <2>1, <2>3, EmptyChannel DEF ForWhom, OnceInv, Once, Mentions
  <2> QED
    BY <2>2, <2>4 DEF ForWhom, WatchInv
<1>9. CASE TakeStart
  BY <1>9, TakeStartKeeps
<1>10. CASE ReadFails \/ SendBackfill
  <2>1. Answers("error") \/ Answers("ok")
    BY <1>10 DEF ReadFails, SendBackfill, Answers
  <2> QED
    BY <2>1, AnswerKeeps
<1>12. CASE TakeStop
  BY <1>12, TakeStopKeeps
<1>13. ASSUME NEW t \in Tasks, FollowOne(t) PROVE ForWhom'
  <2>1. job # None /\ stage = "sent"
    BY <1>13 DEF FollowOne
  <2>2. link # None /\ Following
    BY <2>1 DEF ForWhom, IdleInv, Following
  <2>3. TaskMoves
    BY <1>13, <2>2 DEF FollowOne, TaskMoves
  <2> QED
    BY <2>3, TaskKeeps
<1>14. ASSUME NEW t \in Tasks, Begin(t) \/ Fail(t) \/ Finish(t) PROVE ForWhom'
  <2>1. link # None
    BY <1>14 DEF Begin, Fail, Finish, ForWhom, IdleInv
  <2>2. Following' => Following
    <3>1. task \in [Tasks -> TaskStates]
      BY DEF FollowInv
    <3>2. \A u \in Tasks : task'[u] \in {"created", "running"} => task[u] \in {"created", "running"}
      BY <1>14, <3>1 DEF Begin, Fail, Finish
    <3> QED
      BY <1>14, <3>2 DEF Following, Followers, Begin, Fail, Finish
  <2>3. UNCHANGED up \/ Up(Ended("error")) \/ Up(Ended("closed"))
    BY <1>14 DEF Begin, Fail, Finish, Up
  <2>4. UNCHANGED <<serverVars, link, down, stage>> /\ job' = job
    BY <1>14 DEF Begin, Fail, Finish
  <2>5. TaskMoves
    BY <2>1, <2>2, <2>3, <2>4 DEF TaskMoves
  <2> QED
    BY <2>5, TaskKeeps
<1>15. CASE UNCHANGED vars
  BY <1>15 DEF vars, ForWhom, OnceInv, IdleInv, WatchInv, Once, Mentions, Asked, Following,
       Followers, Stopping, Has, Granted, Watched, Awaited, Reached
<1> QED
  BY <1>1, <1>2, <1>3, <1>4, <1>5, <1>6, <1>7, <1>8, <1>9, <1>10, <1>12,
     <1>13, <1>14, <1>15 DEF Next, ServerNext, AgentNext

\* When nothing is in flight, what runs on the agent is watched in a browser
\* (dispatch.py 5-8, manager.py 61-67), whatever connections are lost, replaced or
\* detached, starts refused and followers over, as long as the server can reach it.
\* Both conditions are needed: a request that times out on the server is still carried
\* out by the agent, and a task that outlives its stop takes the registration of the
\* next one with it.
THEOREM OnlyWatched ==
    ASSUME "timeout" \notin Faults, "overtake" \notin Faults
    PROVE  Spec => []OnlyWatchedIsFollowed
<1>1. Init => FollowInv /\ ForWhom
  <2> SUFFICES ASSUME Init PROVE FollowInv /\ ForWhom
    OBVIOUS
  <2>1. FollowInv /\ IdleInv /\ Followers = {}
    BY DEF Init, FollowInv, CleaningUp, TaskStates, IdleInv, Followers
  <2>2. (\A c \in Conns : up[c] = <<>>) /\ down = <<>> /\ job = None
    BY DEF Init
  <2>3. OnceInv /\ WatchInv
    BY <2>1, <2>2, EmptyChannel, NoTaskAssumption DEF OnceInv, WatchInv, Asked, Following
  <2> QED
    BY <2>1, <2>3 DEF ForWhom
<1>2. FollowInv /\ [Next]_vars => FollowInv'
  BY FollowStep
<1>3. WireOK /\ ServerInv /\ FollowInv /\ ForWhom /\ [Next]_vars => ForWhom'
  BY ForWhomStep
<1>4. ServerInv /\ ForWhom => OnlyWatchedIsFollowed
  <2> SUFFICES ASSUME ServerInv, ForWhom, Quiet, \A b \in Browsers : pc[b] # "subscribed"
               PROVE  Followers = {}
    BY DEF OnlyWatchedIsFollowed, Unwatched
  <2>0. Reached /\ lockQueue = <<>> /\ down = <<>> /\ reply = "none"
    BY DEF Quiet, AtRest, Reached
  <2>1. ~Stopping
    BY <2>0, EmptyChannel DEF Stopping
  <2>2. ~Granted
    BY <2>0 DEF Granted
  <2>3. ~Watched
    BY <2>0 DEF ServerInv, Watched
  <2> QED
    BY <2>0, <2>1, <2>2, <2>3 DEF ForWhom, WatchInv, Following
<1> QED
  BY <1>1, <1>2, <1>3, <1>4, WireInvariant, ServerInvariant, PTL DEF Spec

=============================================================================
