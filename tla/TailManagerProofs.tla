------------------------- MODULE TailManagerProofs -------------------------
(***************************************************************************)
(* What TailManager guarantees for any number of browsers and sessions.    *)
(* The inductive invariant has three parts, each proved from the previous  *)
(* ones: who is in the lock's queue (LockInv), who is counted where        *)
(* (RefInv), and what a browser can rely on (SessionInv).                  *)
(***************************************************************************)
EXTENDS TailManager, FiniteSetTheorems, TLAPS

InQueue(b) == \E i \in 1..Len(lockQueue) : lockQueue[i] = b

\* A handler is in the queue of the lock exactly while it waits for the lock
\* or holds it, once, and only its head is inside the critical section.
LockInv ==
    /\ \A i, j \in 1..Len(lockQueue) : lockQueue[i] = lockQueue[j] => i = j
    /\ \A b \in Browsers :
          pc[b] \in {"subWait", "starting", "unsubWait", "stopping"} <=> InQueue(b)
    /\ \A b \in Browsers : pc[b] \in {"starting", "stopping"} => Holds(b)

RefInv ==
    /\ RefCount
    /\ \A s \in Sessions :
          subscribers[s] = {b \in Browsers : held[b] = s /\ pc[b] = "subscribed"}
    \* a session being started or stopped has no viewer
    /\ \A a, b \in Browsers :
          pc[a] \in {"starting", "stopping"} /\ a # b => held[a] # held[b]

SessionInv ==
    /\ NoSilentHang
    \* the session being started is the registered one
    /\ \A b \in Browsers : pc[b] = "starting" => held[b] = registered
    \* someone is responsible for the registered session
    /\ registered # None => \E b \in Browsers : held[b] = registered
    \* an answer is awaited by one handler, and the handler of the connection that
    \* brought it has still to detach
    /\ reply # "none" <=> \E b \in Browsers : pc[b] = "starting"
    /\ reply \in {"ok", "error"} => via \in handlers
    \* an absent agent has no live session, and browsers know of a dead one
    /\ handlers = {} /\ registered # None => status[registered] \in Dead
    /\ registered # None /\ status[registered] \in Dead
          => subscribers[registered] \subseteq ended

IInv == TypeOK /\ LockInv /\ RefInv /\ SessionInv

-----------------------------------------------------------------------------
(* The lock's queue *)

\* Appending a newcomer keeps the queue free of repetitions and its head.
LEMMA AppendQueue ==
    ASSUME NEW S, NEW q \in Seq(S), NEW x \in S,
           \A i, j \in 1..Len(q) : q[i] = q[j] => i = j,
           \A i \in 1..Len(q) : q[i] # x
    PROVE  /\ Append(q, x) \in Seq(S)
           /\ \A i, j \in 1..Len(Append(q, x)) :
                 Append(q, x)[i] = Append(q, x)[j] => i = j
           /\ \A y : (\E i \in 1..Len(Append(q, x)) : Append(q, x)[i] = y)
                        <=> y = x \/ \E i \in 1..Len(q) : q[i] = y
           /\ Append(q, x) # <<>>
           /\ q # <<>> => Head(Append(q, x)) = Head(q)
<1> DEFINE a == Append(q, x)
<1>1. a \in Seq(S) /\ Len(a) = Len(q) + 1 /\ Len(q) \in Nat
  OBVIOUS
<1>2. \A i \in 1..Len(q) : a[i] = q[i]
  OBVIOUS
<1>3. a[Len(q) + 1] = x
  OBVIOUS
<1>4. a # <<>> /\ (q # <<>> => Head(a) = Head(q))
  BY <1>1, <1>2
<1> QED
  BY <1>1, <1>2, <1>3, <1>4

\* Releasing removes the holder and nobody else.
LEMMA TailQueue ==
    ASSUME NEW S, NEW q \in Seq(S), q # <<>>,
           \A i, j \in 1..Len(q) : q[i] = q[j] => i = j
    PROVE  /\ Tail(q) \in Seq(S)
           /\ \A i, j \in 1..Len(Tail(q)) : Tail(q)[i] = Tail(q)[j] => i = j
           /\ \A y : (\E i \in 1..Len(Tail(q)) : Tail(q)[i] = y)
                        <=> y # Head(q) /\ \E i \in 1..Len(q) : q[i] = y
<1> DEFINE t == Tail(q)
<1>1. t \in Seq(S) /\ Len(t) = Len(q) - 1 /\ Len(q) \in Nat \ {0}
  OBVIOUS
<1>2. \A i \in 1..Len(t) : t[i] = q[i + 1]
  OBVIOUS
<1>3. Head(q) = q[1]
  OBVIOUS
<1>4. ASSUME NEW i \in 1..Len(q), i # 1 PROVE i - 1 \in 1..Len(t) /\ t[i - 1] = q[i]
  <2> HIDE DEF t
  <2>1. i - 1 \in 1..Len(t) /\ (i - 1) + 1 = i
    BY <1>1, <1>4
  <2>2. t[i - 1] = q[(i - 1) + 1]
    BY <1>2, <2>1
  <2> QED
    BY <2>1, <2>2
<1>5. \A y : (\E i \in 1..Len(t) : t[i] = y)
                 => y # Head(q) /\ \E i \in 1..Len(q) : q[i] = y
  BY <1>1, <1>2, <1>3
<1>6. \A y : y # Head(q) /\ (\E i \in 1..Len(q) : q[i] = y)
                 => \E i \in 1..Len(t) : t[i] = y
  BY <1>1, <1>3, <1>4
<1> QED
  BY <1>1, <1>2, <1>5, <1>6

LEMMA ViewersFinite == \A s : IsFiniteSet(Viewers(s)) /\ IsFiniteSet(Viewers(s)')
<1> QED
  BY BrowsersFinite, FS_Subset DEF Viewers

-----------------------------------------------------------------------------
(* Types *)

LEMMA InitIInv == Init => IInv
<1> SUFFICES ASSUME Init PROVE IInv
  OBVIOUS
<1>1. TypeOK
  <2>1. <<>> \in Seq(Browsers)
    OBVIOUS
  <2> QED
    BY <2>1, NoneAssumption DEF Init, TypeOK, Status, Dead, Places, Replies
<1>4. LockInv
  BY DEF Init, LockInv, InQueue
<1>5. SessionInv
  BY DEF Init, SessionInv, NoSilentHang
<1>2. \A s \in Sessions : Viewers(s) = {}
  BY DEF Init, Viewers
<1>3. RefInv
  BY <1>2, FS_EmptySet DEF Init, RefInv, RefCount
<1> QED
  BY <1>1, <1>3, <1>4, <1>5 DEF IInv

LEMMA TypeStep == TypeOK /\ LockInv /\ [Next]_vars => TypeOK'
<1> USE NoneAssumption DEF TypeOK, Status, Dead, Places, Replies, requestVars, connVars, online,
        NoRequest
<1> SUFFICES ASSUME TypeOK, LockInv, [Next]_vars PROVE TypeOK'
  OBVIOUS
<1>0. lockQueue # <<>> => Tail(lockQueue) \in Seq(Browsers)
  OBVIOUS
<1>1. ASSUME NEW b \in Browsers, SubscribeCall(b) \/ UnsubscribeCall(b) PROVE TypeOK'
  <2>0. Append(lockQueue, b) \in Seq(Browsers)
    OBVIOUS
  <2>1. CASE SubscribeCall(b)
    BY <2>0, <2>1 DEF SubscribeCall, Goto
  <2>2. CASE UnsubscribeCall(b)
    BY <2>0, <2>2 DEF UnsubscribeCall, Goto
  <2> QED
    BY <1>1, <2>1, <2>2
<1>2. ASSUME NEW b \in Browsers, Resume(b) PROVE TypeOK'
  <2>1. CASE Join(b)
    BY <2>1, <1>0 DEF Join, Attach, Goto, Release, Holds, Reusable
  <2>2. CASE \E s \in Sessions : Create(b, s)
    BY <2>2 DEF Create, Goto
  <2>3. CASE CreateOffline(b)
    BY <2>3, <1>0 DEF CreateOffline, Goto, Release, Holds
  <2>4. CASE StartOk(b)
    <3>1. held[b] \in Sessions /\ lockQueue # <<>>
      BY <2>4 DEF StartOk, LockInv, Holds
    <3>2. count' \in [Sessions -> Nat] /\ subscribers' \in [Sessions -> SUBSET Browsers]
      BY <2>4, <3>1 DEF StartOk, Attach
    <3>3. /\ held' \in [Browsers -> Sessions \cup {None}] /\ pc' \in [Browsers -> Places]
          /\ \A a \in Browsers : held'[a] = None <=> pc'[a] \in {"idle", "subWait"}
      BY <2>4, <3>1 DEF StartOk, Attach, Goto
    <3> QED
      BY <2>4, <3>1, <3>2, <3>3, <1>0 DEF StartOk, Attach, Release
  <2>5. CASE StartFail(b)
    BY <2>5, <1>0 DEF StartFail, Goto, Release, LockInv, Holds
  <2>6. CASE Leave(b) \/ LeaveLast(b) \/ LeaveLastOffline(b)
    <3>1. \A n \in Nat : MinusOne(n) \in Nat
      BY DEF MinusOne
    <3>2. CASE Leave(b)
      BY <3>1, <3>2, <1>0 DEF Leave, Done, Goto, Release, Holds
    <3>3. CASE LeaveLast(b)
      BY <3>1, <3>3 DEF LeaveLast, Goto
    <3>4. CASE LeaveLastOffline(b)
      BY <3>1, <3>4, <1>0 DEF LeaveLastOffline, Unregister, Done, Goto, Release, Holds
    <3> QED
      BY <2>6, <3>2, <3>3, <3>4
  <2>7. CASE StopSent(b)
    BY <2>7, <1>0 DEF StopSent, Done, Unregister, Goto, Release, LockInv, Holds
  <2> QED
    BY <1>2, <2>1, <2>2, <2>3, <2>4, <2>5, <2>6, <2>7 DEF Resume
<1>3. CASE \E how \in Dead : AgentEnds(how)
  BY <1>3 DEF AgentEnds, EndRegistered
<1>4. CASE (\E answer \in {"ok", "error"} : Deliver(answer)) \/ TimeOut
  BY <1>4 DEF Deliver, TimeOut
<1>5. ASSUME NEW c \in Conns, Connect(c) \/ Disconnect(c) PROVE TypeOK'
  BY <1>5 DEF Connect, Disconnect, EndRegistered
<1>6. CASE UNCHANGED vars
  BY <1>6 DEF vars
<1> QED
  BY <1>1, <1>2, <1>3, <1>4, <1>5, <1>6 DEF Next

-----------------------------------------------------------------------------
(* The lock *)

Waiting == {"subWait", "unsubWait"}
Inside == {"starting", "stopping"}

\* A handler outside the queue joins it and waits.
LEMMA LockEnqueue ==
    ASSUME TypeOK, LockInv, NEW b \in Browsers, pc[b] \in {"idle", "subscribed"},
           lockQueue' = Append(lockQueue, b),
           NEW place \in Waiting, pc' = [pc EXCEPT ![b] = place]
    PROVE  LockInv'
<1>1. lockQueue \in Seq(Browsers) /\ pc \in [Browsers -> Places]
  BY DEF TypeOK
<1>2. \A i \in 1..Len(lockQueue) : lockQueue[i] # b
  BY <1>1 DEF LockInv, InQueue
<1>3. \A i, j \in 1..Len(lockQueue) : lockQueue[i] = lockQueue[j] => i = j
  BY DEF LockInv
<1>4. /\ \A i, j \in 1..Len(lockQueue') : lockQueue'[i] = lockQueue'[j] => i = j
      /\ \A y : (\E i \in 1..Len(lockQueue') : lockQueue'[i] = y)
                   <=> y = b \/ \E i \in 1..Len(lockQueue) : lockQueue[i] = y
      /\ lockQueue' # <<>>
      /\ lockQueue # <<>> => Head(lockQueue') = Head(lockQueue)
  BY <1>1, <1>2, <1>3, AppendQueue
<1>5. \A y \in Browsers : InQueue(y)' <=> y = b \/ InQueue(y)
  BY <1>4 DEF InQueue
<1>6. \A y \in Browsers : pc'[y] = IF y = b THEN place ELSE pc[y]
  BY <1>1
<1>7. \A y \in Browsers : Holds(y) => Holds(y)'
  BY <1>4 DEF Holds
<1> QED
  BY <1>4, <1>5, <1>6, <1>7 DEF LockInv, Waiting

\* The holder releases the lock and leaves the critical section.
LEMMA LockRelease ==
    ASSUME TypeOK, LockInv, NEW b \in Browsers, Holds(b), Release,
           NEW place \in {"idle", "subscribed"}, pc' = [pc EXCEPT ![b] = place]
    PROVE  LockInv'
<1>1. lockQueue \in Seq(Browsers) /\ pc \in [Browsers -> Places]
  BY DEF TypeOK
<1>2. \A i, j \in 1..Len(lockQueue) : lockQueue[i] = lockQueue[j] => i = j
  BY DEF LockInv
<1>3. /\ \A i, j \in 1..Len(lockQueue') : lockQueue'[i] = lockQueue'[j] => i = j
      /\ \A y : (\E i \in 1..Len(lockQueue') : lockQueue'[i] = y)
                   <=> y # b /\ \E i \in 1..Len(lockQueue) : lockQueue[i] = y
  BY <1>1, <1>2, TailQueue DEF Holds, Release
<1>4. \A y \in Browsers : InQueue(y)' <=> y # b /\ InQueue(y)
  BY <1>3 DEF InQueue
<1>5. \A y \in Browsers : pc'[y] = IF y = b THEN place ELSE pc[y]
  BY <1>1
<1>6. \A y \in Browsers : y # b => pc[y] \notin Inside
  BY DEF LockInv, Holds, Inside
<1> QED
  BY <1>3, <1>4, <1>5, <1>6 DEF LockInv, Inside

\* The holder stays inside.
LEMMA LockKeep ==
    ASSUME TypeOK, LockInv, NEW b \in Browsers, Holds(b), pc[b] \in Waiting,
           UNCHANGED lockQueue,
           NEW place \in Inside, pc' = [pc EXCEPT ![b] = place]
    PROVE  LockInv'
<1>1. \A y \in Browsers : pc'[y] = IF y = b THEN place ELSE pc[y]
  BY DEF TypeOK
<1>2. \A y \in Browsers : (InQueue(y)' <=> InQueue(y)) /\ (Holds(y)' <=> Holds(y))
  BY DEF InQueue, Holds
<1> QED
  BY <1>1, <1>2 DEF LockInv, Waiting, Inside

LEMMA LockStep == TypeOK /\ LockInv /\ [Next]_vars => LockInv'
<1> SUFFICES ASSUME TypeOK, LockInv, [Next]_vars PROVE LockInv'
  OBVIOUS
<1>1. ASSUME NEW b \in Browsers, SubscribeCall(b) \/ UnsubscribeCall(b) PROVE LockInv'
  BY <1>1, LockEnqueue DEF SubscribeCall, UnsubscribeCall, Goto, Waiting
<1>2. ASSUME NEW b \in Browsers, Resume(b) PROVE LockInv'
  <2>0. pc[b] \in Inside => Holds(b)
    BY DEF LockInv, Inside
  <2>1. CASE Join(b)
    BY <2>1, LockRelease DEF Join, Attach, Goto
  <2>2. CASE \E s \in Sessions : Create(b, s)
    BY <2>2, LockKeep DEF Create, Goto, Waiting, Inside
  <2>3. CASE CreateOffline(b)
    BY <2>3, LockRelease DEF CreateOffline, Goto
  <2>4. CASE StartOk(b)
    BY <2>0, <2>4, LockRelease DEF StartOk, Attach, Goto, Inside
  <2>5. CASE StartFail(b)
    BY <2>0, <2>5, LockRelease DEF StartFail, Goto, Inside
  <2>6. CASE LeaveLast(b)
    BY <2>6, LockKeep DEF LeaveLast, Goto, Waiting, Inside
  <2>7. CASE Leave(b) \/ LeaveLastOffline(b)
    BY <2>7, LockRelease DEF Leave, LeaveLastOffline, Done, Goto
  <2>8. CASE StopSent(b)
    BY <2>0, <2>8, LockRelease DEF StopSent, Done, Goto, Inside
  <2> QED
    BY <1>2, <2>1, <2>2, <2>3, <2>4, <2>5, <2>6, <2>7, <2>8 DEF Resume
<1>3. ASSUME UNCHANGED <<lockQueue, pc>> PROVE LockInv'
  BY <1>3 DEF LockInv, InQueue, Holds
<1>4. CASE \/ (\E how \in Dead : AgentEnds(how))
           \/ (\E answer \in {"ok", "error"} : Deliver(answer))
           \/ TimeOut \/ (\E c \in Conns : Connect(c) \/ Disconnect(c))
           \/ UNCHANGED vars
  BY <1>3, <1>4 DEF AgentEnds, Deliver, TimeOut, Connect, Disconnect, vars
<1> QED
  BY <1>1, <1>2, <1>4 DEF Next

-----------------------------------------------------------------------------
(* The reference counts *)

\* One handler moves; it becomes a viewer of its session, or stops being one.
LEMMA ViewersStep ==
    ASSUME TypeOK, NEW b \in Browsers, NEW place, NEW h,
           pc' = [pc EXCEPT ![b] = place], held' = [held EXCEPT ![b] = h]
    PROVE  \A s : Viewers(s)' =
              IF h = s /\ place \in {"subscribed", "unsubWait"}
              THEN Viewers(s) \cup {b} ELSE Viewers(s) \ {b}
<1>1. \A y \in Browsers : /\ pc'[y] = IF y = b THEN place ELSE pc[y]
                          /\ held'[y] = IF y = b THEN h ELSE held[y]
  BY DEF TypeOK
<1> QED
  BY <1>1 DEF Viewers

\* A newcomer is counted once.
LEMMA CountAttach ==
    ASSUME TypeOK, RefCount, NEW b \in Browsers, NEW s \in Sessions,
           pc[b] \in {"subWait", "starting"}, Attach(b, s)
    PROVE  RefCount'
<1>0. pc' = [pc EXCEPT ![b] = "subscribed"] /\ held' = [held EXCEPT ![b] = s]
  BY DEF Attach, Goto
<1>1. \A t : Viewers(t)' = IF t = s THEN Viewers(t) \cup {b} ELSE Viewers(t) \ {b}
  BY <1>0 DEF Viewers, TypeOK
<1>2. \A t : b \notin Viewers(t)
  BY DEF Viewers
<1>3. Cardinality(Viewers(s) \cup {b}) = Cardinality(Viewers(s)) + 1
  BY <1>2, FS_AddElement, ViewersFinite
<1>4. \A t \in Sessions : count'[t] = IF t = s THEN count[t] + 1 ELSE count[t]
  BY DEF Attach, TypeOK
<1>5. \A t : t # s => Viewers(t)' = Viewers(t)
  BY <1>1, <1>2
<1> QED
  BY <1>1, <1>3, <1>4, <1>5 DEF RefCount

\* A leaver is uncounted once, and the clamp at zero has no effect.
LEMMA CountDetach ==
    ASSUME TypeOK, RefCount, NEW b \in Browsers, pc[b] = "unsubWait",
           count' = [count EXCEPT ![held[b]] = MinusOne(@)],
           NEW h \in {held[b], None}, held' = [held EXCEPT ![b] = h],
           NEW place \in {"idle", "stopping"}, pc' = [pc EXCEPT ![b] = place]
    PROVE  RefCount' /\ MinusOne(count[held[b]]) = count[held[b]] - 1
<1> DEFINE s == held[b]
<1>0. s \in Sessions
  BY DEF TypeOK
<1>1. \A t : Viewers(t)' = Viewers(t) \ {b}
  BY ViewersStep
<1>2. \A t : b \in Viewers(t) <=> t = s
  BY DEF Viewers
<1>3. Cardinality(Viewers(s) \ {b}) = Cardinality(Viewers(s)) - 1
  BY <1>2, FS_RemoveElement, ViewersFinite
<1>4. Cardinality(Viewers(s)) \in Nat /\ Cardinality(Viewers(s) \ {b}) \in Nat
  BY FS_CardinalityType, FS_RemoveElement, ViewersFinite
<1>5. MinusOne(count[s]) = Cardinality(Viewers(s) \ {b})
  BY <1>0, <1>3, <1>4 DEF RefCount, MinusOne
<1>6. \A t \in Sessions : count'[t] = IF t = s THEN MinusOne(count[t]) ELSE count[t]
  BY DEF TypeOK
<1>7. \A t : t # s => Viewers(t)' = Viewers(t)
  BY <1>1, <1>2
<1>8. RefCount'
  <2>1. ASSUME NEW t \in Sessions PROVE count'[t] = Cardinality(Viewers(t)')
    <3>1. CASE t = s
      BY <1>1, <1>5, <1>6, <3>1
    <3>2. CASE t # s
      BY <1>6, <1>7, <3>2 DEF RefCount
    <3> QED
      BY <3>1, <3>2
  <2> QED
    BY <2>1 DEF RefCount
<1> QED
  BY <1>0, <1>3, <1>5, <1>8 DEF RefCount

LEMMA RefStep == TypeOK /\ LockInv /\ RefInv /\ [Next]_vars => RefInv'
<1> SUFFICES ASSUME TypeOK, LockInv, RefInv, [Next]_vars PROVE RefInv'
  OBVIOUS
<1> USE DEF TypeOK
<1>0. \A a, b \in Browsers : pc[a] \in Inside /\ Holds(b) => a = b
  BY DEF LockInv, Holds, Inside
<1>1. ASSUME NEW b \in Browsers, SubscribeCall(b) PROVE RefInv'
  <2>1. \A s : Viewers(s)' = Viewers(s)
    BY <1>1 DEF SubscribeCall, Goto, Viewers
  <2> QED
    BY <1>1, <2>1 DEF SubscribeCall, Goto, RefInv, RefCount
<1>2. ASSUME NEW b \in Browsers, UnsubscribeCall(b) PROVE RefInv'
  <2>1. \A s : Viewers(s)' = Viewers(s)
    BY <1>2 DEF UnsubscribeCall, Goto, Viewers
  <2> QED
    BY <1>2, <2>1 DEF UnsubscribeCall, Goto, RefInv, RefCount
<1>3. ASSUME NEW b \in Browsers, Join(b) PROVE RefInv'
  <2>1. RefCount'
    BY <1>3, CountAttach DEF Join, Reusable, RefInv
  <2>2. \A a \in Browsers : pc[a] \notin Inside
    BY <1>0, <1>3 DEF Join, Inside
  <2> QED
    BY <1>3, <2>1, <2>2 DEF Join, Reusable, Attach, Goto, RefInv, Inside
<1>4. ASSUME NEW b \in Browsers, NEW s \in Sessions, Create(b, s) PROVE RefInv'
  <2>1. \A t : Viewers(t)' = Viewers(t)
    BY <1>4 DEF Create, Fresh, Goto, Viewers
  <2>2. Viewers(s) = {}
    BY <1>4 DEF Create, Fresh, Viewers
  <2>3. RefCount'
    BY <1>4, <2>1, <2>2, FS_EmptySet DEF Create, RefInv, RefCount
  <2>4. \A a \in Browsers : pc[a] \notin Inside
    BY <1>0, <1>4 DEF Create, Inside
  <2> QED
    BY <1>4, <2>3, <2>4 DEF Create, Fresh, Goto, RefInv, Inside
<1>5. ASSUME NEW b \in Browsers, CreateOffline(b) PROVE RefInv'
  <2>1. \A s : Viewers(s)' = Viewers(s)
    BY <1>5 DEF CreateOffline, Goto, Viewers
  <2> QED
    BY <1>5, <2>1 DEF CreateOffline, Goto, RefInv, RefCount
<1>6. ASSUME NEW b \in Browsers, StartOk(b) PROVE RefInv'
  <2>1. held[b] \in Sessions /\ RefCount
    BY <1>6 DEF StartOk, RefInv
  <2>2. RefCount'
    BY <1>6, <2>1, CountAttach DEF StartOk
  <2>3. \A a \in Browsers : pc[a] \in Inside => a = b
    BY <1>0, <1>6 DEF StartOk, LockInv, Inside
  <2> QED
    BY <1>6, <2>1, <2>2, <2>3 DEF StartOk, Attach, Goto, RefInv, Inside
<1>7. ASSUME NEW b \in Browsers, StartFail(b) PROVE RefInv'
  <2>1. \A s : Viewers(s)' = Viewers(s)
    BY <1>7 DEF StartFail, Goto, Viewers
  <2>2. \A a \in Browsers : pc[a] \in Inside => a = b
    BY <1>0, <1>7 DEF StartFail, LockInv, Inside
  <2> QED
    BY <1>7, <2>1, <2>2 DEF StartFail, Goto, RefInv, RefCount, Inside
<1>8. ASSUME NEW b \in Browsers, Leave(b) \/ LeaveLastOffline(b) PROVE RefInv'
  <2>1. RefCount'
    BY <1>8, CountDetach DEF Leave, LeaveLastOffline, Done, Goto, RefInv
  <2>2. \A a \in Browsers : pc[a] \notin Inside
    BY <1>0, <1>8 DEF Leave, LeaveLastOffline, Inside
  <2> QED
    BY <1>8, <2>1, <2>2, SMTT(30) DEF Leave, LeaveLastOffline, Done, Goto, RefInv, Inside
<1>9. ASSUME NEW b \in Browsers, LeaveLast(b) PROVE RefInv'
  <2>1. RefCount' /\ MinusOne(count[held[b]]) = count[held[b]] - 1
    <3>1. held' = [held EXCEPT ![b] = held[b]]
      BY <1>9 DEF LeaveLast
    <3> QED
      BY <1>9, <3>1, CountDetach DEF LeaveLast, Goto, RefInv
  <2>2. \A a \in Browsers : pc[a] \notin Inside
    BY <1>0, <1>9 DEF LeaveLast, Inside
  <2>3. Viewers(held[b])' = {}
    <3>1. Cardinality(Viewers(held[b])') = 0
      BY <1>9, <2>1 DEF LeaveLast, RefCount
    <3> QED
      BY <3>1, ViewersFinite, FS_EmptySet
  <2>4. \A a \in Browsers : a # b => held[a] # held[b]
    BY <1>9, <2>2, <2>3 DEF LeaveLast, Goto, Viewers, Inside, Places
  <2> QED
    BY <1>9, <2>1, <2>2, <2>4 DEF LeaveLast, Goto, RefInv, Inside
<1>10. ASSUME NEW b \in Browsers, StopSent(b) PROVE RefInv'
  <2>1. \A s : Viewers(s)' = Viewers(s)
    BY <1>10 DEF StopSent, Done, Goto, Viewers
  <2>2. \A a \in Browsers : pc[a] \in Inside => a = b
    BY <1>0, <1>10 DEF StopSent, LockInv, Inside
  <2> QED
    BY <1>10, <2>1, <2>2 DEF StopSent, Done, Goto, RefInv, RefCount, Inside
<1>11. ASSUME UNCHANGED <<count, subscribers, pc, held>> PROVE RefInv'
  BY <1>11 DEF RefInv, RefCount, Viewers
<1>12. CASE \/ (\E how \in Dead : AgentEnds(how))
            \/ (\E answer \in {"ok", "error"} : Deliver(answer))
            \/ TimeOut \/ (\E c \in Conns : Connect(c) \/ Disconnect(c))
            \/ UNCHANGED vars
  BY <1>11, <1>12 DEF AgentEnds, Deliver, TimeOut, Connect, Disconnect, vars
<1> QED
  BY <1>1, <1>2, <1>3, <1>4, <1>5, <1>6, <1>7, <1>8, <1>9, <1>10, <1>12
  DEF Next, Resume

-----------------------------------------------------------------------------
(* What a browser relies on *)

\* The count reaches zero exactly when no other handler refers to the session.
LEMMA LastViewer ==
    ASSUME TypeOK, LockInv, RefInv, NEW b \in Browsers, pc[b] = "unsubWait", Holds(b)
    PROVE  MinusOne(count[held[b]]) = 0
              <=> \A a \in Browsers : a # b => held[a] # held[b]
<1> DEFINE s == held[b]
<1>1. s \in Sessions /\ b \in Viewers(s)
  BY DEF TypeOK, Viewers
<1>2. \A a \in Browsers : pc[a] \notin Inside
  BY DEF LockInv, Holds, Inside
<1>3. \A a \in Browsers : held[a] = s => a \in Viewers(s)
  BY <1>1, <1>2, NoneAssumption DEF TypeOK, Viewers, Places, Inside
<1>4. Cardinality(Viewers(s) \ {b}) = Cardinality(Viewers(s)) - 1
  BY <1>1, FS_RemoveElement, ViewersFinite
<1>5. Cardinality(Viewers(s)) \in Nat /\ Cardinality(Viewers(s) \ {b}) \in Nat
  BY FS_CardinalityType, FS_RemoveElement, ViewersFinite
<1>6. MinusOne(count[s]) = Cardinality(Viewers(s) \ {b})
  BY <1>1, <1>4, <1>5 DEF RefInv, RefCount, MinusOne
<1>7. MinusOne(count[s]) = 0 <=> Viewers(s) \ {b} = {}
  BY <1>6, FS_RemoveElement, FS_EmptySet, ViewersFinite
<1>8. Viewers(s) \ {b} = {} <=> \A a \in Browsers : a # b => held[a] # s
  BY <1>3 DEF Viewers
<1> QED
  BY <1>7, <1>8

LEMMA SessionStep == IInv /\ [Next]_vars => SessionInv'
<1> SUFFICES ASSUME TypeOK, LockInv, RefInv, SessionInv, [Next]_vars PROVE SessionInv'
  BY DEF IInv
<1> USE NoneAssumption DEF TypeOK, Dead, requestVars, connVars, online, NoRequest
<1>0. \A a, b \in Browsers : pc[a] \in Inside /\ Holds(b) => a = b
  BY DEF LockInv, Holds, Inside
<1>1. ASSUME NEW b \in Browsers, SubscribeCall(b) PROVE SessionInv'
  BY <1>1 DEF SubscribeCall, Goto, SessionInv, NoSilentHang
<1>2. ASSUME NEW b \in Browsers, UnsubscribeCall(b) PROVE SessionInv'
  <2>1. NoSilentHang'
    BY <1>2 DEF UnsubscribeCall, Goto, SessionInv, NoSilentHang
  <2>2. registered # None /\ status[registered] \in Dead
           => subscribers'[registered] \subseteq ended'
    BY <1>2 DEF UnsubscribeCall, RefInv, SessionInv
  <2> QED
    BY <1>2, <2>1, <2>2 DEF UnsubscribeCall, Goto, SessionInv
<1>3. ASSUME NEW b \in Browsers, Join(b) PROVE SessionInv'
  BY <1>3 DEF Join, Reusable, Attach, Goto, SessionInv, NoSilentHang
<1>4. ASSUME NEW b \in Browsers, NEW s \in Sessions, Create(b, s) PROVE SessionInv'
  <2>1. \A a \in Browsers : pc[a] \notin Inside
    BY <1>0, <1>4 DEF Create, Inside
  <2>2. NoSilentHang'
    BY <1>4, <2>1, SMTT(30) DEF Create, Reusable, Fresh, Goto, RefInv, SessionInv, NoSilentHang
  <2> QED
    BY <1>4, <2>1, <2>2 DEF Create, Fresh, Goto, SessionInv, Inside
<1>5. ASSUME NEW b \in Browsers, CreateOffline(b) PROVE SessionInv'
  <2>1. \A a \in Browsers : pc[a] \notin Inside
    BY <1>0, <1>5 DEF CreateOffline, Inside
  <2>2. NoSilentHang'
    BY <1>5 DEF CreateOffline, Reusable, Goto, RefInv, SessionInv, NoSilentHang
  <2> QED
    BY <1>5, <2>1, <2>2 DEF CreateOffline, Goto, SessionInv, Inside
<1>6. ASSUME NEW b \in Browsers, StartOk(b) PROVE SessionInv'
  <2>1. \A a \in Browsers : pc[a] \in Inside => a = b
    BY <1>0, <1>6 DEF StartOk, LockInv, Inside
  <2>2. handlers # {} /\ held[b] = registered /\ registered \in Sessions
    BY <1>6 DEF StartOk, SessionInv
  <2> QED
    BY <1>6, <2>1, <2>2 DEF StartOk, Attach, Goto, SessionInv, NoSilentHang, Inside
<1>7. ASSUME NEW b \in Browsers, StartFail(b) PROVE SessionInv'
  <2>1. \A a \in Browsers : pc[a] \in Inside => a = b
    BY <1>0, <1>7 DEF StartFail, LockInv, Inside
  <2>2. \A a \in Browsers : a # b => held[a] # registered
    BY <1>7 DEF StartFail, RefInv, SessionInv
  <2> QED
    BY <1>7, <2>1, <2>2 DEF StartFail, Goto, SessionInv, NoSilentHang, Inside
<1>8. ASSUME NEW b \in Browsers, Leave(b) PROVE SessionInv'
  <2>1. \A a \in Browsers : pc[a] \notin Inside
    BY <1>0, <1>8 DEF Leave, Inside
  <2>2. \E a \in Browsers : a # b /\ held[a] = held[b]
    BY <1>8, LastViewer DEF Leave
  <2> QED
    BY <1>8, <2>1, <2>2 DEF Leave, Done, Goto, SessionInv, NoSilentHang, Inside
<1>9. ASSUME NEW b \in Browsers, LeaveLast(b) PROVE SessionInv'
  <2>1. \A a \in Browsers : pc[a] \notin Inside
    BY <1>0, <1>9 DEF LeaveLast, Inside
  <2>2. \A a \in Browsers : a # b => held[a] # held[b]
    BY <1>9, LastViewer DEF LeaveLast
  <2>3. subscribers[held[b]] = {}
    BY <1>9, <2>2 DEF LeaveLast, RefInv
  <2> QED
    BY <1>9, <2>1, <2>2, <2>3 DEF LeaveLast, Goto, SessionInv, NoSilentHang, Inside
<1>10. ASSUME NEW b \in Browsers, LeaveLastOffline(b) PROVE SessionInv'
  <2>1. \A a \in Browsers : pc[a] \notin Inside
    BY <1>0, <1>10 DEF LeaveLastOffline, Inside
  <2>2. \A a \in Browsers : a # b => held[a] # held[b]
    BY <1>10, LastViewer DEF LeaveLastOffline
  <2> QED
    BY <1>10, <2>1, <2>2
    DEF LeaveLastOffline, Unregister, Done, Goto, SessionInv, NoSilentHang, Inside
<1>11. ASSUME NEW b \in Browsers, StopSent(b) PROVE SessionInv'
  <2>1. \A a \in Browsers : pc[a] \in Inside => a = b
    BY <1>0, <1>11 DEF StopSent, LockInv, Inside
  <2>2. \A a \in Browsers : a # b => held[a] # held[b]
    BY <1>11 DEF StopSent, RefInv
  <2> QED
    BY <1>11, <2>1, <2>2
    DEF StopSent, Unregister, Done, Goto, SessionInv, NoSilentHang, Inside
<1>12. ASSUME NEW how \in Dead, EndRegistered(how),
              UNCHANGED <<registered, subscribers, pc, held>>,
              reply' \in {"ok", "error"} => via' \in handlers',
              reply' = "none" <=> reply = "none"
       PROVE  SessionInv'
  BY <1>12 DEF EndRegistered, SessionInv, NoSilentHang
<1>13. CASE \E how \in Dead : AgentEnds(how)
  BY <1>12, <1>13 DEF AgentEnds, SessionInv
<1>14. ASSUME NEW c \in Conns, Disconnect(c) PROVE SessionInv'
  BY <1>12, <1>14 DEF Disconnect, Replies, SessionInv
<1>15. CASE \/ (\E answer \in {"ok", "error"} : Deliver(answer))
            \/ TimeOut \/ (\E c \in Conns : Connect(c)) \/ UNCHANGED vars
  BY <1>15 DEF Deliver, TimeOut, Connect, vars, SessionInv, NoSilentHang
<1> QED
  BY <1>1, <1>2, <1>3, <1>4, <1>5, <1>6, <1>7, <1>8, <1>9, <1>10, <1>11, <1>13,
     <1>14, <1>15 DEF Next, Resume

-----------------------------------------------------------------------------
(* The theorems *)

LEMMA Invariance == Spec => []IInv
<1>1. IInv /\ [Next]_vars => IInv'
  BY TypeStep, LockStep, RefStep, SessionStep DEF IInv
<1> QED
  BY InitIInv, <1>1, PTL DEF Spec

\* Every variable keeps its type, and a handler has a reference to a session
\* exactly at the places of the code where Python's local is bound.
THEOREM TypeCorrect == Spec => []TypeOK
<1> QED
  BY Invariance, PTL DEF IInv

\* Mutual exclusion of starts and stops of one key.
THEOREM StartsExclusive == Spec => []OneInside
<1>1. IInv => OneInside
  BY DEF IInv, LockInv, Holds, OneInside
<1> QED
  BY Invariance, <1>1, PTL

\* The subscriber count of every session is the number of its viewers.
THEOREM RefCountExact == Spec => []RefCount
<1>1. IInv => RefCount
  BY DEF IInv, RefInv
<1> QED
  BY Invariance, <1>1, PTL

\* A session with nobody left to watch it is never kept.
THEOREM NoSessionLeftBehind == Spec => []NoOrphanSession
<1>1. ASSUME IInv, registered # None, \A b \in Browsers : pc[b] \notin Inside
      PROVE  count[registered] > 0
  <2>1. PICK b \in Browsers : held[b] = registered
    BY <1>1 DEF IInv, SessionInv
  <2>2. b \in Viewers(registered) /\ registered \in Sessions
    BY <1>1, <2>1, NoneAssumption DEF IInv, TypeOK, Viewers, Inside, Places
  <2>3. Cardinality(Viewers(registered)) # 0
    BY <2>2, ViewersFinite, FS_EmptySet
  <2> QED
    BY <1>1, <2>2, <2>3 DEF IInv, TypeOK, RefInv, RefCount
<1>2. IInv => NoOrphanSession
  BY <1>1 DEF NoOrphanSession, Inside
<1> QED
  BY Invariance, <1>2, PTL

\* A browser that gets no more events was told.
THEOREM NobodyHangsSilently == Spec => []NoSilentHang
<1>1. IInv => NoSilentHang
  BY DEF IInv, SessionInv
<1> QED
  BY Invariance, <1>1, PTL

\* Every subscribed browser learns that the agent went away, however the handlers of
\* its connections overlapped.
THEOREM DisconnectionIsSeen == Spec => []OfflineIsSeen
<1>1. IInv => OfflineIsSeen
  <2> SUFFICES ASSUME IInv, handlers = {}, NEW b \in Browsers, pc[b] = "subscribed"
               PROVE  b \in ended
    BY DEF OfflineIsSeen
  <2>1. CASE held[b] # registered
    BY <2>1 DEF IInv, SessionInv, NoSilentHang
  <2>2. CASE held[b] = registered
    BY <2>2, SMTT(30) DEF IInv, TypeOK, RefInv, SessionInv
  <2> QED
    BY <2>1, <2>2
<1> QED
  BY Invariance, <1>1, PTL

\* The two halves of what the runs check of the counts and of the ends.
THEOREM CountsAreRight == Spec => []CountsViewers
<1>1. RefCount /\ NoOrphanSession => CountsViewers
  BY DEF CountsViewers
<1> QED
  BY <1>1, RefCountExact, NoSessionLeftBehind, PTL

\* Whatever ends a tail, its browsers are told.
THEOREM EndsAreSeen == Spec => []EndIsSeen
<1>1. NoSilentHang /\ OfflineIsSeen => EndIsSeen
  BY DEF EndIsSeen
<1> QED
  BY <1>1, NobodyHangsSilently, DisconnectionIsSeen, PTL

=============================================================================
