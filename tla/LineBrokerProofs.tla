-------------------------- MODULE LineBrokerProofs --------------------------
(***************************************************************************)
(* What LineBroker guarantees for any number of browsers and any sizes of  *)
(* queue and ring, and that it implements LineFeed.  For the queues        *)
(* everything rests on one fact: a queue is the interval of the newest     *)
(* events that its browser has neither taken nor lost.  The ring is the    *)
(* end of all lines it was given, those of the agent's reply included.     *)
(***************************************************************************)
EXTENDS LineBroker, SequenceTheorems, TLAPS

USE DEF loadVars

\* Where the events published since the subscription are.
Split ==
    /\ \A i \in 1..Len(buffer) : buffer[i] <= last
    /\ \A b \in on :
        /\ \A i \in 1..Len(backfill[b]) : backfill[b][i] <= since[b]
        /\ since[b] + Len(queue[b]) <= last
        /\ Elements(got[b]) \cup dropped[b] = since[b] + 1 .. last - Len(queue[b])
        /\ Elements(got[b]) \cap dropped[b] = {}

IInv == TypeOK /\ QueueIsWindow /\ DropsOnlyOldest /\ Split

-----------------------------------------------------------------------------
(* Sequences *)

LEMMA AppendFacts ==
    ASSUME NEW S, NEW s \in Seq(S), NEW e \in S
    PROVE  /\ Append(s, e) \in Seq(S)
           /\ Len(Append(s, e)) = Len(s) + 1
           /\ \A i \in 1..Len(s) : Append(s, e)[i] = s[i]
           /\ Append(s, e)[Len(s) + 1] = e
  OBVIOUS

LEMMA TailFacts ==
    ASSUME NEW S, NEW s \in Seq(S), s # <<>>
    PROVE  /\ Tail(s) \in Seq(S)
           /\ Len(Tail(s)) = Len(s) - 1
           /\ Len(s) \in Nat \ {0}
           /\ \A i \in 1..Len(Tail(s)) : Tail(s)[i] = s[i + 1]
           /\ Head(s) = s[1] /\ Head(s) \in S
  OBVIOUS

LEMMA AppendElements ==
    ASSUME NEW S, NEW s \in Seq(S), NEW e \in S
    PROVE  Elements(Append(s, e)) = Elements(s) \cup {e}
<1> DEFINE a == Append(s, e)
<1>1. Len(a) = Len(s) + 1 /\ Len(s) \in Nat /\ a[Len(s) + 1] = e
  BY AppendFacts
<1>2. \A i \in 1..Len(s) : a[i] = s[i]
  BY AppendFacts
<1> HIDE DEF a
<1>3. \A i \in 1..Len(a) : i \in 1..Len(s) \/ i = Len(s) + 1
  BY <1>1
<1>4. 1..Len(s) \subseteq 1..Len(a) /\ Len(s) + 1 \in 1..Len(a)
  BY <1>1
<1>5. Elements(a) = Elements(s) \cup {e}
  BY <1>1, <1>2, <1>3, <1>4 DEF Elements
<1> QED
  BY <1>5 DEF a

\* The effect of publish() on one queue that is a window.
LEMMA PutFacts ==
    ASSUME NEW n \in Nat, NEW q \in Seq(Nat), Len(q) <= QueueMax, Len(q) <= n,
           \A i \in 1..Len(q) : q[i] = n - Len(q) + i
    PROVE  /\ Put(q, n + 1) \in Seq(Nat)
           /\ Len(Put(q, n + 1)) = IF Full(q) THEN Len(q) ELSE Len(q) + 1
           /\ Len(Put(q, n + 1)) <= QueueMax
           /\ \A i \in 1..Len(Put(q, n + 1)) :
                 Put(q, n + 1)[i] = (n + 1) - Len(Put(q, n + 1)) + i
           /\ Discarded(q) = IF Full(q) THEN {n - Len(q) + 1} ELSE {}
           /\ Full(q) => Len(q) = QueueMax
<1> USE SizesAssumption
<1>1. CASE Full(q)
  <2>1. q # <<>> /\ Len(q) = QueueMax
    BY <1>1 DEF Full
  <2> DEFINE t == Tail(q)
  <2>2. /\ t \in Seq(Nat) /\ Len(t) = Len(q) - 1 /\ Len(q) \in Nat \ {0}
        /\ \A i \in 1..Len(t) : t[i] = q[i + 1]
        /\ Head(q) = q[1]
    BY <2>1, TailFacts
  <2> HIDE DEF t
  <2>3. \A i \in 1..Len(t) : i + 1 \in 1..Len(q) /\ t[i] = n - Len(q) + (i + 1)
    BY <2>2
  <2>4. Head(q) = n - Len(q) + 1
    BY <2>2
  <2> DEFINE a == Append(t, n + 1)
  <2>5. /\ a \in Seq(Nat) /\ Len(a) = Len(t) + 1
        /\ \A i \in 1..Len(t) : a[i] = t[i]
        /\ a[Len(t) + 1] = n + 1
    BY <2>2, AppendFacts
  <2>6. Put(q, n + 1) = a /\ Discarded(q) = {n - Len(q) + 1}
    BY <1>1, <2>4 DEF Put, Discarded, t
  <2> HIDE DEF a
  <2>7. Len(a) = Len(q)
    BY <2>2, <2>5
  <2>8. ASSUME NEW i \in 1..Len(a) PROVE a[i] = (n + 1) - Len(a) + i
    <3>1. CASE i = Len(t) + 1
      BY <2>2, <2>5, <2>7, <3>1
    <3>2. CASE i \in 1..Len(t)
      <4>1. a[i] = n - Len(q) + (i + 1)
        BY <2>3, <2>5, <3>2
      <4> QED
        BY <2>2, <2>7, <4>1
    <3> QED
      BY <2>2, <2>7, <3>1, <3>2
  <2> QED
    BY <1>1, <2>1, <2>5, <2>6, <2>7, <2>8
<1>2. CASE ~Full(q)
  <2> DEFINE a == Append(q, n + 1)
  <2>1. /\ a \in Seq(Nat) /\ Len(a) = Len(q) + 1 /\ Len(q) \in Nat
        /\ \A i \in 1..Len(q) : a[i] = q[i]
        /\ a[Len(q) + 1] = n + 1
    BY AppendFacts
  <2>2. Put(q, n + 1) = a /\ Discarded(q) = {}
    BY <1>2 DEF Put, Discarded
  <2> HIDE DEF a
  <2>3. ASSUME NEW i \in 1..Len(a) PROVE a[i] = (n + 1) - Len(a) + i
    <3>1. CASE i = Len(q) + 1
      BY <2>1, <3>1
    <3>2. CASE i \in 1..Len(q)
      BY <2>1, <3>2
    <3> QED
      BY <2>1, <3>1, <3>2
  <2>4. Len(a) <= QueueMax
    BY <1>2, <2>1 DEF Full
  <2> QED
    BY <1>2, <2>1, <2>2, <2>3, <2>4
<1> QED
  BY <1>1, <1>2

\* deque(maxlen) keeps only elements it was given.
LEMMA RingFacts ==
    ASSUME NEW s \in Seq(Int)
    PROVE  /\ Ring(s) \in Seq(Int)
           /\ \A i \in 1..Len(Ring(s)) : \E j \in 1..Len(s) : Ring(s)[i] = s[j]
<1> USE SizesAssumption
<1>1. CASE Len(s) > BufferMax
  <2> DEFINE k == Len(s) - BufferMax
             r == SubSeq(s, k + 1, Len(s))
  <2>1. (k \in Nat /\ k < Len(s) /\ Len(s) \in Nat) \/ BufferMax = 0
    BY <1>1
  <2>2. r \in Seq(Int)
    BY <1>1
  <2>3. Len(r) = Len(s) - k /\ \A i \in 1..Len(r) : r[i] = s[k + i] /\ k + i \in 1..Len(s)
    BY <1>1
  <2> QED
    BY <1>1, <2>2, <2>3 DEF Ring
<1>2. CASE ~(Len(s) > BufferMax)
  BY <1>2 DEF Ring
<1> QED
  BY <1>1, <1>2

-----------------------------------------------------------------------------
(* Intervals: n events are published, k of them queued, the rest since s is *)
(* in G (taken) or D (dropped).                                             *)

\* A full queue gives up its oldest event for the new one.
LEMMA DropOne ==
    ASSUME NEW n \in Nat, NEW s \in Nat, NEW k \in Nat, s + k <= n,
           NEW G, NEW D, G \cup D = s + 1 .. n - k, G \cap D = {}
    PROVE  /\ s + k <= n + 1
           /\ G \cup (D \cup {n - k + 1}) = s + 1 .. (n + 1) - k
           /\ G \cap (D \cup {n - k + 1}) = {}
<1>1. s + 1 .. (n + 1) - k = (s + 1 .. n - k) \cup {n - k + 1}
  OBVIOUS
<1>2. n - k + 1 \notin s + 1 .. n - k
  OBVIOUS
<1> QED
  BY <1>1, <1>2

\* The consumer takes the oldest queued event.
LEMMA TakeOne ==
    ASSUME NEW n \in Nat, NEW s \in Nat, NEW k \in Nat \ {0}, s + k <= n,
           NEW G, NEW D, G \cup D = s + 1 .. n - k, G \cap D = {}
    PROVE  /\ s + (k - 1) <= n
           /\ (G \cup {n - k + 1}) \cup D = s + 1 .. n - (k - 1)
           /\ (G \cup {n - k + 1}) \cap D = {}
<1>1. s + 1 .. n - (k - 1) = (s + 1 .. n - k) \cup {n - k + 1}
  OBVIOUS
<1>2. n - k + 1 \notin s + 1 .. n - k
  OBVIOUS
<1> QED
  BY <1>1, <1>2

LEMMA IntervalSplit ==
    ASSUME NEW n \in Nat, NEW s \in Nat, NEW k \in Nat, s + k <= n
    PROVE  /\ (s + 1 .. n - k) \cup (n - k + 1 .. n) = s + 1 .. n
           /\ (s + 1 .. n - k) \cap (n - k + 1 .. n) = {}
  OBVIOUS

LEMMA IntervalBelow ==
    ASSUME NEW n \in Nat, NEW s \in Nat, NEW k \in Nat, NEW x \in s + 1 .. n - k
    PROVE  x < n - k + 1
  OBVIOUS

LEMMA WindowElements ==
    ASSUME NEW n \in Nat, NEW q \in Seq(Nat),
           \A i \in 1..Len(q) : q[i] = n - Len(q) + i
    PROVE  Elements(q) = n - Len(q) + 1 .. n
<1>1. Len(q) \in Nat
  OBVIOUS
<1>2. \A i \in 1..Len(q) : q[i] \in n - Len(q) + 1 .. n
  BY <1>1
<1>3. ASSUME NEW e \in n - Len(q) + 1 .. n PROVE \E i \in 1..Len(q) : q[i] = e
  <2>1. e - (n - Len(q)) \in 1..Len(q)
    BY <1>1
  <2>2. q[e - (n - Len(q))] = n - Len(q) + (e - (n - Len(q)))
    BY <2>1
  <2>3. n - Len(q) + (e - (n - Len(q))) = e
    BY <1>1
  <2> QED
    BY <2>1, <2>2, <2>3
<1> QED
  BY <1>2, <1>3 DEF Elements

-----------------------------------------------------------------------------
(* Initial states and types *)

LEMMA InitIInv == Init => IInv
<1> SUFFICES ASSUME Init PROVE IInv
  OBVIOUS
<1>1. <<>> \in Seq(Nat) /\ <<>> \in Seq(Int) /\ <<>> \in Seq(Kinds)
  OBVIOUS
<1>2. TypeOK
  BY <1>1 DEF Init, TypeOK
<1>3. Split
  BY DEF Init, Split
<1> QED
  BY <1>2, <1>3 DEF Init, IInv, QueueIsWindow, DropsOnlyOldest

\* The effect of publish() on every queue.
LEMMA PublishFacts ==
    ASSUME IInv, NEW kind \in Kinds, Publish(kind)
    PROVE  /\ log' \in Seq(Kinds) /\ last' = last + 1 /\ last \in Nat
           /\ \A b \in on :
                /\ queue'[b] \in Seq(Nat)
                /\ Len(queue'[b]) = IF Full(queue[b]) THEN Len(queue[b])
                                                      ELSE Len(queue[b]) + 1
                /\ Len(queue'[b]) <= QueueMax
                /\ \A i \in 1..Len(queue'[b]) :
                      queue'[b][i] = last' - Len(queue'[b]) + i
                /\ Full(queue[b]) => Len(queue[b]) = QueueMax
                /\ dropped'[b] = dropped[b] \cup
                      IF Full(queue[b]) THEN {last - Len(queue[b]) + 1} ELSE {}
           /\ \A b \in Browsers \ on : queue'[b] = queue[b] /\ dropped'[b] = dropped[b]
<1> USE DEF IInv, TypeOK, QueueIsWindow
<1>1. log' \in Seq(Kinds) /\ last' = last + 1 /\ last \in Nat
  BY AppendFacts DEF Publish, last
<1>2. \A b \in on : /\ queue'[b] = Put(queue[b], last + 1)
                    /\ dropped'[b] = dropped[b] \cup Discarded(queue[b])
  BY DEF Publish
<1>3. \A b \in on : since[b] + Len(queue[b]) <= last /\ since[b] \in Nat
                    /\ queue[b] \in Seq(Nat) /\ Len(queue[b]) \in Nat
  BY DEF Split
<1>4. \A b \in on : Len(queue[b]) <= last
  BY <1>1, <1>3
<1>5. \A b \in Browsers \ on : queue'[b] = queue[b] /\ dropped'[b] = dropped[b]
  BY DEF Publish
<1>6. ASSUME NEW b \in on
      PROVE  /\ Put(queue[b], last + 1) \in Seq(Nat)
             /\ Len(Put(queue[b], last + 1)) = IF Full(queue[b]) THEN Len(queue[b])
                                                                 ELSE Len(queue[b]) + 1
             /\ Len(Put(queue[b], last + 1)) <= QueueMax
             /\ \A i \in 1..Len(Put(queue[b], last + 1)) :
                   Put(queue[b], last + 1)[i]
                      = (last + 1) - Len(Put(queue[b], last + 1)) + i
             /\ Discarded(queue[b]) = IF Full(queue[b])
                                      THEN {last - Len(queue[b]) + 1} ELSE {}
             /\ Full(queue[b]) => Len(queue[b]) = QueueMax
  <2>1. queue[b] \in Seq(Nat) /\ Len(queue[b]) <= QueueMax /\ Len(queue[b]) <= last
        /\ \A i \in 1..Len(queue[b]) : queue[b][i] = last - Len(queue[b]) + i
    BY <1>3, <1>4
  <2> QED
    BY ONLY <1>1, <2>1, PutFacts
<1>7. ASSUME NEW b \in on
      PROVE  /\ queue'[b] \in Seq(Nat)
             /\ Len(queue'[b]) = IF Full(queue[b]) THEN Len(queue[b])
                                                   ELSE Len(queue[b]) + 1
             /\ Len(queue'[b]) <= QueueMax
             /\ \A i \in 1..Len(queue'[b]) :
                   queue'[b][i] = last' - Len(queue'[b]) + i
             /\ Full(queue[b]) => Len(queue[b]) = QueueMax
             /\ dropped'[b] = dropped[b] \cup
                   IF Full(queue[b]) THEN {last - Len(queue[b]) + 1} ELSE {}
  <2> DEFINE p == Put(queue[b], last + 1)
  <2>1. queue'[b] = p /\ dropped'[b] = dropped[b] \cup Discarded(queue[b])
    BY <1>2
  <2>2. /\ p \in Seq(Nat)
        /\ Len(p) = IF Full(queue[b]) THEN Len(queue[b]) ELSE Len(queue[b]) + 1
        /\ Len(p) <= QueueMax
        /\ \A i \in 1..Len(p) : p[i] = (last + 1) - Len(p) + i
    BY <1>6
  <2> HIDE DEF p
  <2>3. /\ Discarded(queue[b]) = IF Full(queue[b])
                                 THEN {last - Len(queue[b]) + 1} ELSE {}
        /\ Full(queue[b]) => Len(queue[b]) = QueueMax
    BY <1>6
  <2> QED
    BY ONLY <1>1, <2>1, <2>2, <2>3
<1> QED
  BY ONLY <1>1, <1>5, <1>7

LEMMA TypeStep == IInv /\ [Next]_vars => TypeOK'
<1> SUFFICES ASSUME IInv, [Next]_vars PROVE TypeOK'
  OBVIOUS
<1> USE DEF IInv, TypeOK
<1>0. ASSUME NEW kind \in Kinds, Publish(kind)
      PROVE  /\ log' \in Seq(Kinds)
             /\ queue' \in [Browsers -> Seq(Nat)]
             /\ dropped' \in [Browsers -> SUBSET Nat]
             /\ \A b \in Browsers \ on : queue'[b] = <<>>
  <2>1. /\ log' \in Seq(Kinds)
        /\ \A b \in on : queue'[b] \in Seq(Nat)
        /\ \A b \in Browsers \ on : queue'[b] = queue[b] /\ dropped'[b] = dropped[b]
    BY <1>0, PublishFacts
  <2>2. \A b \in on : dropped'[b] = dropped[b] \cup Discarded(queue[b])
    BY <1>0 DEF Publish
  <2>3. \A b \in Browsers : Discarded(queue[b]) \subseteq Nat
    BY SizesAssumption DEF Discarded, Full
  <2>4. queue' \in [Browsers -> Seq(Nat)]
    <3>1. \A b \in Browsers : queue'[b] \in Seq(Nat)
      BY <2>1
    <3> QED
      BY <1>0, <3>1 DEF Publish
  <2>5. dropped' \in [Browsers -> SUBSET Nat]
    <3>1. \A b \in Browsers : dropped'[b] \subseteq Nat
      BY <2>1, <2>2, <2>3
    <3> QED
      BY <1>0, <3>1 DEF Publish
  <2> QED
    BY <2>1, <2>4, <2>5
<1>1. CASE ReceiveLine
  <2>1. Append(buffer, last + 1) \in Seq(Int)
    BY AppendFacts DEF last
  <2>2. buffer' \in Seq(Int)
    BY <1>1, <2>1, RingFacts DEF ReceiveLine
  <2> QED
    BY <1>0, <1>1, <2>2 DEF ReceiveLine, viewerVars, Kinds
<1>2. ASSUME NEW kind \in {"error", "closed"}, ReceiveEnd(kind) PROVE TypeOK'
  BY <1>0, <1>2 DEF ReceiveEnd, viewerVars, Kinds
<1>3. CASE Load
  <2>1. [i \in 1..FirstLines |-> i - FirstLines] \in Seq(Int)
    BY SizesAssumption
  <2>2. buffer \o [i \in 1..FirstLines |-> i - FirstLines] \in Seq(Int)
    BY <2>1
  <2>3. buffer' \in Seq(Int)
    BY <1>3, <2>2, RingFacts DEF Load
  <2> QED
    BY <1>3, <2>3 DEF Load, viewerVars, last
<1>4. ASSUME NEW b \in Browsers, Subscribe(b) PROVE TypeOK'
  BY <1>4 DEF Subscribe, last
<1>5. ASSUME NEW b \in Browsers, Take(b) PROVE TypeOK'
  <2>1. Tail(queue[b]) \in Seq(Nat) /\ Head(queue[b]) \in Nat
    BY <1>5, TailFacts DEF Take
  <2>2. Append(got[b], Head(queue[b])) \in Seq(Nat)
    BY <2>1, AppendFacts
  <2> QED
    BY <1>5, <2>1, <2>2 DEF Take
<1>6. ASSUME NEW b \in Browsers, Unsubscribe(b) PROVE TypeOK'
  BY <1>6 DEF Unsubscribe
<1>7. CASE UNCHANGED vars
  BY <1>7 DEF vars
<1> QED
  BY <1>1, <1>2, <1>3, <1>4, <1>5, <1>6, <1>7 DEF Next

-----------------------------------------------------------------------------
(* The invariant *)

\* What publish() does to the positions of one browser's events.
LEMMA PublishSplit ==
    ASSUME IInv, NEW kind \in Kinds, Publish(kind), UNCHANGED viewerVars,
           \A i \in 1..Len(buffer') : buffer'[i] <= last'
    PROVE  QueueIsWindow' /\ DropsOnlyOldest' /\ Split'
<1> USE DEF IInv, TypeOK
<1>0. /\ last' = last + 1 /\ last \in Nat
      /\ on' = on /\ since' = since /\ backfill' = backfill /\ got' = got
  BY PublishFacts DEF viewerVars
<1>1. ASSUME NEW b \in on
      PROVE  /\ Len(queue[b]) \in Nat
             /\ Len(queue'[b]) = IF Full(queue[b]) THEN Len(queue[b])
                                                   ELSE Len(queue[b]) + 1
             /\ Full(queue[b]) => Len(queue[b]) = QueueMax
             /\ dropped'[b] = dropped[b] \cup
                   IF Full(queue[b]) THEN {last - Len(queue[b]) + 1} ELSE {}
  <2>1. queue[b] \in Seq(Nat)
    OBVIOUS
  <2> QED
    BY <2>1, PublishFacts
<1>a. ASSUME NEW b \in on
      PROVE  /\ since[b] \in Nat /\ since[b] + Len(queue[b]) <= last
             /\ Elements(got[b]) \cup dropped[b] = since[b] + 1 .. last - Len(queue[b])
             /\ Elements(got[b]) \cap dropped[b] = {}
             /\ \A e \in dropped[b] : e \in Nat /\ e + QueueMax <= last
  <2>1. since[b] \in Nat /\ dropped[b] \subseteq Nat
    OBVIOUS
  <2> QED
    BY <2>1 DEF Split, DropsOnlyOldest
<1>2. QueueIsWindow'
  BY <1>0, PublishFacts DEF QueueIsWindow
<1>3. DropsOnlyOldest'
  <2>1. ASSUME NEW b \in on, NEW e \in dropped'[b] PROVE e + QueueMax <= last'
    <3>1. CASE e \in dropped[b]
      <4>1. e \in Nat /\ e + QueueMax <= last
        BY ONLY <1>a, <2>1, <3>1
      <4> QED
        BY ONLY <1>0, <4>1, SizesAssumption
    <3>2. CASE e \notin dropped[b]
      <4>1. Len(queue[b]) = QueueMax /\ e = last - Len(queue[b]) + 1
        BY ONLY <1>1, <2>1, <3>2
      <4> QED
        BY ONLY <1>0, <4>1, SizesAssumption
    <3> QED
      BY ONLY <3>1, <3>2
  <2> QED
    BY <1>0, <2>1 DEF DropsOnlyOldest
<1>4. Split'
  <2>1. ASSUME NEW b \in on
        PROVE  /\ since[b] + Len(queue'[b]) <= last'
               /\ Elements(got[b]) \cup dropped'[b] = since[b] + 1 .. last' - Len(queue'[b])
               /\ Elements(got[b]) \cap dropped'[b] = {}
    <3> DEFINE k == Len(queue[b])
    <3>0. k \in Nat /\ since[b] \in Nat /\ since[b] + k <= last
      BY <1>1, <1>a
    <3>1. CASE Full(queue[b])
      <4>1. Len(queue'[b]) = k /\ dropped'[b] = dropped[b] \cup {last - k + 1}
        BY <1>1, <3>1
      <4>2. /\ since[b] + k <= last + 1
            /\ Elements(got[b]) \cup (dropped[b] \cup {last - k + 1})
                  = since[b] + 1 .. (last + 1) - k
            /\ Elements(got[b]) \cap (dropped[b] \cup {last - k + 1}) = {}
        <5> HIDE DEF k
        <5>1. Elements(got[b]) \cup dropped[b] = since[b] + 1 .. last - k
              /\ Elements(got[b]) \cap dropped[b] = {}
          BY <1>a DEF k
        <5> QED
          BY ONLY <1>0, <3>0, <5>1, DropOne
      <4> QED
        BY <1>0, <4>1, <4>2
    <3>2. CASE ~Full(queue[b])
      <4>1. Len(queue'[b]) = k + 1 /\ dropped'[b] = dropped[b]
        BY <1>1, <3>2
      <4>2. (last + 1) - (k + 1) = last - k /\ since[b] + (k + 1) <= last + 1
        BY <1>0, <3>0
      <4> QED
        BY <1>0, <1>a, <4>1, <4>2
    <3> QED
      BY <3>1, <3>2
  <2> QED
    BY <1>0, <2>1 DEF Split
<1> QED
  BY <1>2, <1>3, <1>4

LEMMA IInvStep == IInv /\ [Next]_vars => IInv'
<1> SUFFICES ASSUME IInv, [Next]_vars PROVE IInv'
  OBVIOUS
<1> USE DEF TypeOK
<1>0. TypeOK' /\ TypeOK /\ QueueIsWindow /\ DropsOnlyOldest /\ Split
  BY TypeStep DEF IInv
<1>1. CASE ReceiveLine
  <2>1. last' = last + 1 /\ last \in Nat
    BY <1>1, PublishFacts DEF ReceiveLine, Kinds
  <2> DEFINE a == Append(buffer, last + 1)
  <2>2. /\ a \in Seq(Int) /\ Len(a) = Len(buffer) + 1 /\ a[Len(buffer) + 1] = last + 1
        /\ \A i \in 1..Len(buffer) : a[i] = buffer[i]
    BY <1>0, <2>1, AppendFacts
  <2>3. buffer' = Ring(a)
    BY <1>1 DEF ReceiveLine
  <2> HIDE DEF a
  <2>4. \A i \in 1..Len(a) : a[i] <= last + 1
    <3>1. ASSUME NEW i \in 1..Len(a) PROVE i \in 1..Len(buffer) \/ i = Len(buffer) + 1
      BY <1>0, <2>2
    <3>2. \A i \in 1..Len(buffer) : buffer[i] <= last /\ buffer[i] \in Int
      BY <1>0 DEF Split
    <3> QED
      BY <2>1, <2>2, <3>1, <3>2
  <2>5. \A i \in 1..Len(buffer') : buffer'[i] <= last'
    BY <2>1, <2>2, <2>3, <2>4, RingFacts
  <2> QED
    BY <1>0, <1>1, <2>5, PublishSplit DEF ReceiveLine, IInv, Kinds
<1>2. ASSUME NEW kind \in {"error", "closed"}, ReceiveEnd(kind) PROVE IInv'
  <2>1. last' = last + 1 /\ last \in Nat
    BY <1>2, PublishFacts DEF ReceiveEnd, Kinds
  <2>2. \A i \in 1..Len(buffer') : buffer'[i] <= last'
    <3>1. \A i \in 1..Len(buffer) : buffer[i] <= last /\ buffer[i] \in Int
      BY <1>0 DEF Split
    <3> QED
      BY <1>2, <2>1, <3>1 DEF ReceiveEnd
  <2> QED
    BY <1>0, <1>2, <2>2, PublishSplit DEF ReceiveEnd, IInv, Kinds
<1>3. CASE Load
  <2> DEFINE f == [i \in 1..FirstLines |-> i - FirstLines]
             a == buffer \o f
  <2>1. f \in Seq(Int) /\ Len(f) = FirstLines /\ \A i \in 1..Len(f) : f[i] <= 0
    BY SizesAssumption
  <2> HIDE DEF f
  <2>2. /\ a \in Seq(Int) /\ Len(a) = Len(buffer) + Len(f)
        /\ Len(buffer) \in Nat /\ Len(f) \in Nat
        /\ \A i \in 1..Len(buffer) : a[i] = buffer[i]
        /\ \A i \in Len(buffer) + 1 .. Len(a) : a[i] = f[i - Len(buffer)]
    <3>1. buffer \in Seq(Int) /\ Len(buffer) \in Nat /\ Len(f) \in Nat
      BY ONLY <1>0, <2>1 DEF TypeOK
    <3>2. /\ a \in Seq(Int) /\ Len(a) = Len(buffer) + Len(f)
          /\ \A i \in 1..Len(buffer) + Len(f) :
                a[i] = IF i <= Len(buffer) THEN buffer[i] ELSE f[i - Len(buffer)]
      BY ONLY <2>1, <3>1, ConcatProperties DEF a
    <3> QED
      BY ONLY <3>1, <3>2
  <2>3. buffer' = Ring(a)
    BY <1>3 DEF Load, f
  <2> HIDE DEF a
  <2>4. ASSUME NEW i \in 1..Len(a) PROVE a[i] <= last
    <3>0. last \in Nat
      BY <1>0 DEF last
    <3>1. CASE i \in 1..Len(buffer)
      BY <1>0, <2>2, <3>1 DEF Split
    <3>2. CASE i \in Len(buffer) + 1 .. Len(a)
      <4>1. i - Len(buffer) \in 1..Len(f)
        BY <2>2, <3>2
      <4>2. f[i - Len(buffer)] \in Int
        BY <2>1, <4>1
      <4> QED
        BY <2>1, <2>2, <3>0, <3>2, <4>1, <4>2
    <3> QED
      BY <2>2, <3>1, <3>2
  <2>5. \A i \in 1..Len(buffer') : buffer'[i] <= last
    BY <2>2, <2>3, <2>4, RingFacts
  <2> QED
    BY <1>0, <1>3, <2>5
    DEF Load, viewerVars, IInv, QueueIsWindow, DropsOnlyOldest, Split, last
<1>4. ASSUME NEW b \in Browsers, Subscribe(b) PROVE IInv'
  <2>0. last' = last /\ last \in Nat
    BY <1>0, <1>4 DEF Subscribe, last
  <2>1. /\ on' = on \cup {b} /\ b \notin on
        /\ queue'[b] = <<>> /\ got'[b] = <<>> /\ dropped'[b] = {}
        /\ since'[b] = last /\ backfill'[b] = buffer /\ buffer' = buffer
    BY <1>0, <1>4 DEF Subscribe
  <2>2. \A c \in on : /\ queue'[c] = queue[c] /\ got'[c] = got[c]
                      /\ dropped'[c] = dropped[c] /\ since'[c] = since[c]
                      /\ backfill'[c] = backfill[c]
    BY <1>0, <1>4 DEF Subscribe
  <2>3. Elements(<<>>) = {}
    BY DEF Elements
  <2>4. QueueIsWindow' /\ DropsOnlyOldest'
    <3>1. QueueIsWindow'
      <4>1. ASSUME NEW c \in on'
            PROVE  /\ Len(queue'[c]) <= QueueMax
                   /\ \A i \in 1..Len(queue'[c]) :
                         queue'[c][i] = last' - Len(queue'[c]) + i
        <5>1. CASE c = b
          BY ONLY <2>1, <5>1, SizesAssumption
        <5>2. CASE c # b
          <6>1. c \in on /\ queue'[c] = queue[c]
            BY ONLY <2>1, <2>2, <4>1, <5>2
          <6>2. /\ Len(queue[c]) <= QueueMax
                /\ \A i \in 1..Len(queue[c]) : queue[c][i] = last - Len(queue[c]) + i
            BY ONLY <1>0, <6>1 DEF QueueIsWindow
          <6> QED
            BY ONLY <2>0, <6>1, <6>2
        <5> QED
          BY ONLY <5>1, <5>2
      <4> QED
        BY ONLY <4>1 DEF QueueIsWindow
    <3>2. DropsOnlyOldest'
      BY <1>0, <2>0, <2>1, <2>2 DEF DropsOnlyOldest
    <3> QED
      BY <3>1, <3>2
  <2>5. Split'
    <3>1. last + 1 .. last - 0 = {}
      BY <2>0
    <3>2. ASSUME NEW c \in on'
          PROVE  /\ \A i \in 1..Len(backfill'[c]) : backfill'[c][i] <= since'[c]
                 /\ since'[c] + Len(queue'[c]) <= last'
                 /\ Elements(got'[c]) \cup dropped'[c]
                       = since'[c] + 1 .. last' - Len(queue'[c])
                 /\ Elements(got'[c]) \cap dropped'[c] = {}
      <4>1. CASE c = b
        BY <1>0, <2>0, <2>1, <2>3, <3>1, <4>1 DEF Split
      <4>2. CASE c # b
        BY <1>0, <2>0, <2>1, <2>2, <4>2 DEF Split
      <4> QED
        BY <4>1, <4>2
    <3> QED
      BY <1>0, <2>0, <2>1, <3>2 DEF Split
  <2> QED
    BY <1>0, <2>4, <2>5 DEF IInv
<1>5. ASSUME NEW b \in Browsers, Take(b) PROVE IInv'
  <2>0. last' = last /\ last \in Nat /\ on' = on /\ b \in on /\ queue[b] # <<>>
    BY <1>0, <1>5 DEF Take, last
  <2>1. \A c \in on : c # b => queue'[c] = queue[c] /\ got'[c] = got[c]
    BY <1>0, <1>5 DEF Take
  <2>2. queue'[b] = Tail(queue[b]) /\ got'[b] = Append(got[b], Head(queue[b]))
    BY <1>0, <1>5 DEF Take
  <2>3. /\ Tail(queue[b]) \in Seq(Nat) /\ Len(Tail(queue[b])) = Len(queue[b]) - 1
        /\ Len(queue[b]) \in Nat \ {0}
        /\ \A i \in 1..Len(Tail(queue[b])) : Tail(queue[b])[i] = queue[b][i + 1]
        /\ Head(queue[b]) = queue[b][1] /\ Head(queue[b]) \in Nat
    BY <1>0, <2>0, TailFacts
  <2>4. Head(queue[b]) = last - Len(queue[b]) + 1
    <3>1. 1 \in 1..Len(queue[b])
      BY ONLY <2>3
    <3>2. queue[b][1] = last - Len(queue[b]) + 1
      BY ONLY <1>0, <2>0, <3>1 DEF QueueIsWindow
    <3> QED
      BY ONLY <2>3, <3>2
  <2>5. Elements(got'[b]) = Elements(got[b]) \cup {Head(queue[b])}
    BY <1>0, <2>0, <2>2, <2>3, AppendElements
  <2>6. QueueIsWindow'
    <3>1. /\ Len(queue'[b]) <= QueueMax
          /\ \A i \in 1..Len(queue'[b]) : queue'[b][i] = last - Len(queue'[b]) + i
      <4>1. Len(queue[b]) <= QueueMax
            /\ \A i \in 1..Len(queue[b]) : queue[b][i] = last - Len(queue[b]) + i
        BY <1>0, <2>0 DEF QueueIsWindow
      <4>2. ASSUME NEW i \in 1..Len(queue'[b])
            PROVE  queue'[b][i] = last - Len(queue'[b]) + i
        <5>1. i + 1 \in 1..Len(queue[b]) /\ queue'[b][i] = queue[b][i + 1]
          BY ONLY <2>2, <2>3
        <5>2. queue'[b][i] = last - Len(queue[b]) + (i + 1)
          BY ONLY <4>1, <5>1
        <5>3. Len(queue'[b]) = Len(queue[b]) - 1 /\ i \in Nat
          BY ONLY <2>2, <2>3
        <5> QED
          BY ONLY <2>0, <2>3, <5>2, <5>3
      <4>3. Len(queue'[b]) = Len(queue[b]) - 1
        BY ONLY <2>2, <2>3
      <4>4. Len(queue'[b]) <= QueueMax
        BY ONLY <2>3, <4>1, <4>3, SizesAssumption
      <4> QED
        BY ONLY <4>2, <4>4
    <3>2. \A c \in on : c # b => Len(queue'[c]) = Len(queue[c]) /\ queue'[c] = queue[c]
      BY ONLY <2>1
    <3>3. ASSUME NEW c \in on
          PROVE  /\ Len(queue'[c]) <= QueueMax
                 /\ \A i \in 1..Len(queue'[c]) : queue'[c][i] = last - Len(queue'[c]) + i
      <4>1. CASE c = b
        BY ONLY <3>1, <4>1
      <4>2. CASE c # b
        <5>1. /\ Len(queue[c]) <= QueueMax
              /\ \A i \in 1..Len(queue[c]) : queue[c][i] = last - Len(queue[c]) + i
          BY ONLY <1>0, <3>3 DEF QueueIsWindow
        <5>2. queue'[c] = queue[c]
          BY ONLY <3>2, <3>3, <4>2
        <5> QED
          BY ONLY <5>1, <5>2
      <4> QED
        BY ONLY <4>1, <4>2
    <3> QED
      BY ONLY <2>0, <3>3 DEF QueueIsWindow
  <2>7. DropsOnlyOldest'
    BY <1>0, <1>5, <2>0 DEF Take, DropsOnlyOldest
  <2>8. Split'
    <3>0. dropped' = dropped /\ since' = since /\ backfill' = backfill /\ buffer' = buffer
      BY <1>5 DEF Take
    <3>1. /\ since[b] + Len(queue[b]) <= last /\ since[b] \in Nat
          /\ Elements(got[b]) \cup dropped[b] = since[b] + 1 .. last - Len(queue[b])
          /\ Elements(got[b]) \cap dropped[b] = {}
      BY <1>0, <2>0 DEF Split
    <3>2. Len(queue'[b]) = Len(queue[b]) - 1
      BY <2>2, <2>3
    <3>3. /\ since[b] + Len(queue'[b]) <= last
          /\ Elements(got'[b]) \cup dropped[b] = since[b] + 1 .. last - Len(queue'[b])
          /\ Elements(got'[b]) \cap dropped[b] = {}
      <4> DEFINE k == Len(queue[b])
      <4>1. /\ last \in Nat /\ since[b] \in Nat /\ k \in Nat \ {0} /\ since[b] + k <= last
            /\ Elements(got[b]) \cup dropped[b] = since[b] + 1 .. last - k
            /\ Elements(got[b]) \cap dropped[b] = {}
        BY ONLY <2>0, <2>3, <3>1
      <4> HIDE DEF k
      <4>2. /\ since[b] + (k - 1) <= last
            /\ (Elements(got[b]) \cup {last - k + 1}) \cup dropped[b]
                  = since[b] + 1 .. last - (k - 1)
            /\ (Elements(got[b]) \cup {last - k + 1}) \cap dropped[b] = {}
        BY ONLY <4>1, TakeOne
      <4>3. Elements(got'[b]) = Elements(got[b]) \cup {last - k + 1} /\ Len(queue'[b]) = k - 1
        BY ONLY <2>4, <2>5, <3>2 DEF k
      <4> QED
        BY ONLY <4>2, <4>3
    <3> QED
      BY <1>0, <2>0, <2>1, <3>0, <3>3 DEF Split
  <2> QED
    BY <1>0, <2>6, <2>7, <2>8 DEF IInv
<1>6. ASSUME NEW b \in Browsers, Unsubscribe(b) PROVE IInv'
  <2>1. /\ on' = on \ {b} /\ last' = last /\ buffer' = buffer /\ since' = since
        /\ backfill' = backfill /\ got' = got /\ dropped' = dropped
        /\ \A c \in on' : queue'[c] = queue[c]
    BY <1>0, <1>6 DEF Unsubscribe, last
  <2> QED
    BY <1>0, <2>1, SMTT(30) DEF IInv, QueueIsWindow, DropsOnlyOldest, Split
<1>7. CASE UNCHANGED vars
  BY <1>0, <1>7 DEF vars, IInv, QueueIsWindow, DropsOnlyOldest, Split, last
<1> QED
  BY <1>1, <1>2, <1>3, <1>4, <1>5, <1>6, <1>7 DEF Next

LEMMA Invariance == Spec => []IInv
  BY InitIInv, IInvStep, PTL DEF Spec

-----------------------------------------------------------------------------
(* The theorems *)

\* Every variable keeps its type, and a browser without a queue holds no event.
THEOREM TypeCorrect == Spec => []TypeOK
<1>1. IInv => TypeOK
  BY DEF IInv
<1> QED
  BY Invariance, <1>1, PTL

\* Queues hold the newest events, in order and without a gap.
THEOREM QueuesAreWindows == Spec => []QueueIsWindow
<1>1. IInv => QueueIsWindow
  BY DEF IInv
<1> QED
  BY Invariance, <1>1, PTL

\* Only a browser QUEUE_MAX_SIZE events behind loses any.
THEOREM OnlySlowBrowsersLose == Spec => []DropsOnlyOldest
<1>1. IInv => DropsOnlyOldest
  BY DEF IInv
<1> QED
  BY Invariance, <1>1, PTL

\* What a browser took is older than what is queued for it, so what it takes
\* next comes after it (broker.py 45-57).
THEOREM ShownInOrder == Spec => []InOrder
<1>1. Init => InOrder
  BY DEF Init, InOrder
<1>2. ASSUME IInv, InOrder, [Next]_vars PROVE InOrder'
  <2> SUFFICES ASSUME NEW b \in on'
               PROVE  \A i, j \in 1..Len(got'[b]) : i < j => got'[b][i] < got'[b][j]
    BY DEF InOrder
  <2>1. CASE b \in on /\ got'[b] = got[b]
    BY <1>2, <2>1 DEF InOrder
  <2>2. CASE got'[b] = <<>>
    BY <2>2
  <2>3. CASE b \in on /\ Take(b)
    <3> DEFINE e == Head(queue[b])
    <3>1. /\ got[b] \in Seq(Nat) /\ queue[b] \in Seq(Nat) /\ queue[b] # <<>>
          /\ got'[b] = Append(got[b], e)
      BY <1>2, <2>3 DEF Take, IInv, TypeOK
    <3>2. e = last - Len(queue[b]) + 1 /\ e \in Nat
      BY <1>2, <2>3, <3>1, TailFacts DEF IInv, QueueIsWindow
    <3>3. \A i \in 1..Len(got[b]) : got[b][i] \in Nat /\ got[b][i] < e
      <4> SUFFICES ASSUME NEW i \in 1..Len(got[b])
                   PROVE  got[b][i] \in Nat /\ got[b][i] < e
        OBVIOUS
      <4>1. got[b][i] \in since[b] + 1 .. last - Len(queue[b])
        BY <1>2, <2>3 DEF IInv, Split, Elements
      <4>2. got[b][i] \in Nat /\ Len(queue[b]) \in Nat
        BY <3>1, TailFacts
      <4>3. last \in Nat /\ since[b] \in Nat
        BY <1>2, <2>3 DEF IInv, TypeOK, last
      <4>4. got[b][i] < last - Len(queue[b]) + 1
        BY <4>1, <4>2, <4>3, IntervalBelow
      <4> QED
        BY <3>2, <4>2, <4>4
    <3> HIDE DEF e
    <3>4. /\ Len(got[b]) \in Nat /\ Len(got'[b]) = Len(got[b]) + 1
          /\ \A i \in 1..Len(got[b]) : got'[b][i] = got[b][i]
          /\ got'[b][Len(got[b]) + 1] = e
      BY <3>1, <3>2, AppendFacts
    <3> SUFFICES ASSUME NEW i \in 1..Len(got'[b]), NEW j \in 1..Len(got'[b]), i < j
                 PROVE  got'[b][i] < got'[b][j]
      OBVIOUS
    <3>5. i \in 1..Len(got[b]) /\ got'[b][i] = got[b][i]
      BY <3>4
    <3>6. CASE j = Len(got[b]) + 1
      BY <3>3, <3>4, <3>5, <3>6
    <3>7. CASE j \in 1..Len(got[b])
      BY <1>2, <2>3, <3>4, <3>5, <3>7 DEF InOrder
    <3> QED
      BY <3>4, <3>6, <3>7
  <2>4. (b \in on /\ got'[b] = got[b]) \/ got'[b] = <<>> \/ (b \in on /\ Take(b))
    <3>1. ASSUME UNCHANGED <<on, got>> PROVE b \in on /\ got'[b] = got[b]
      BY <3>1
    <3>2. CASE \/ ReceiveLine \/ Load \/ UNCHANGED vars
               \/ \E kind \in {"error", "closed"} : ReceiveEnd(kind)
      BY <3>1, <3>2 DEF ReceiveLine, Load, ReceiveEnd, vars, viewerVars
    <3>3. ASSUME NEW c \in Browsers, Subscribe(c) PROVE (b \in on /\ got'[b] = got[b]) \/ got'[b] = <<>> \/ (b \in on /\ Take(b))
      BY <1>2, <3>3 DEF Subscribe, IInv, TypeOK
    <3>4. ASSUME NEW c \in Browsers, Take(c) PROVE (b \in on /\ got'[b] = got[b]) \/ got'[b] = <<>> \/ (b \in on /\ Take(b))
      BY <1>2, <3>4 DEF Take, IInv, TypeOK
    <3>5. ASSUME NEW c \in Browsers, Unsubscribe(c) PROVE (b \in on /\ got'[b] = got[b]) \/ got'[b] = <<>> \/ (b \in on /\ Take(b))
      BY <1>2, <3>5 DEF Unsubscribe, IInv, TypeOK
    <3> QED
      BY <1>2, <3>2, <3>3, <3>4, <3>5 DEF Next
  <2> QED
    BY <2>1, <2>2, <2>3, <2>4
<1> QED
  BY <1>1, <1>2, Invariance, PTL DEF Spec

\* Every event is in exactly one place for every browser.
THEOREM BackfillMeetsQueue == Spec => []NeitherNorBoth
<1>1. ASSUME IInv, NEW b \in on
      PROVE  /\ \A e \in Elements(backfill[b]) : e <= since[b]
             /\ Elements(got[b]) \cup Elements(queue[b]) \cup dropped[b]
                   = since[b] + 1 .. last
             /\ Elements(got[b]) \cap Elements(queue[b]) = {}
             /\ dropped[b] \cap (Elements(got[b]) \cup Elements(queue[b])) = {}
  <2>1. /\ \A i \in 1..Len(backfill[b]) : backfill[b][i] <= since[b]
        /\ since[b] + Len(queue[b]) <= last
        /\ Elements(got[b]) \cup dropped[b] = since[b] + 1 .. last - Len(queue[b])
        /\ Elements(got[b]) \cap dropped[b] = {}
        /\ \A i \in 1..Len(queue[b]) : queue[b][i] = last - Len(queue[b]) + i
    BY <1>1 DEF IInv, Split, QueueIsWindow
  <2>2. last \in Nat /\ since[b] \in Nat /\ Len(queue[b]) \in Nat
    <3>1. queue[b] \in Seq(Nat) /\ log \in Seq(Kinds) /\ since[b] \in Nat
      BY <1>1 DEF IInv, TypeOK
    <3> QED
      BY <3>1 DEF last
  <2>3. Elements(queue[b]) = last - Len(queue[b]) + 1 .. last
    <3>1. queue[b] \in Seq(Nat)
      BY <1>1 DEF IInv, TypeOK
    <3> QED
      BY ONLY <2>1, <2>2, <3>1, WindowElements
  <2>4. /\ (since[b] + 1 .. last - Len(queue[b])) \cup (last - Len(queue[b]) + 1 .. last)
              = since[b] + 1 .. last
        /\ (since[b] + 1 .. last - Len(queue[b])) \cap (last - Len(queue[b]) + 1 .. last) = {}
    BY ONLY <2>1, <2>2, IntervalSplit
  <2>7. \A e \in Elements(backfill[b]) : e <= since[b]
    BY ONLY <2>1 DEF Elements
  <2> QED
    BY ONLY <2>1, <2>3, <2>4, <2>7
<1>2. IInv => NeitherNorBoth
  BY <1>1 DEF NeitherNorBoth
<1> QED
  BY Invariance, <1>2, PTL

\* The oldest event a queue of n events still holds, before and after a publish.
LEMMA OldestQueued ==
    ASSUME NEW l \in Nat, NEW n \in Nat, NEW m \in Nat,
           m = IF n >= QueueMax THEN n ELSE n + 1,
           n >= QueueMax => n = QueueMax
    PROVE  (l + 1) - m + 1 = Feed!MaxOf(l - n + 1, (l + 1) - QueueMax + 1)
<1>1. QueueMax \in Nat
  BY SizesAssumption
<1>2. CASE n >= QueueMax
  BY <1>1, <1>2 DEF Feed!MaxOf
<1>3. CASE ~(n >= QueueMax)
  BY <1>1, <1>3 DEF Feed!MaxOf
<1> QED
  BY <1>1, <1>2, <1>3

\* The queues implement the feed: what a browser is shown, and misses, is what
\* LineFeed allows.
THEOREM ImplementsFeed == Spec => FeedSpec
<1> DEFINE nextOf == [b \in Browsers |-> last - Len(queue[b]) + 1]
<1>1. Init => Feed!Init
  BY DEF Init, Feed!Init, last
<1>2. ASSUME IInv, NEW kind \in Kinds, Publish(kind), UNCHANGED viewerVars PROVE Feed!Emit
  <2>1. /\ last' = last + 1 /\ last \in Nat /\ on' = on
        /\ \A b \in on : /\ Len(queue'[b]) = IF Full(queue[b]) THEN Len(queue[b])
                                                              ELSE Len(queue[b]) + 1
                         /\ Full(queue[b]) => Len(queue[b]) = QueueMax
        /\ \A b \in Browsers \ on : queue'[b] = queue[b]
    BY <1>2, PublishFacts DEF viewerVars
  <2>2. \A b \in Browsers : Len(queue[b]) \in Nat
    BY <1>2 DEF IInv, TypeOK
  <2>3. \A b \in Browsers \ on : Len(queue[b]) = 0
    BY <1>2 DEF IInv, TypeOK
  <2>4. \A b \in on : Full(queue[b]) <=> Len(queue[b]) >= QueueMax
    BY DEF Full
  <2>5. ASSUME NEW b \in on
        PROVE  last' - Len(queue'[b]) + 1
                  = Feed!MaxOf(last - Len(queue[b]) + 1, last' - QueueMax + 1)
    <3>1. Len(queue[b]) \in Nat
      BY <1>2, <2>2 DEF IInv, TypeOK
    <3>2. /\ Len(queue'[b]) = IF Len(queue[b]) >= QueueMax THEN Len(queue[b])
                                                          ELSE Len(queue[b]) + 1
          /\ Len(queue[b]) >= QueueMax => Len(queue[b]) = QueueMax
      BY ONLY <2>1, <2>4
    <3>3. Len(queue'[b]) \in Nat
      BY ONLY <3>1, <3>2
    <3>4. last' = last + 1 /\ last \in Nat
      BY ONLY <2>1
    <3>5. (last + 1) - Len(queue'[b]) + 1
             = Feed!MaxOf(last - Len(queue[b]) + 1, (last + 1) - QueueMax + 1)
      BY ONLY <3>1, <3>2, <3>3, <3>4, OldestQueued
    <3> QED
      BY ONLY <3>4, <3>5
  <2>6. ASSUME NEW b \in Browsers \ on
        PROVE  last' - Len(queue'[b]) + 1 = last' + 1
    <3>1. Len(queue'[b]) = 0
      BY ONLY <2>1, <2>3
    <3>2. last' \in Nat
      <4>1. last' = last + 1 /\ last \in Nat
        BY ONLY <2>1
      <4> QED
        BY ONLY <4>1
    <3> QED
      BY ONLY <3>1, <3>2
  <2>7. nextOf' = [b \in Browsers |->
                     IF b \in on THEN Feed!MaxOf(nextOf[b], last' - QueueMax + 1)
                                 ELSE last' + 1]
    BY <2>5, <2>6
  <2> QED
    BY <2>1, <2>7 DEF Feed!Emit
<1>3. IInv /\ [Next]_vars => [Feed!Next]_(Feed!feedVars)
  <2> SUFFICES ASSUME IInv, [Next]_vars PROVE [Feed!Next]_(Feed!feedVars)
    OBVIOUS
  <2>0. last \in Nat /\ queue \in [Browsers -> Seq(Nat)] /\ on \subseteq Browsers
        /\ \A b \in Browsers \ on : queue[b] = <<>>
    BY DEF IInv, TypeOK, last
  <2>1. CASE ReceiveLine \/ \E kind \in {"error", "closed"} : ReceiveEnd(kind)
    BY <1>2, <2>1 DEF ReceiveLine, ReceiveEnd, Kinds, Feed!Next
  <2>2. CASE Load
    BY <2>2 DEF Load, viewerVars, Feed!feedVars, last
  <2>3. ASSUME NEW b \in Browsers, Subscribe(b) PROVE Feed!Enter(b)
    <3>1. queue[b] = <<>>
      BY <2>0, <2>3 DEF Subscribe
    <3>2. queue' = queue
      BY <2>0, <2>3, <3>1 DEF Subscribe
    <3> QED
      BY <2>3, <3>2 DEF Subscribe, Feed!Enter, last
  <2>4. ASSUME NEW b \in Browsers, Take(b) PROVE Feed!Show(b)
    <3>1. /\ Len(Tail(queue[b])) = Len(queue[b]) - 1 /\ Len(queue[b]) \in Nat \ {0}
      BY <2>0, <2>4, TailFacts DEF Take
    <3>2. queue'[b] = Tail(queue[b]) /\ last' = last /\ on' = on /\ b \in on
          /\ \A c \in Browsers : c # b => queue'[c] = queue[c]
      BY <2>0, <2>4 DEF Take, last
    <3>3. last' - Len(queue'[b]) + 1 = nextOf[b] + 1
      BY <2>0, <3>1, <3>2
    <3>4. nextOf' = [nextOf EXCEPT ![b] = @ + 1]
      BY <3>2, <3>3
    <3>5. nextOf[b] <= last
      BY <2>0, <3>1
    <3> QED
      BY <3>2, <3>4, <3>5 DEF Feed!Show
  <2>5. ASSUME NEW b \in Browsers, Unsubscribe(b) PROVE Feed!Exit(b)
    <3>1. /\ queue'[b] = <<>> /\ last' = last /\ on' = on \ {b} /\ b \in on
          /\ \A c \in Browsers : c # b => queue'[c] = queue[c]
      BY <2>0, <2>5 DEF Unsubscribe, last
    <3>2. last' - Len(queue'[b]) + 1 = last + 1
      BY <2>0, <3>1
    <3>3. nextOf' = [nextOf EXCEPT ![b] = last + 1]
      BY <3>1, <3>2
    <3> QED
      BY <3>1, <3>3 DEF Feed!Exit
  <2>6. CASE UNCHANGED vars
    BY <2>6 DEF vars, Feed!feedVars, last
  <2> QED
    BY <2>1, <2>2, <2>3, <2>4, <2>5, <2>6 DEF Next, Feed!Next
<1> QED
  BY <1>1, <1>3, Invariance, PTL DEF Spec, FeedSpec, Feed!Spec

-----------------------------------------------------------------------------
(* The ring *)

\* deque(maxlen) is the end of what it was given, all of it or BufferMax elements.
LEMMA RingSuffix ==
    ASSUME NEW c \in Seq(Int)
    PROVE  LET r == Ring(c)
           IN  /\ r \in Seq(Int) /\ Len(r) \in Nat /\ Len(c) \in Nat
               /\ Len(r) <= BufferMax /\ Len(r) <= Len(c)
               /\ Len(r) = Len(c) \/ Len(r) = BufferMax
               /\ \A i \in 1..Len(r) : /\ Len(c) - Len(r) + i \in 1..Len(c)
                                       /\ r[i] = c[Len(c) - Len(r) + i]
<1>0. BufferMax \in Nat /\ Len(c) \in Nat
  BY SizesAssumption
<1>1. CASE Len(c) > BufferMax
  <2> DEFINE m == Len(c) - BufferMax + 1
             r == SubSeq(c, m, Len(c))
  <2>1. Ring(c) = r
    BY <1>1 DEF Ring
  <2>2. m \in 1..Len(c) + 1
    BY <1>0, <1>1
  <2>3. r \in Seq(Int) /\ Len(r) = BufferMax /\ \A i \in 1..Len(r) : r[i] = c[m + i - 1]
    BY <1>0, <1>1, <2>2, SubSeqProperties
  <2> HIDE DEF r
  <2>4. \A i \in 1..BufferMax : /\ Len(c) - BufferMax + i \in 1..Len(c)
                                /\ m + i - 1 = Len(c) - BufferMax + i
    BY <1>0, <1>1
  <2> QED
    BY <1>0, <1>1, <2>1, <2>3, <2>4
<1>2. CASE ~(Len(c) > BufferMax)
  BY <1>0, <1>2 DEF Ring
<1> QED
  BY <1>1, <1>2

\* So when what it was given is in the order p, so is the ring, and what is not in
\* it any more comes before all that is.
LEMMA RingNewest ==
    ASSUME NEW c \in Seq(Int), NEW p \in [Int -> Int],
           \A i, j \in 1..Len(c) : i < j => p[c[i]] < p[c[j]]
    PROVE  LET r == Ring(c)
           IN  /\ \A i, j \in 1..Len(r) : i < j => p[r[i]] < p[r[j]]
               /\ \A i \in 1..Len(r) : r[i] \in Elements(c)
               /\ \A x \in Elements(c) \ Elements(r) :
                     /\ Len(r) = BufferMax
                     /\ \A i \in 1..Len(r) : p[x] < p[r[i]]
               /\ Len(c) >= BufferMax => Len(r) = BufferMax
               /\ Len(r) <= BufferMax
<1> DEFINE r == Ring(c)
           k == Len(c) - Len(r)
<1>1. /\ r \in Seq(Int) /\ Len(r) \in Nat /\ Len(c) \in Nat
      /\ Len(r) <= BufferMax /\ Len(r) <= Len(c)
      /\ Len(r) = Len(c) \/ Len(r) = BufferMax
      /\ \A i \in 1..Len(r) : k + i \in 1..Len(c) /\ r[i] = c[k + i]
  BY RingSuffix
<1> HIDE DEF r
<1>2. ASSUME NEW i \in 1..Len(r), NEW j \in 1..Len(r), i < j PROVE p[r[i]] < p[r[j]]
  <2>1. k + i < k + j
    BY <1>1, <1>2
  <2> QED
    BY <1>1, <2>1
<1>3. \A i \in 1..Len(r) : r[i] \in Elements(c)
  BY <1>1 DEF Elements
<1>4. ASSUME NEW x \in Elements(c) \ Elements(r)
      PROVE  Len(r) = BufferMax /\ \A i \in 1..Len(r) : p[x] < p[r[i]]
  <2>1. PICK m \in 1..Len(c) : x = c[m]
    BY DEF Elements
  <2>2. m <= k
    <3> SUFFICES ASSUME m > k PROVE FALSE
      BY <1>1
    <3>1. m - k \in 1..Len(r) /\ k + (m - k) = m
      BY <1>1
    <3>2. r[m - k] = x
      BY <1>1, <2>1, <3>1
    <3> QED
      BY <3>1, <3>2 DEF Elements
  <2>3. Len(r) = BufferMax
    BY <1>1, <2>2
  <2>4. ASSUME NEW i \in 1..Len(r) PROVE p[x] < p[r[i]]
    <3>1. m < k + i /\ k + i \in 1..Len(c) /\ r[i] = c[k + i]
      BY <1>1, <2>2
    <3> QED
      BY <2>1, <3>1
  <2> QED
    BY <2>3, <2>4
<1>5. (Len(c) >= BufferMax => Len(r) = BufferMax) /\ Len(r) <= BufferMax
  BY <1>1, SizesAssumption
<1> QED
  BY <1>2, <1>3, <1>4, <1>5 DEF r

\* The ring never exceeds its size, and holds only lines it was given.
RingOK ==
    /\ Len(buffer) <= BufferMax
    /\ Elements(buffer) \subseteq Received
    /\ loaded => early <= last

\* What is missing from the ring precedes it, for an order p of the lines.
InOrderOf(p, s, R) ==
    /\ \A i, j \in 1..Len(s) : i < j => p[s[i]] < p[s[j]]
    /\ \A x \in R \ Elements(s) :
          Len(s) = BufferMax /\ \A i \in 1..Len(s) : p[x] < p[s[i]]

LEMMA PlaceBehind ==
    ASSUME NEW m \in Nat, NEW n \in Nat, NEW i \in 1..n
    PROVE  m + i \in 1..m + n /\ m + i > m /\ (m + i) - m = i
  OBVIOUS

\* Lines are put behind a ring, all later than what came before: the ring of both
\* holds the newest.
LEMMA RingExtend ==
    ASSUME NEW s \in Seq(Int), NEW t \in Seq(Int), NEW p \in [Int -> Int],
           NEW R \in SUBSET Int, Len(s) <= BufferMax, Elements(s) \subseteq R,
           InOrderOf(p, s, R),
           \A i, j \in 1..Len(t) : i < j => p[t[i]] < p[t[j]],
           \A x \in R : \A j \in 1..Len(t) : p[x] < p[t[j]]
    PROVE  LET r == Ring(s \o t)
           IN  /\ InOrderOf(p, r, R \cup Elements(t))
               /\ Len(r) <= BufferMax
               /\ Elements(r) \subseteq R \cup Elements(t)
<1> DEFINE c == s \o t
           r == Ring(c)
<1>0. BufferMax \in Nat /\ Len(s) \in Nat /\ Len(t) \in Nat
  BY SizesAssumption
<1>1. /\ c \in Seq(Int) /\ Len(c) = Len(s) + Len(t)
      /\ \A i \in 1..Len(s) + Len(t) :
            c[i] = IF i <= Len(s) THEN s[i] ELSE t[i - Len(s)]
  BY ConcatProperties
<1> HIDE DEF c
<1>2. \A i \in 1..Len(s) : i \in 1..Len(c) /\ c[i] = s[i] /\ s[i] \in R
  <2>1. \A i \in 1..Len(s) : i \in 1..Len(s) + Len(t) /\ i <= Len(s)
    BY ONLY <1>0
  <2>2. \A i \in 1..Len(s) : s[i] \in Elements(s)
    BY ONLY DEF Elements
  <2>3. Elements(s) \subseteq R
    OBVIOUS
  <2> QED
    BY ONLY <1>1, <2>1, <2>2, <2>3
<1>3. \A i \in 1..Len(t) : Len(s) + i \in 1..Len(c) /\ c[Len(s) + i] = t[i]
  <2> SUFFICES ASSUME NEW i \in 1..Len(t)
               PROVE  Len(s) + i \in 1..Len(c) /\ c[Len(s) + i] = t[i]
    OBVIOUS
  <2> DEFINE n == Len(s) + i
  <2>1. n \in 1..Len(s) + Len(t) /\ n > Len(s) /\ n - Len(s) = i
    BY <1>0, PlaceBehind
  <2> HIDE DEF n
  <2>2. n \in 1..Len(c) /\ c[n] = t[n - Len(s)]
    <3>1. ~(n <= Len(s))
      BY ONLY <1>0, <2>1
    <3> QED
      BY ONLY <1>1, <2>1, <3>1
  <2> QED
    BY <2>1, <2>2 DEF n
<1>4. \A i \in 1..Len(c) : \/ i \in 1..Len(s)
                           \/ i - Len(s) \in 1..Len(t) /\ c[i] = t[i - Len(s)]
  BY <1>0, <1>1
<1>5. Elements(c) = Elements(s) \cup Elements(t)
  <2>1. ASSUME NEW i \in 1..Len(c) PROVE c[i] \in Elements(s) \cup Elements(t)
    BY ONLY <1>2, <1>4, <2>1 DEF Elements
  <2>2. ASSUME NEW i \in 1..Len(s) PROVE s[i] \in Elements(c)
    BY ONLY <1>2, <2>2 DEF Elements
  <2>3. ASSUME NEW i \in 1..Len(t) PROVE t[i] \in Elements(c)
    BY ONLY <1>3, <2>3 DEF Elements
  <2> QED
    BY ONLY <2>1, <2>2, <2>3 DEF Elements
<1>6. ASSUME NEW i \in 1..Len(c), NEW j \in 1..Len(c), i < j PROVE p[c[i]] < p[c[j]]
  <2>1. CASE j \in 1..Len(s)
    <3>1. i \in 1..Len(s)
      BY <1>0, <1>6, <2>1
    <3> QED
      BY <1>2, <1>6, <2>1, <3>1 DEF InOrderOf
  <2>2. CASE i \in 1..Len(s) /\ j - Len(s) \in 1..Len(t) /\ c[j] = t[j - Len(s)]
    BY <1>2, <2>2
  <2>3. CASE /\ i - Len(s) \in 1..Len(t) /\ c[i] = t[i - Len(s)]
             /\ j - Len(s) \in 1..Len(t) /\ c[j] = t[j - Len(s)]
    <3>1. i - Len(s) < j - Len(s)
      BY <1>0, <1>6
    <3> QED
      BY <2>3, <3>1
  <2> QED
    BY <1>4, <2>1, <2>2, <2>3
<1>7. /\ \A i, j \in 1..Len(r) : i < j => p[r[i]] < p[r[j]]
      /\ \A i \in 1..Len(r) : r[i] \in Elements(c)
      /\ \A x \in Elements(c) \ Elements(r) :
            Len(r) = BufferMax /\ \A i \in 1..Len(r) : p[x] < p[r[i]]
      /\ Len(c) >= BufferMax => Len(r) = BufferMax
      /\ Len(r) <= BufferMax
  BY <1>1, <1>6, RingNewest
<1> HIDE DEF r
<1>8. ASSUME NEW x \in (R \cup Elements(t)) \ Elements(r)
      PROVE  Len(r) = BufferMax /\ \A i \in 1..Len(r) : p[x] < p[r[i]]
  <2>1. CASE x \in Elements(c)
    BY <1>7, <2>1
  <2>2. CASE x \notin Elements(c)
    <3>1. x \in R \ Elements(s)
      BY <1>5, <2>2
    <3>2. Len(s) = BufferMax /\ \A i \in 1..Len(s) : p[x] < p[s[i]]
      BY <3>1 DEF InOrderOf
    <3>3. Len(r) = BufferMax
      BY <1>0, <1>1, <1>7, <3>2
    <3>4. ASSUME NEW i \in 1..Len(r) PROVE p[x] < p[r[i]]
      <4>1. r[i] \in Elements(s) \/ r[i] \in Elements(t)
        BY <1>5, <1>7
      <4> QED
        BY <3>1, <3>2, <4>1 DEF Elements
    <3> QED
      BY <3>3, <3>4
  <2> QED
    BY <2>1, <2>2
<1>9. Elements(r) \subseteq Elements(c)
  BY <1>7 DEF Elements
<1>10. Elements(c) \subseteq R \cup Elements(t)
  BY <1>5
<1> QED
  BY <1>7, <1>8, <1>9, <1>10 DEF InOrderOf, r, c

\* The order of arrival as a function.
Places == [x \in Int |-> Arrival(x)]

LEMMA PlacesFacts ==
    ASSUME IInv
    PROVE  /\ Places \in [Int -> Int] /\ \A x \in Int : Places[x] = Arrival(x)
           /\ Received \subseteq Int /\ last \in Nat /\ early \in Nat
           /\ FirstLines \in Nat /\ buffer \in Seq(Int)
<1>1. /\ last \in Nat /\ early \in Nat /\ FirstLines \in Nat /\ buffer \in Seq(Int)
  BY SizesAssumption DEF IInv, TypeOK, last
<1>2. \A x \in Int : Arrival(x) \in Int
  BY <1>1 DEF Arrival
<1>3. Received \subseteq Int
  BY <1>1 DEF Received
<1> QED
  BY <1>1, <1>2, <1>3 DEF Places

LEMMA BufferIsOrdered ==
    ASSUME IInv PROVE BufferIsNewest <=> InOrderOf(Places, buffer, Received)
<1>1. \A i \in 1..Len(buffer) : buffer[i] \in Int
  BY PlacesFacts
<1> QED
  BY <1>1, PlacesFacts DEF BufferIsNewest, InOrderOf

\* Only the places of lines that have come matter.
LEMMA OrderOfReceived ==
    ASSUME NEW p, NEW q, NEW s \in Seq(Int), NEW R, InOrderOf(p, s, R),
           Elements(s) \subseteq R, \A x \in R : p[x] = q[x]
    PROVE  InOrderOf(q, s, R)
<1>1. \A i \in 1..Len(s) : s[i] \in R /\ p[s[i]] = q[s[i]]
  BY DEF Elements
<1> QED
  BY <1>1 DEF InOrderOf

\* The same of the next state.
LEMMA PlacesNext ==
    ASSUME IInv'
    PROVE  /\ Places' \in [Int -> Int] /\ \A x \in Int : Places'[x] = Arrival(x)'
           /\ Received' \subseteq Int /\ buffer' \in Seq(Int)
           /\ InOrderOf(Places', buffer', Received') => BufferIsNewest'
<1>1. /\ last' \in Nat /\ early' \in Nat /\ FirstLines \in Nat /\ buffer' \in Seq(Int)
  BY SizesAssumption DEF IInv, TypeOK, last
<1>2. \A x \in Int : Arrival(x)' \in Int
  BY <1>1 DEF Arrival
<1>3. Received' \subseteq Int
  BY <1>1 DEF Received
<1>4. Places' \in [Int -> Int] /\ \A x \in Int : Places'[x] = Arrival(x)'
  BY <1>2 DEF Places
<1>5. \A i \in 1..Len(buffer') : buffer'[i] \in Int
  BY <1>1
<1> QED
  BY <1>1, <1>3, <1>4, <1>5 DEF BufferIsNewest, InOrderOf, Elements

LEMMA RingStep ==
    IInv /\ RingOK /\ BufferIsNewest /\ [Next]_vars => RingOK' /\ BufferIsNewest'
<1> SUFFICES ASSUME IInv, RingOK, BufferIsNewest, [Next]_vars
             PROVE  RingOK' /\ BufferIsNewest'
  OBVIOUS
<1>0. /\ Places \in [Int -> Int] /\ \A x \in Int : Places[x] = Arrival(x)
      /\ Received \subseteq Int /\ last \in Nat /\ early \in Nat
      /\ FirstLines \in Nat /\ buffer \in Seq(Int)
  BY PlacesFacts
<1>i. IInv'
  BY IInvStep
<1>p. /\ Places' \in [Int -> Int] /\ \A x \in Int : Places'[x] = Arrival(x)'
      /\ Received' \subseteq Int
  BY <1>i, PlacesNext
<1>a. Len(buffer) <= BufferMax /\ Elements(buffer) \subseteq Received
      /\ InOrderOf(Places, buffer, Received) /\ (loaded => early <= last)
  BY BufferIsOrdered DEF RingOK
<1>b. ASSUME InOrderOf(Places', buffer', Received') PROVE BufferIsNewest'
  BY <1>b, <1>i, PlacesNext
<1>c. ASSUME NEW kind \in Kinds, Publish(kind)
      PROVE  /\ last' = last + 1 /\ log'[last + 1] = kind
             /\ \A e \in 1..last' : e \in 1..last \/ e = last + 1
             /\ \A e \in 1..last : log'[e] = log[e]
  <2>1. log' = Append(log, kind) /\ log \in Seq(Kinds)
    BY <1>c DEF Publish, IInv, TypeOK
  <2>2. /\ Len(log') = Len(log) + 1 /\ log'[Len(log) + 1] = kind
        /\ \A e \in 1..Len(log) : log'[e] = log[e] /\ Len(log) \in Nat
    BY <2>1, AppendFacts
  <2>3. /\ last' = last + 1 /\ log'[last + 1] = kind
        /\ \A e \in 1..last : log'[e] = log[e]
    BY <2>2 DEF last
  <2>4. \A e \in 1..last + 1 : e \in 1..last \/ e = last + 1
    BY ONLY <1>0
  <2> QED
    BY ONLY <2>3, <2>4
<1>1. CASE ReceiveLine
  <2>1. /\ last' = last + 1 /\ log'[last + 1] = "line"
        /\ \A e \in 1..last' : e \in 1..last \/ e = last + 1
        /\ \A e \in 1..last : log'[e] = log[e]
    BY <1>1, <1>c DEF ReceiveLine, Kinds
  <2>2. buffer' = Ring(Append(buffer, last + 1)) /\ loaded' = loaded /\ early' = early
    BY <1>1 DEF ReceiveLine
  <2> DEFINE t == <<last + 1>>
  <2>3. t \in Seq(Int) /\ Len(t) = 1 /\ t[1] = last + 1 /\ Elements(t) = {last + 1}
    BY <1>0 DEF Elements
  <2>4. Append(buffer, last + 1) = buffer \o t
    <3>1. /\ Append(buffer, last + 1) \in Seq(Int)
          /\ Len(Append(buffer, last + 1)) = Len(buffer) + 1
          /\ \A i \in 1..Len(buffer) : Append(buffer, last + 1)[i] = buffer[i]
          /\ Append(buffer, last + 1)[Len(buffer) + 1] = last + 1
      BY ONLY <1>0, AppendFacts
    <3>2. /\ buffer \o t \in Seq(Int) /\ Len(buffer \o t) = Len(buffer) + Len(t)
          /\ \A i \in 1..Len(buffer) + Len(t) :
                (buffer \o t)[i] = IF i <= Len(buffer) THEN buffer[i] ELSE t[i - Len(buffer)]
      BY ONLY <1>0, <2>3, ConcatProperties
    <3>3. Len(buffer) \in Nat
      BY ONLY <1>0
    <3> DEFINE a == Append(buffer, last + 1)
               d == buffer \o t
    <3> HIDE DEF a, d
    <3>4. a \in Seq(Int) /\ d \in Seq(Int) /\ Len(a) = Len(buffer) + 1 /\ Len(d) = Len(a)
      BY <2>3, <3>1, <3>2 DEF a, d
    <3>5. ASSUME NEW i \in 1..Len(a) PROVE a[i] = d[i]
      <4>1. CASE i \in 1..Len(buffer)
        <5>1. i <= Len(buffer) /\ i \in 1..Len(buffer) + Len(t)
          BY ONLY <2>3, <3>3, <4>1
        <5> QED
          BY <3>1, <3>2, <4>1, <5>1 DEF a, d
      <4>2. CASE i = Len(buffer) + 1
        <5>1. ~(i <= Len(buffer)) /\ i - Len(buffer) = 1 /\ i \in 1..Len(buffer) + Len(t)
          BY ONLY <2>3, <3>3, <4>2
        <5> QED
          BY <2>3, <3>1, <3>2, <4>2, <5>1 DEF a, d
      <4> QED
        BY ONLY <3>3, <3>4, <4>1, <4>2, <3>5
    <3>6. a = d
      BY ONLY <3>4, <3>5, SeqEqual
    <3> QED
      BY <3>6 DEF a, d
  <2> HIDE DEF t
  <2>5. Received' = Received \cup Elements(t)
    <3>1. {e \in 1..last' : log'[e] = "line"} = {e \in 1..last : log[e] = "line"} \cup {last + 1}
      <4>1. last + 1 \in 1..last' /\ 1..last \subseteq 1..last'
        BY ONLY <1>0, <2>1
      <4> QED
        BY ONLY <2>1, <4>1
    <3> QED
      BY ONLY <2>2, <2>3, <3>1 DEF Received
  <2>6. \A x \in Int : Arrival(x)' = Arrival(x)
    BY <2>2 DEF Arrival
  <2>7. ASSUME NEW x \in Received PROVE Arrival(x) < Arrival(last + 1)
    <3>1. x \in Int /\ (x \in 1..last \/ (loaded /\ x \in 1 - FirstLines .. 0))
      BY <1>0 DEF Received
    <3> QED
      BY <1>0, <1>a, <3>1 DEF Arrival
  <2>8. /\ \A x \in Received : \A j \in 1..Len(t) : Places[x] < Places[t[j]]
        /\ \A i, j \in 1..Len(t) : i < j => Places[t[i]] < Places[t[j]]
    <3>1. last + 1 \in Int /\ \A j \in 1..Len(t) : j = 1 /\ t[j] = last + 1
      BY <1>0, <2>3
    <3>2. ASSUME NEW x \in Received, NEW j \in 1..Len(t) PROVE Places[x] < Places[t[j]]
      <4>1. t[j] = last + 1 /\ x \in Int /\ last + 1 \in Int
        BY ONLY <1>0, <3>1, <3>2
      <4>2. Places[x] = Arrival(x) /\ Places[last + 1] = Arrival(last + 1)
        BY ONLY <1>0, <4>1
      <4> QED
        BY <2>7, <4>1, <4>2
    <3>3. ASSUME NEW i \in 1..Len(t), NEW j \in 1..Len(t), i < j PROVE FALSE
      BY ONLY <2>3, <3>3
    <3> QED
      BY ONLY <3>2, <3>3
  <2>9. /\ InOrderOf(Places, buffer', Received \cup Elements(t))
        /\ Len(buffer') <= BufferMax
        /\ Elements(buffer') \subseteq Received \cup Elements(t)
    BY <1>0, <1>a, <2>2, <2>3, <2>4, <2>8, RingExtend
  <2>10. InOrderOf(Places', buffer', Received')
    <3>1. \A x \in Received' : Places[x] = Places'[x]
      BY <1>0, <1>p, <2>6
    <3>2. buffer' \in Seq(Int)
      BY <1>i DEF IInv, TypeOK
    <3> QED
      BY <2>5, <2>9, <3>1, <3>2, OrderOfReceived
  <2>11. RingOK'
    <3>1. Elements(buffer)' = Elements(buffer')
      BY DEF Elements
    <3> QED
      BY <1>0, <1>a, <2>1, <2>2, <2>5, <2>9, <3>1 DEF RingOK
  <2> QED
    BY <1>b, <2>10, <2>11
<1>2. ASSUME NEW kind \in {"error", "closed"}, ReceiveEnd(kind)
      PROVE  RingOK' /\ BufferIsNewest'
  <2>1. /\ last' = last + 1 /\ \A e \in 1..last' : e \in 1..last \/ e = last + 1
        /\ \A e \in 1..last : log'[e] = log[e]
        /\ log'[last + 1] # "line" /\ buffer' = buffer /\ loaded' = loaded /\ early' = early
    BY <1>2, <1>c DEF ReceiveEnd, Kinds
  <2>2. Received' = Received
    <3>1. {e \in 1..last' : log'[e] = "line"} = {e \in 1..last : log[e] = "line"}
      <4>1. 1..last \subseteq 1..last'
        BY ONLY <1>0, <2>1
      <4> QED
        BY ONLY <2>1, <4>1
    <3> QED
      BY ONLY <2>1, <3>1 DEF Received
  <2>3. \A x \in Int : Arrival(x)' = Arrival(x)
    BY <2>1 DEF Arrival
  <2>4. BufferIsNewest'
    <3>1. \A x \in Received : Places[x] = Places'[x]
      BY <1>0, <1>p, <2>3
    <3> QED
      BY <1>0, <1>a, <1>b, <2>1, <2>2, <3>1, OrderOfReceived
  <2>5. RingOK'
    BY <1>0, <1>a, <2>1, <2>2 DEF RingOK, Elements
  <2> QED
    BY <2>4, <2>5
<1>3. CASE Load
  <2> DEFINE t == [i \in 1..FirstLines |-> i - FirstLines]
  <2>1. /\ ~loaded /\ loaded' = TRUE /\ early' = last
        /\ buffer' = Ring(buffer \o t) /\ log' = log /\ last' = last
    BY <1>3 DEF Load, last
  <2>2. /\ t \in Seq(Int) /\ Len(t) = FirstLines
        /\ \A i \in 1..FirstLines : t[i] = i - FirstLines
    BY <1>0
  <2> HIDE DEF t
  <2>3. Elements(t) = 1 - FirstLines .. 0
    <3>1. ASSUME NEW x \in 1 - FirstLines .. 0 PROVE x \in Elements(t)
      <4>1. x + FirstLines \in 1..FirstLines /\ (x + FirstLines) - FirstLines = x
        BY <1>0
      <4> QED
        BY <2>2, <4>1 DEF Elements
    <3>2. ASSUME NEW i \in 1..FirstLines PROVE t[i] \in 1 - FirstLines .. 0
      BY <1>0, <2>2
    <3> QED
      BY <2>2, <3>1, <3>2 DEF Elements
  <2>4. Received = {e \in 1..last : log[e] = "line"} /\ Received' = Received \cup Elements(t)
    BY <2>1, <2>3 DEF Received
  <2>5. \A x \in Received : x \in 1..last /\ Arrival(x)' = x /\ Arrival(x) = x
    BY <1>0, <2>1, <2>4 DEF Arrival
  <2>6. \A j \in 1..Len(t) : t[j] \in Int /\ t[j] = j - FirstLines /\ Arrival(t[j])' = last + j
    <3> SUFFICES ASSUME NEW j \in 1..Len(t)
                 PROVE  t[j] \in Int /\ t[j] = j - FirstLines /\ Arrival(t[j])' = last + j
      OBVIOUS
    <3>1. t[j] = j - FirstLines /\ j - FirstLines \in Int /\ j - FirstLines <= 0
      BY <1>0, <2>2
    <3>2. Arrival(t[j])' = last + FirstLines + (j - FirstLines)
      BY <2>1, <3>1 DEF Arrival
    <3>3. last + FirstLines + (j - FirstLines) = last + j
      BY ONLY <1>0, <2>2
    <3> QED
      BY <3>1, <3>2, <3>3
  <2>7. /\ \A x \in Received : \A j \in 1..Len(t) : Places'[x] < Places'[t[j]]
        /\ \A i, j \in 1..Len(t) : i < j => Places'[t[i]] < Places'[t[j]]
    <3>1. \A x \in Received : Places'[x] = x /\ x \in 1..last
      BY <1>0, <1>p, <2>5
    <3>2. \A j \in 1..Len(t) : Places'[t[j]] = last + j
      BY <1>p, <2>6
    <3>3. ASSUME NEW x \in 1..last, NEW j \in 1..Len(t) PROVE x < last + j
      BY ONLY <1>0, <2>2, <3>3
    <3>4. ASSUME NEW i \in 1..Len(t), NEW j \in 1..Len(t), i < j PROVE last + i < last + j
      BY ONLY <1>0, <2>2, <3>4
    <3> QED
      BY ONLY <3>1, <3>2, <3>3, <3>4
  <2>8. InOrderOf(Places', buffer, Received)
    <3>1. \A x \in Received : Places[x] = Places'[x]
      BY <1>0, <1>p, <2>5
    <3> QED
      BY <1>0, <1>a, <3>1, OrderOfReceived
  <2>9. /\ InOrderOf(Places', buffer', Received \cup Elements(t))
        /\ Len(buffer') <= BufferMax
        /\ Elements(buffer') \subseteq Received \cup Elements(t)
    BY <1>0, <1>p, <1>a, <2>1, <2>2, <2>7, <2>8, RingExtend
  <2>10. RingOK'
    <3>1. Elements(buffer)' = Elements(buffer')
      BY DEF Elements
    <3> QED
      BY <1>0, <2>1, <2>4, <2>9, <3>1 DEF RingOK
  <2> QED
    BY <1>b, <2>4, <2>9, <2>10
<1>4. CASE UNCHANGED <<log, loaded, early, buffer>>
  BY <1>4 DEF RingOK, BufferIsNewest, Elements, Received, Arrival, last
<1>5. ASSUME NEW b \in Browsers, Subscribe(b) \/ Take(b) \/ Unsubscribe(b)
      PROVE  UNCHANGED <<log, loaded, early, buffer>>
  BY <1>5 DEF Subscribe, Take, Unsubscribe
<1> QED
  BY <1>1, <1>2, <1>3, <1>4, <1>5 DEF Next, vars

\* For any sizes, and wherever the agent's reply comes among the events: the buffer
\* holds the newest of all lines it was given in the order they came in, and a line
\* that is missing was evicted from a full ring before all that are there, so that no
\* backfill has a hole (session.py 48, 51-53, manager.py 55).
THEOREM BufferHasNoHole == Spec => []BufferIsNewest
<1>1. Init => RingOK /\ BufferIsNewest
  <2> SUFFICES ASSUME Init PROVE RingOK /\ BufferIsNewest
    OBVIOUS
  <2>1. buffer = <<>> /\ Len(buffer) = 0 /\ last = 0 /\ ~loaded
    BY DEF Init, last
  <2>2. Received = {} /\ Elements(buffer) = {}
    BY <2>1 DEF Received, Elements
  <2> QED
    BY <2>1, <2>2, SizesAssumption DEF RingOK, BufferIsNewest
<1> QED
  BY <1>1, RingStep, Invariance, PTL DEF Spec
=============================================================================
