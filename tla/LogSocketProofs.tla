--------------------------- MODULE LogSocketProofs ---------------------------
(***************************************************************************)
(* Once nothing is under way between a tab and the server, every panel is  *)
(* subscribed under the name the client knows, or was refused; the server  *)
(* has its filter; and what is streamed for it reaches it.  For any        *)
(* panels, filters, names and faults, and any number of reconnections.     *)
(***************************************************************************)
EXTENDS LogSocket, FiniteSetTheorems, TLAPS

\* Messages about a request, and messages that name a subscription.
Asking == {"subscribe", "subscribed", "error"}
Naming == {"subscribed", "unsubscribe", "filter"}

\* The ends of a connection agree on whether it is there, and nothing outlives it.
SocketInv ==
    /\ IsFiniteSet(subs)
    /\ ~serving => toServer = <<>> /\ \A s \in Subs : owner[s] = None
    /\ socket # "open" =>
          /\ toClient = <<>> /\ pending = {}
          /\ \A p \in Panels : serverSubId[p] = None
          /\ \A s \in Subs : routes[s] = None
    /\ waiting # {} => socket = "connecting"
    /\ ready # {} => socket = "open"

\* A request is on its way once, there or back, and its callback is registered.
RequestsOK(ts, tc, requests) ==
    /\ \A i \in 1..Len(ts) : ts[i].type \in Asking =>
          /\ ts[i].req \in requests
          /\ \A j \in 1..Len(ts) : ts[j].type \in Asking /\ i # j => ts[i].req # ts[j].req
          /\ \A j \in 1..Len(tc) : tc[j].type \in Asking => ts[i].req # tc[j].req
    /\ \A i \in 1..Len(tc) : tc[i].type \in Asking =>
          /\ tc[i].req \in requests
          /\ \A j \in 1..Len(tc) : tc[j].type \in Asking /\ i # j => tc[i].req # tc[j].req

\* A panel whose own callback is still due has not sent the request it will send.
RequestInv ==
    /\ \A p \in Panels : p \in waiting \cup ready => Request(p, "own") \notin pending
    /\ RequestsOK(toServer, toClient, pending)

\* The answer with a new name is the only message under way that has it.
NamesOK(ts, tc) ==
    \A i \in 1..Len(tc) : tc[i].type = "subscribed" =>
        /\ \A j \in 1..Len(tc) : tc[j].type = "subscribed" /\ i # j => tc[i].sub # tc[j].sub
        /\ \A m \in Range(ts) : m.type \in Naming => m.sub # tc[i].sub

\* A new name is routed nowhere before its answer arrives, and a route leads to the
\* panel the server serves and is not about to be unsubscribed.
NameInv ==
    /\ NamesOK(toServer, toClient)
    /\ \A m \in Range(toClient) : m.type = "subscribed" =>
          /\ routes[m.sub] = None
          /\ serving => owner[m.sub] = m.req.panel /\ serverFilter[m.sub] = None
    /\ serving => \A s \in Subs : routes[s] # None =>
          /\ owner[s] = routes[s]
          /\ \A m \in Range(toServer) : m.type = "unsubscribe" => m.sub # s

\* A subscription of a panel that is there is routed, or its answer is on the way.
StreamInv ==
    serving => \A s \in Subs : owner[s] \in subs =>
        \/ routes[s] = owner[s]
        \/ \E m \in Range(toClient) : m.type = "subscribed" /\ m.sub = s

\* A panel is subscribed or refused, or somebody is still to say so.
AwaitedInv ==
    serving => \A p \in subs :
        \/ serverSubId[p] # None
        \/ p \in refused \cup ready
        \/ \E m \in Range(toServer) : m.type = "subscribe" /\ m.req.panel = p
        \/ \E m \in Range(toClient) : m.type \in Asking /\ m.req.panel = p

\* The last word on the filter of s, on its way or in force, is f.
About(m, s) == m.type = "filter" /\ m.sub = s

InForce(ts, now, s, f) ==
    \/ now = f /\ \A i \in 1..Len(ts) : ~About(ts[i], s)
    \/ \E i \in 1..Len(ts) :
          /\ About(ts[i], s) /\ ts[i].filter = f
          /\ \A j \in 1..Len(ts) : j > i => ~About(ts[j], s)

\* What the server will end up with is what the panel shows.
FilterInv ==
    serving => \A p \in Panels : serverSubId[p] # None =>
        InForce(toServer, serverFilter[serverSubId[p]], serverSubId[p], filter[p])

IInv == /\ TypeOK /\ SocketInv /\ RequestInv /\ NameInv
        /\ StreamInv /\ AwaitedInv /\ FilterInv

-----------------------------------------------------------------------------

(* Messages *)

LEMMA MessageFacts ==
    ASSUME NEW m \in Messages
    PROVE  /\ m.type \in Asking \cup Naming \cup {"reauth_required"}
           /\ m.type \in Asking => m.req \in Requests
           /\ m.type \in Naming => m.sub \in Subs
           /\ m.type = "filter" => m.filter \in Filters \cup {None}
  BY DEF Messages, Asking, Naming, Reauth

\* Nothing refers to a name or a panel that is about to be used.
LEMMA FreshName ==
    ASSUME TypeOK, NEW s \in Subs, FreeSub(s)
    PROVE  /\ owner[s] = None /\ routes[s] = None
           /\ \A p \in Panels : serverSubId[p] # s
           /\ \A i \in 1..Len(toServer) : toServer[i].type \in Naming => toServer[i].sub # s
           /\ \A i \in 1..Len(toClient) : toClient[i].type \in Naming => toClient[i].sub # s
<1>1. ASSUME NEW m \in Messages, m.type \in Naming
      PROVE  "sub" \in DOMAIN m /\ m["sub"] = m.sub
  BY <1>1 DEF Messages, Naming, Reauth
<1> QED
  BY <1>1 DEF FreeSub, Mentions, TypeOK

LEMMA RequestFacts ==
    \A r \in Requests : /\ r.panel \in Panels /\ r.by \in {"all", "own"}
                        /\ r = Request(r.panel, r.by)
  BY DEF Requests, Request

LEMMA Distinct ==
    ASSUME NEW p \in Panels, NEW q \in Panels, NEW b \in {"all", "own"}, NEW c \in {"all", "own"}
    PROVE  /\ Request(p, b) \in Requests
           /\ Request(p, b).panel = p
           /\ Request(p, b) = Request(q, c) => p = q /\ b = c
  BY DEF Requests, Request

LEMMA FreshPanel ==
    ASSUME TypeOK, NEW p \in Panels, FreePanel(p)
    PROVE  /\ p \notin subs \cup waiting \cup ready
           /\ \A s \in Subs : owner[s] # p /\ routes[s] # p
           /\ \A b \in {"all", "own"} : Request(p, b) \notin pending
           /\ \A i \in 1..Len(toServer) : toServer[i].type \in Asking => toServer[i].req.panel # p
           /\ \A i \in 1..Len(toClient) : toClient[i].type \in Asking => toClient[i].req.panel # p
<1>1. ASSUME NEW m \in Messages, m.type \in Asking
      PROVE  "req" \in DOMAIN m /\ m["req"] = m.req
  BY <1>1 DEF Messages, Asking, Reauth
<1> QED
  BY <1>1, MessageFacts, Distinct DEF FreePanel, Mentions, TypeOK

(* Channels *)

LEMMA Sent ==
    ASSUME NEW c \in Seq(Messages), NEW m \in Messages
    PROVE  /\ c \o <<m>> = Append(c, m) /\ Append(c, m) \in Seq(Messages)
           /\ Len(c) \in Nat /\ Len(Append(c, m)) = Len(c) + 1
           /\ \A i \in 1..Len(c) : Append(c, m)[i] = c[i]
           /\ Append(c, m)[Len(c) + 1] = m
  OBVIOUS

LEMMA Sends ==
    ASSUME TypeOK, NEW m \in Messages, Send(<<m>>)
    PROVE  /\ toServer' \in Seq(Messages)
           /\ IF serving THEN toServer' = Append(toServer, m) ELSE toServer' = toServer
  BY Sent DEF Send, TypeOK

LEMMA HandlerGone ==
    ASSUME HandlerEnds
    PROVE  /\ serving' = FALSE /\ toServer' = <<>> /\ toServer' \in Seq(Messages)
           /\ owner' \in [Subs -> Panels \cup {None}]
           /\ serverFilter' \in [Subs -> Filters \cup {None}]
           /\ \A s \in Subs : owner'[s] = None
  BY DEF HandlerEnds

LEMMA Got ==
    ASSUME NEW c \in Seq(Messages), c # <<>>
    PROVE  /\ Len(c) \in Nat \ {0} /\ Head(c) = c[1] /\ c[1] \in Messages
           /\ Tail(c) \in Seq(Messages) /\ Len(Tail(c)) = Len(c) - 1
           /\ \A i \in 1..Len(c) - 1 : Tail(c)[i] = c[i + 1]
  OBVIOUS

LEMMA Cut ==
    ASSUME NEW c \in Seq(Messages), NEW n \in 0..Len(c)
    PROVE  /\ SubSeq(c, 1, n) \in Seq(Messages) /\ Len(SubSeq(c, 1, n)) = n
           /\ \A i \in 1..n : SubSeq(c, 1, n)[i] = c[i]
  OBVIOUS

\* onopen() asks for every panel once: as many requests as panels, none left out.
LEMMA Asked ==
    ASSUME IsFiniteSet(subs), subs \subseteq Panels,
           NEW order \in [1..Cardinality(subs) -> subs],
           \A p \in subs : \E i \in 1..Cardinality(subs) : order[i] = p
    PROVE  /\ Cardinality(subs) \in Nat
           /\ \A i, j \in 1..Cardinality(subs) : i # j => order[i] # order[j]
<1> DEFINE n == Cardinality(subs)
<1>1. n \in Nat
  BY FS_CardinalityType
<1>2. IsFiniteSet(1..n) /\ Cardinality(1..n) = n
  BY <1>1, FS_Interval
<1>3. order \in Surjection(1..n, subs)
  BY DEF Surjection
<1>4. order \in Injection(1..n, subs)
  BY <1>2, <1>3, FS_Surjection
<1> QED
  BY <1>1, <1>4 DEF Injection, IsInjective

LEMMA RangeFacts ==
    ASSUME NEW c \in Seq(Messages)
    PROVE  /\ Range(c) = {c[i] : i \in 1..Len(c)} /\ Range(c) \subseteq Messages
           /\ \A m \in Messages : Range(Append(c, m)) = Range(c) \cup {m}
           /\ c # <<>> => /\ Head(c) \in Range(c) /\ Range(Tail(c)) \subseteq Range(c)
                          /\ Range(c) = Range(Tail(c)) \cup {Head(c)}
           /\ \A n \in 0..Len(c) : Range(SubSeq(c, 1, n)) \subseteq Range(c)
<1>1. \A d \in Seq(Messages) : Range(d) = {d[i] : i \in 1..Len(d)} /\ Range(d) \subseteq Messages
  BY DEF Range
<1>2. ASSUME NEW m \in Messages
      PROVE  Range(Append(c, m)) = Range(c) \cup {m}
  <2> DEFINE d == Append(c, m)
  <2>1. /\ Len(c) \in Nat /\ Len(d) = Len(c) + 1 /\ d[Len(c) + 1] = m
        /\ \A i \in 1..Len(c) : d[i] = c[i]
        /\ d \in Seq(Messages)
    BY Sent
  <2> HIDE DEF d
  <2>2. Range(d) = {d[i] : i \in 1..Len(d)} /\ Range(c) = {c[i] : i \in 1..Len(c)}
    BY <1>1, <2>1
  <2>3. 1..Len(d) = 1..Len(c) \cup {Len(c) + 1}
    BY <2>1
  <2>4. Range(d) = Range(c) \cup {m}
    BY <2>1, <2>2, <2>3
  <2> QED
    BY <2>4 DEF d
<1>3. ASSUME c # <<>>
      PROVE  /\ Head(c) \in Range(c) /\ Range(Tail(c)) \subseteq Range(c)
             /\ Range(c) = Range(Tail(c)) \cup {Head(c)}
  <2> DEFINE d == Tail(c)
  <2>1. /\ Len(c) \in Nat \ {0} /\ Head(c) = c[1] /\ d \in Seq(Messages) /\ Len(d) = Len(c) - 1
        /\ \A i \in 1..Len(c) - 1 : d[i] = c[i + 1]
    BY <1>3, Got
  <2> HIDE DEF d
  <2>2. Range(d) = {d[i] : i \in 1..Len(d)} /\ Range(c) = {c[i] : i \in 1..Len(c)}
    BY <1>1, <2>1
  <2>3. Head(c) \in Range(c) /\ Range(d) \subseteq Range(c)
    BY <2>1, <2>2
  <2>4. ASSUME NEW i \in 1..Len(c) PROVE c[i] \in Range(d) \cup {Head(c)}
    <3>1. CASE i = 1
      BY <2>1, <3>1
    <3>2. CASE i # 1
      <4>1. i - 1 \in 1..Len(d) /\ d[i - 1] = c[i]
        BY <2>1, <3>2
      <4> QED
        BY <2>2, <4>1
    <3> QED
      BY <3>1, <3>2
  <2>5. Range(c) = Range(d) \cup {Head(c)}
    BY <2>2, <2>3, <2>4
  <2> QED
    BY <2>3, <2>5 DEF d
<1>4. ASSUME NEW n \in 0..Len(c) PROVE Range(SubSeq(c, 1, n)) \subseteq Range(c)
  <2> DEFINE d == SubSeq(c, 1, n)
  <2>1. d \in Seq(Messages) /\ Len(d) = n /\ \A i \in 1..n : d[i] = c[i]
    BY Cut
  <2> HIDE DEF d
  <2>2. Range(d) \subseteq Range(c)
    BY <1>1, <2>1
  <2> QED
    BY <2>2 DEF d
<1> QED
  BY <1>1, <1>2, <1>3, <1>4

-----------------------------------------------------------------------------

LEMMA TypeStep == TypeOK /\ SocketInv /\ NameInv /\ [Next]_vars => TypeOK' /\ SocketInv'
<1> SUFFICES ASSUME TypeOK, SocketInv, NameInv, [Next]_vars PROVE TypeOK' /\ SocketInv'
  OBVIOUS
<1> USE NoneAssumption
<1>1. ASSUME NEW p \in Panels, Subscribe(p) PROVE TypeOK' /\ SocketInv'
  <2>1. IsFiniteSet(subs')
    BY <1>1, FS_AddElement DEF Subscribe, SocketInv
  <2> QED BY <1>1, <2>1 DEF Subscribe, TypeOK, SocketInv, Connect, serverVars
<1>2. ASSUME NEW p \in Panels, Unsubscribe(p) PROVE TypeOK' /\ SocketInv'
  <2>1. IsFiniteSet(subs')
    BY <1>2, FS_RemoveElement DEF Unsubscribe, SocketInv
  <2>3. serverSubId[p] \in Subs => UnsubscribeMsg(serverSubId[p]) \in Messages
    BY DEF UnsubscribeMsg, Messages
  <2>2. toServer' \in Seq(Messages)
    BY <1>2, <2>3, Sends DEF Unsubscribe, TypeOK
  <2>4. ~serving => toServer' = toServer
    BY <1>2 DEF Unsubscribe, Send
  <2>5. /\ routes' \in [Subs -> Panels \cup {None}]
        /\ serverSubId' \in [Panels -> Subs \cup {None}]
        /\ \A q \in Panels : serverSubId'[q] # None => routes'[serverSubId'[q]] = q
        /\ (\A q \in Panels : serverSubId[q] = None) => \A q \in Panels : serverSubId'[q] = None
        /\ (\A s \in Subs : routes[s] = None) => \A s \in Subs : routes'[s] = None
    <3>1. CASE serverSubId[p] = None
      BY <1>2, <3>1 DEF Unsubscribe, TypeOK
    <3>2. CASE serverSubId[p] # None
      <4>1. serverSubId[p] \in Subs
        BY <3>2 DEF TypeOK
      <4>2. /\ routes' = [routes EXCEPT ![serverSubId[p]] = None]
            /\ serverSubId' = [serverSubId EXCEPT ![p] = None]
        BY <1>2, <3>2 DEF Unsubscribe
      <4> QED
        BY <4>1, <4>2 DEF TypeOK
    <3> QED
      BY <3>1, <3>2
  <2> QED BY <1>2, <2>1, <2>2, <2>4, <2>5 DEF Unsubscribe, TypeOK, SocketInv, serverVars
<1>3. ASSUME NEW p \in Panels, NEW f \in Filters \cup {None}, SetFilter(p, f) PROVE TypeOK' /\ SocketInv'
  <2>3. serverSubId[p] \in Subs => FilterMsg(serverSubId[p], f) \in Messages
    BY DEF FilterMsg, Messages
  <2>2. toServer' \in Seq(Messages)
    BY <1>3, <2>3, Sends DEF SetFilter, TypeOK
  <2> QED BY <1>3, <2>2 DEF SetFilter, TypeOK, SocketInv, serverVars, Send
<1>4. ASSUME NEW p \in Panels, SendOwn(p) PROVE TypeOK' /\ SocketInv'
  <2>3. Request(p, "own") \in Requests /\ SubscribeMsg(Request(p, "own")) \in Messages
    BY DEF SubscribeMsg, Messages, Requests
  <2>2. toServer' \in Seq(Messages)
    BY <1>4, <2>3, Sent DEF SendOwn, TypeOK, Send
  <2> QED BY <1>4, <2>2, <2>3 DEF SendOwn, TypeOK, SocketInv, serverVars, Send
<1>5. CASE Open
  <2>1. PICK order \in [1..Cardinality(subs) -> subs] :
          toServer' = [i \in 1..Cardinality(subs) |-> SubscribeMsg(Request(order[i], "all"))]
    BY <1>5 DEF Open
  <2>2. \A p \in subs : Request(p, "all") \in Requests /\ SubscribeMsg(Request(p, "all")) \in Messages
    BY DEF SubscribeMsg, Messages, Requests, TypeOK
  <2>3. Cardinality(subs) \in Nat
    BY FS_CardinalityType DEF SocketInv
  <2>4. toServer' \in Seq(Messages)
    BY <2>1, <2>2, <2>3
  <2>5. pending' \subseteq Requests
    BY <1>5, <2>2 DEF Open, TypeOK
  <2> QED BY <1>5, <2>4, <2>5 DEF Open, TypeOK, SocketInv
<1>6. CASE OpenFails
  <2>1. timer' \in BOOLEAN
    BY <1>6, Zenon DEF OpenFails
  <2>2. TypeOK'
    BY <1>6, <2>1 DEF OpenFails, TypeOK, serverVars
  <2>3. SocketInv'
    BY <1>6 DEF OpenFails, SocketInv, serverVars
  <2> QED
    BY <2>2, <2>3
<1>7. CASE Close
  <2>1. timer' \in BOOLEAN
    BY <1>7, Zenon DEF Close
  <2>2. TypeOK'
    BY <1>7, <2>1 DEF Close, TypeOK, serverVars
  <2>3. SocketInv'
    BY <1>7 DEF Close, SocketInv, serverVars, Settled
  <2> QED
    BY <2>2, <2>3
<1>8. CASE TimerFires
  BY <1>8 DEF TimerFires, TypeOK, SocketInv, serverVars, Connect
<1>9. CASE Refreshed
  BY <1>9 DEF Refreshed, TypeOK, SocketInv
<1>10. CASE ReceiveSubscribed
  <2> DEFINE m == Head(toClient) r == m.req s == m.sub
  <2>1. m \in Messages /\ m.type = "subscribed" /\ toClient' \in Seq(Messages) /\ m = toClient[1] /\ 1 \in 1..Len(toClient)
    BY <1>10, Got DEF ReceiveSubscribed, Is, TypeOK
  <2>2. r \in Requests /\ s \in Subs /\ r.panel \in Panels
    BY <2>1, MessageFacts, RequestFacts DEF Asking, Naming
  <2>3. Served(r, s) BY <1>10 DEF ReceiveSubscribed
  <2>4. routes[s] = None
    <3>1. m \in Range(toClient)
      BY <1>10, RangeFacts DEF ReceiveSubscribed, Is, TypeOK
    <3> QED
      BY <2>1, <3>1 DEF NameInv
  <2> HIDE DEF m
  <2>5. toServer' \in Seq(Messages) /\ (~serving => toServer' = toServer)
    <3>1. FilterMsg(s, filter[r.panel]) \in Messages
      BY <2>2 DEF FilterMsg, Messages, TypeOK
    <3> QED BY <3>1, <2>3, Sends DEF Served, TypeOK
  <2>6. /\ pending' \subseteq Requests /\ refused' \subseteq Panels
        /\ serverSubId' \in [Panels -> Subs \cup {None}]
        /\ routes' \in [Subs -> Panels \cup {None}]
        /\ \A p \in Panels : serverSubId'[p] # None => routes'[serverSubId'[p]] = p
    BY <2>2, <2>3, <2>4 DEF Served, TypeOK
  <2> QED BY <1>10, <2>1, <2>5, <2>6 DEF ReceiveSubscribed, TypeOK, SocketInv, serverVars
<1>11. CASE ReceiveError
  <2>1. Head(toClient) \in Messages /\ toClient' \in Seq(Messages) /\ Head(toClient).type = "error"
    BY <1>11, Got DEF ReceiveError, Is, TypeOK
  <2>2. Head(toClient).req \in Requests /\ Head(toClient).req.panel \in Panels
    BY <2>1, MessageFacts, RequestFacts DEF Asking
  <2> QED BY <1>11, <2>1, <2>2 DEF ReceiveError, TypeOK, SocketInv, serverVars
<1>12. CASE ReceiveReauth
  <2>1. toClient' \in Seq(Messages)
    BY <1>12, Got DEF ReceiveReauth, Is, TypeOK
  <2> QED BY <1>12, <2>1 DEF ReceiveReauth, TypeOK, SocketInv, serverVars
<1>13. CASE HandleSubscribe
  <2>1. Head(toServer) \in Messages /\ toServer' \in Seq(Messages) /\ Head(toServer).type = "subscribe"
    BY <1>13, Got DEF HandleSubscribe, Is, TypeOK
  <2>2. Head(toServer).req \in Requests /\ Head(toServer).req.panel \in Panels
    BY <2>1, MessageFacts, RequestFacts DEF Asking
  <2>3. NewSub \in Subs
    BY <1>13 DEF HandleSubscribe, NewSub
  <2>4. Subscribed(Head(toServer).req, NewSub) \in Messages
    BY <2>2, <2>3 DEF Subscribed, Messages
  <2>5. toClient' \in Seq(Messages)
    BY <1>13, <2>4, Sent DEF HandleSubscribe, TypeOK
  <2> QED BY <1>13, <2>1, <2>2, <2>3, <2>5 DEF HandleSubscribe, TypeOK, SocketInv, clientVars
<1>14. CASE RefuseSubscribe
  <2>1. Head(toServer) \in Messages /\ toServer' \in Seq(Messages) /\ Head(toServer).type = "subscribe"
    BY <1>14, Got DEF RefuseSubscribe, Is, TypeOK
  <2>2. Head(toServer).req \in Requests
    BY <2>1, MessageFacts DEF Asking
  <2>4. Refused(Head(toServer).req) \in Messages
    BY <2>2 DEF Refused, Messages
  <2>5. toClient' \in Seq(Messages)
    BY <1>14, <2>4, Sent DEF RefuseSubscribe, TypeOK
  <2> QED BY <1>14, <2>1, <2>5 DEF RefuseSubscribe, TypeOK, SocketInv, clientVars, serverVars
<1>15. CASE HandleUnsubscribe
  <2>1. Head(toServer) \in Messages /\ toServer' \in Seq(Messages) /\ Head(toServer).type = "unsubscribe"
    BY <1>15, Got DEF HandleUnsubscribe, Is, TypeOK
  <2>2. Head(toServer).sub \in Subs
    BY <2>1, MessageFacts DEF Naming
  <2> QED BY <1>15, <2>1, <2>2 DEF HandleUnsubscribe, TypeOK, SocketInv, clientVars
<1>16. CASE HandleFilter
  <2>1. Head(toServer) \in Messages /\ toServer' \in Seq(Messages) /\ Head(toServer).type = "filter"
    BY <1>16, Got DEF HandleFilter, Is, TypeOK
  <2>2. Head(toServer).sub \in Subs /\ Head(toServer).filter \in Filters \cup {None}
    BY <2>1, MessageFacts DEF Naming
  <2> QED BY <1>16, <2>1, <2>2 DEF HandleFilter, TypeOK, SocketInv, clientVars
<1>17. CASE Drop
  <2>1. toClient' \in Seq(Messages)
    <3>1. PICK n \in 0..Len(toClient) : toClient' = SubSeq(toClient, 1, n)
      BY <1>17 DEF Drop
    <3> QED
      BY <3>1, Cut DEF TypeOK
  <2>2. serving
    BY <1>17 DEF Drop
  <2>3. TypeOK'
    BY <1>17, <2>1, HandlerGone DEF Drop, TypeOK, clientVars
  <2>4. SocketInv'
    BY <1>17, <2>2, HandlerGone DEF Drop, SocketInv, TypeOK, clientVars
  <2> QED
    BY <2>3, <2>4
<1>18. CASE Expire
  <2>1. toClient' \in Seq(Messages)
    <3>1. Reauth \in Messages
      BY DEF Messages
    <3>2. toClient' = toClient \/ toClient' = Append(toClient, Reauth)
      BY <1>18 DEF Expire
    <3>3. Append(toClient, Reauth) \in Seq(Messages) /\ toClient \in Seq(Messages)
      BY <3>1, Sent DEF TypeOK
    <3> QED
      BY <3>2, <3>3
  <2>2. CASE serving
    <3>1. TypeOK'
      BY <1>18, <2>1, <2>2, HandlerGone DEF Expire, TypeOK, clientVars
    <3>2. SocketInv'
      BY <1>18, <2>2, HandlerGone DEF Expire, SocketInv, TypeOK, clientVars
    <3> QED
      BY <3>1, <3>2
  <2>3. CASE ~serving
    BY <1>18, <2>1, <2>3 DEF Expire, TypeOK, SocketInv, clientVars
  <2> QED
    BY <2>2, <2>3
<1>19. CASE UNCHANGED vars
  BY <1>19 DEF vars, clientVars, serverVars, TypeOK, SocketInv
<1> QED
  BY <1>1, <1>2, <1>3, <1>4, <1>5, <1>6, <1>7, <1>8, <1>9, <1>10, <1>11, <1>12, <1>13,
     <1>14, <1>15, <1>16, <1>17, <1>18, <1>19 DEF Next, Call, Receive, Handle

-----------------------------------------------------------------------------

\* What sending, receiving and losing messages does to RequestsOK.
LEMMA SendKeeps ==
    ASSUME NEW ts \in Seq(Messages), NEW tc \in Seq(Messages), NEW requests,
           RequestsOK(ts, tc, requests), NEW m \in Messages, m.type \notin Asking
    PROVE  /\ RequestsOK(Append(ts, m), tc, requests)
           /\ RequestsOK(ts, Append(tc, m), requests)
  BY Sent, SMTT(30) DEF RequestsOK

LEMMA AskKeeps ==
    ASSUME NEW ts \in Seq(Messages), NEW tc \in Seq(Messages), NEW requests,
           RequestsOK(ts, tc, requests), NEW m \in Messages, m.type \in Asking,
           m.req \notin requests
    PROVE  RequestsOK(Append(ts, m), tc, requests \cup {m.req})
<1> DEFINE c == Append(ts, m)
<1>1. /\ Len(ts) \in Nat /\ Len(c) = Len(ts) + 1
      /\ \A i \in 1..Len(ts) : c[i] = ts[i]
      /\ c[Len(ts) + 1] = m
  BY Sent
<1>2. /\ \A i \in 1..Len(ts) : ts[i].type \in Asking => ts[i].req # m.req
      /\ \A i \in 1..Len(tc) : tc[i].type \in Asking => tc[i].req # m.req
  BY DEF RequestsOK
<1> HIDE DEF c
<1>3. ASSUME NEW i \in 1..Len(c)
      PROVE  (i \in 1..Len(ts) /\ c[i] = ts[i]) \/ (i = Len(ts) + 1 /\ c[i] = m)
  BY <1>1
<1> QED
  BY <1>1, <1>2, <1>3 DEF RequestsOK, c

LEMMA ReadKeeps ==
    ASSUME NEW ts \in Seq(Messages), NEW tc \in Seq(Messages), NEW requests,
           RequestsOK(ts, tc, requests), tc # <<>>
    PROVE  /\ RequestsOK(ts, Tail(tc), requests)
           /\ Head(tc).type \in Asking => RequestsOK(ts, Tail(tc), requests \ {Head(tc).req})
  BY Got DEF RequestsOK

LEMMA HandleKeeps ==
    ASSUME NEW ts \in Seq(Messages), NEW tc \in Seq(Messages), NEW requests,
           RequestsOK(ts, tc, requests), ts # <<>>
    PROVE  /\ RequestsOK(Tail(ts), tc, requests)
           /\ \A m \in Messages :
                 /\ Head(ts).type \in Asking /\ m.type \in Asking /\ m.req = Head(ts).req
                 => RequestsOK(Tail(ts), Append(tc, m), requests)
<1>1. RequestsOK(Tail(ts), tc, requests)
  BY Got DEF RequestsOK
<1>2. ASSUME NEW m \in Messages, Head(ts).type \in Asking, m.type \in Asking, m.req = Head(ts).req
      PROVE  RequestsOK(Tail(ts), Append(tc, m), requests)
  <2>1. /\ m.req \in requests
        /\ \A i \in 1..Len(Tail(ts)) : Tail(ts)[i].type \in Asking => Tail(ts)[i].req # m.req
        /\ \A i \in 1..Len(tc) : tc[i].type \in Asking => tc[i].req # m.req
    BY <1>2, Got DEF RequestsOK
  <2> DEFINE c == Append(tc, m)
  <2>2. /\ Len(tc) \in Nat /\ Len(c) = Len(tc) + 1
        /\ \A i \in 1..Len(tc) : c[i] = tc[i]
        /\ c[Len(tc) + 1] = m
    BY Sent
  <2> HIDE DEF c
  <2>3. ASSUME NEW i \in 1..Len(c)
        PROVE  (i \in 1..Len(tc) /\ c[i] = tc[i]) \/ (i = Len(tc) + 1 /\ c[i] = m)
    BY <2>2
  <2>4. RequestsOK(Tail(ts), c, requests)
    BY <1>1, <2>1, <2>2, <2>3, SMTT(30) DEF RequestsOK
  <2> QED
    BY <2>4 DEF c
<1> QED
  BY <1>1, <1>2

LEMMA CutKeeps ==
    ASSUME NEW ts \in Seq(Messages), NEW tc \in Seq(Messages), NEW requests,
           RequestsOK(ts, tc, requests), NEW n \in 0..Len(tc)
    PROVE  /\ RequestsOK(<<>>, SubSeq(tc, 1, n), requests)
           /\ RequestsOK(<<>>, tc, requests)
  BY Cut DEF RequestsOK

LEMMA RequestStep ==
    TypeOK /\ SocketInv /\ RequestInv /\ [Next]_vars => RequestInv'
<1> SUFFICES ASSUME TypeOK, SocketInv, RequestInv, [Next]_vars PROVE RequestInv'
  OBVIOUS
<1> USE NoneAssumption
<1>t. toServer \in Seq(Messages) /\ toClient \in Seq(Messages) /\ RequestsOK(toServer, toClient, pending)
  BY DEF TypeOK, RequestInv
<1>k. ASSUME UNCHANGED pending, (waiting' \cup ready') \cap Panels \subseteq waiting \cup ready,
             RequestsOK(toServer', toClient', pending)
      PROVE  RequestInv'
  BY <1>k DEF RequestInv
<1>1. ASSUME NEW p \in Panels, Subscribe(p) PROVE RequestInv'
  <2>1. \A q \in Panels : q \in waiting' \cup ready' => q \in waiting \cup ready \cup {p}
    BY <1>1 DEF Subscribe, Connect
  <2>2. Request(p, "own") \notin pending
    BY <1>1, FreshPanel DEF Subscribe
  <2> QED
    BY <1>1, <2>1, <2>2 DEF Subscribe, RequestInv
<1>2. ASSUME NEW p \in Panels, Unsubscribe(p) PROVE RequestInv'
  <2>1. CASE UNCHANGED toServer
    BY <1>2, <2>1, <1>t, <1>k DEF Unsubscribe
  <2>2. CASE toServer' # toServer
    <3>1. serverSubId[p] \in Subs /\ Send(<<UnsubscribeMsg(serverSubId[p])>>)
      BY <1>2, <2>2 DEF Unsubscribe, TypeOK
    <3>2. UnsubscribeMsg(serverSubId[p]) \in Messages /\ UnsubscribeMsg(serverSubId[p]).type \notin Asking
      BY <3>1 DEF UnsubscribeMsg, Messages, Asking
    <3>3. RequestsOK(toServer', toClient, pending)
      BY <1>t, <2>2, <3>1, <3>2, Sends, SendKeeps
    <3> QED
      BY <1>2, <3>3, <1>k DEF Unsubscribe
  <2> QED
    BY <2>1, <2>2
<1>3. ASSUME NEW p \in Panels, NEW f \in Filters \cup {None}, SetFilter(p, f) PROVE RequestInv'
  <2>1. CASE UNCHANGED toServer
    BY <1>3, <2>1, <1>t, <1>k DEF SetFilter
  <2>2. CASE toServer' # toServer
    <3>1. serverSubId[p] \in Subs /\ Send(<<FilterMsg(serverSubId[p], f)>>)
      BY <1>3, <2>2 DEF SetFilter, TypeOK
    <3>2. FilterMsg(serverSubId[p], f) \in Messages /\ FilterMsg(serverSubId[p], f).type \notin Asking
      BY <3>1 DEF FilterMsg, Messages, Asking
    <3>3. RequestsOK(toServer', toClient, pending)
      BY <1>t, <2>2, <3>1, <3>2, Sends, SendKeeps
    <3> QED
      BY <1>3, <3>3, <1>k DEF SetFilter
  <2> QED
    BY <2>1, <2>2
<1>4. ASSUME NEW p \in Panels, SendOwn(p) PROVE RequestInv'
  <2> DEFINE r == Request(p, "own")
  <2>1. /\ r \in Requests /\ r \notin pending
        /\ \A q \in Panels : q # p => Request(q, "own") # r
    BY <1>4, Distinct DEF SendOwn, RequestInv
  <2>2. SubscribeMsg(r) \in Messages /\ SubscribeMsg(r).type \in Asking /\ SubscribeMsg(r).req = r
    BY <2>1 DEF SubscribeMsg, Messages, Asking
  <2>3. waiting = {} /\ p \notin ready'
    BY <1>4 DEF SendOwn, SocketInv
  <2>4. RequestsOK(toServer', toClient, pending \cup {r})
    <3>1. RequestsOK(toServer, toClient, pending \cup {r})
      BY <1>t, <2>1 DEF RequestsOK
    <3>2. RequestsOK(Append(toServer, SubscribeMsg(r)), toClient, pending \cup {r})
      BY <1>t, <2>1, <2>2, AskKeeps
    <3>3. Send(<<SubscribeMsg(r)>>)
      BY <1>4 DEF SendOwn
    <3> QED
      BY <2>2, <3>1, <3>2, <3>3, Sends
  <2> HIDE DEF r
  <2>5. pending' = pending \cup {r}
    BY <1>4 DEF SendOwn, r
  <2>6. \A q \in Panels : q \in waiting' \cup ready' => q \in ready /\ q # p
    BY <1>4, <2>3 DEF SendOwn
  <2> QED
    BY <1>4, <2>1, <2>4, <2>5, <2>6 DEF SendOwn, RequestInv
<1>5. CASE Open
  <2>1. PICK order \in [1..Cardinality(subs) -> subs] :
          /\ \A p \in subs : \E i \in 1..Cardinality(subs) : order[i] = p
          /\ toServer' = [i \in 1..Cardinality(subs) |-> SubscribeMsg(Request(order[i], "all"))]
    BY <1>5 DEF Open
  <2>2. /\ Cardinality(subs) \in Nat
        /\ \A i, j \in 1..Cardinality(subs) : i # j => order[i] # order[j]
    BY <2>1, Asked DEF SocketInv, TypeOK
  <2>3. Len(toServer') = Cardinality(subs)
    BY <2>1, <2>2
  <2>4. toClient' = <<>> /\ pending' = {Request(p, "all") : p \in subs}
    BY <1>5 DEF Open, SocketInv
  <2>5. ASSUME NEW i \in 1..Len(toServer')
        PROVE  /\ toServer'[i].req = Request(order[i], "all")
               /\ toServer'[i].req \in pending'
    BY <2>1, <2>3, <2>4 DEF SubscribeMsg
  <2>6. ASSUME NEW i \in 1..Len(toServer'), NEW j \in 1..Len(toServer'), i # j
        PROVE  toServer'[i].req # toServer'[j].req
    <3>1. order[i] \in Panels /\ order[j] \in Panels /\ order[i] # order[j]
      BY <2>1, <2>2, <2>3, <2>6 DEF TypeOK
    <3> QED
      BY ONLY <2>5, <3>1, Distinct
  <2>7. RequestsOK(toServer', toClient', pending')
    BY <2>4, <2>5, <2>6 DEF RequestsOK
  <2>8. \A p \in Panels : Request(p, "own") \notin pending'
    BY <2>4, Distinct DEF TypeOK
  <2> QED
    BY <2>7, <2>8 DEF RequestInv
<1>6. CASE OpenFails
  BY <1>6, <1>t, <1>k DEF OpenFails, serverVars
<1>7. CASE Close
  <2>1. toServer' = <<>> /\ toClient' = <<>> /\ pending' = {}
    BY <1>7 DEF Close, SocketInv
  <2> QED
    BY <2>1 DEF RequestInv, RequestsOK
<1>8. CASE TimerFires
  BY <1>8, <1>t, <1>k DEF TimerFires, serverVars, Connect
<1>9. CASE Refreshed
  BY <1>9, <1>t, <1>k DEF Refreshed
<1>10. CASE ReceiveSubscribed
  <2> DEFINE r == Head(toClient).req s == Head(toClient).sub
  <2>1. /\ toClient # <<>> /\ Head(toClient) \in Messages /\ Head(toClient).type = "subscribed"
        /\ toClient' = Tail(toClient) /\ toClient' \in Seq(Messages)
        /\ waiting' = waiting /\ ready' = ready
    BY <1>10, <1>t, Got DEF ReceiveSubscribed, Is
  <2>2. r \in Requests /\ s \in Subs /\ r.panel \in Panels
    BY <2>1, MessageFacts, RequestFacts DEF Asking, Naming
  <2>3. Served(r, s) BY <1>10 DEF ReceiveSubscribed
  <2>4. pending' = pending \ {r}
    BY <2>3 DEF Served
  <2>5. RequestsOK(toServer, toClient', pending')
    BY <1>t, <2>1, <2>4, ReadKeeps DEF Asking
  <2>6. RequestsOK(toServer', toClient', pending')
    <3>1. FilterMsg(s, filter[r.panel]) \in Messages /\ FilterMsg(s, filter[r.panel]).type \notin Asking
      BY <2>2 DEF FilterMsg, Messages, TypeOK, Asking
    <3>2. toServer' = toServer \/ Send(<<FilterMsg(s, filter[r.panel])>>)
      BY <2>3 DEF Served
    <3> QED
      BY <1>t, <2>1, <2>5, <3>1, <3>2, Sends, SendKeeps
  <2> QED
    BY <2>1, <2>4, <2>6 DEF RequestInv
<1>11. CASE ReceiveError
  <2>1. /\ toClient # <<>> /\ Head(toClient).type = "error" /\ toClient' = Tail(toClient)
        /\ pending' = pending \ {Head(toClient).req}
        /\ UNCHANGED <<waiting, ready, toServer>>
    BY <1>11 DEF ReceiveError, Is
  <2>2. RequestsOK(toServer', toClient', pending')
    BY <1>t, <2>1, ReadKeeps DEF Asking
  <2> QED
    BY <2>1, <2>2 DEF RequestInv
<1>12. CASE ReceiveReauth
  BY <1>12, <1>t, <1>k, ReadKeeps DEF ReceiveReauth, Is
<1>13. CASE HandleSubscribe \/ RefuseSubscribe
  <2>1. /\ toServer # <<>> /\ Head(toServer) \in Messages /\ Head(toServer).type = "subscribe"
        /\ toServer' = Tail(toServer) /\ UNCHANGED <<waiting, ready, pending>>
    BY <1>13, <1>t, Got DEF HandleSubscribe, RefuseSubscribe, Is, clientVars
  <2>2. Head(toServer).req \in Requests
    BY <2>1, MessageFacts DEF Asking
  <2>3. PICK m \in Messages : /\ m.type \in Asking /\ m.req = Head(toServer).req
                              /\ toClient' = Append(toClient, m)
    <3>1. CASE HandleSubscribe
      <4>1. NewSub \in Subs /\ toClient' = Append(toClient, Subscribed(Head(toServer).req, NewSub))
        BY <3>1 DEF HandleSubscribe, NewSub
      <4> QED
        BY <2>2, <4>1 DEF Subscribed, Messages, Asking
    <3>2. CASE RefuseSubscribe
      BY <2>2, <3>2 DEF RefuseSubscribe, Refused, Messages, Asking
    <3> QED
      BY <1>13, <3>1, <3>2
  <2> QED
    BY <1>t, <1>k, <2>1, <2>3, HandleKeeps DEF Asking
<1>14. CASE HandleUnsubscribe \/ HandleFilter
  <2>1. /\ toServer # <<>> /\ toServer' = Tail(toServer)
        /\ UNCHANGED <<waiting, ready, pending, toClient>>
    BY <1>14 DEF HandleUnsubscribe, HandleFilter, Is, clientVars
  <2> QED
    BY <1>t, <1>k, <2>1, HandleKeeps
<1>15. CASE Drop
  <2>1. PICK n \in 0..Len(toClient) : toClient' = SubSeq(toClient, 1, n)
    BY <1>15 DEF Drop
  <2>2. toServer' = <<>> /\ UNCHANGED <<waiting, ready, pending>>
    BY <1>15 DEF Drop, HandlerEnds, clientVars
  <2> QED
    BY <1>t, <1>k, <2>1, <2>2, CutKeeps
<1>16. CASE Expire
  <2>1. UNCHANGED <<waiting, ready, pending>>
    BY <1>16 DEF Expire, clientVars
  <2>2. CASE serving
    <3>1. toServer' = <<>> /\ toClient' = Append(toClient, Reauth)
      BY <1>16, <2>2 DEF Expire, HandlerEnds
    <3>2. Reauth \in Messages /\ Reauth.type \notin Asking
      BY DEF Messages, Reauth, Asking
    <3>3. RequestsOK(<<>>, toClient, pending)
      BY <1>t DEF RequestsOK
    <3>4. RequestsOK(<<>>, Append(toClient, Reauth), pending)
      <4>1. <<>> \in Seq(Messages)
        OBVIOUS
      <4> QED
        BY <1>t, <3>2, <3>3, <4>1, SendKeeps
    <3> QED
      BY <1>k, <2>1, <3>1, <3>4
  <2>3. CASE ~serving
    BY <1>16, <1>t, <1>k, <2>1, <2>3 DEF Expire
  <2> QED
    BY <2>2, <2>3
<1>17. CASE UNCHANGED vars
  BY <1>17, <1>t, <1>k DEF vars, clientVars
<1> QED
  BY <1>1, <1>2, <1>3, <1>4, <1>5, <1>6, <1>7, <1>8, <1>9, <1>10, <1>11, <1>12, <1>13,
     <1>14, <1>15, <1>16, <1>17 DEF Next, Call, Receive, Handle

-----------------------------------------------------------------------------

\* The same for NamesOK.
LEMMA NamesSend ==
    ASSUME NEW ts \in Seq(Messages), NEW tc \in Seq(Messages), NamesOK(ts, tc), NEW m \in Messages,
           m.type \in Naming => \A n \in Range(tc) : n.type = "subscribed" => n.sub # m.sub
    PROVE  NamesOK(Append(ts, m), tc)
<1>1. Range(Append(ts, m)) = Range(ts) \cup {m} /\ \A i \in 1..Len(tc) : tc[i] \in Range(tc)
  BY RangeFacts
<1> QED
  BY <1>1 DEF NamesOK

LEMMA SendNames ==
    ASSUME TypeOK, NEW tc \in Seq(Messages), NamesOK(toServer, tc), NEW m \in Messages,
           toServer' = toServer \/ Send(<<m>>),
           m.type \in Naming => \A n \in Range(tc) : n.type = "subscribed" => n.sub # m.sub
    PROVE  NamesOK(toServer', tc) /\ Range(toServer') \subseteq Range(toServer) \cup {m}
<1>1. toServer \in Seq(Messages)
  BY DEF TypeOK
<1>2. toServer' = toServer \/ toServer' = Append(toServer, m)
  BY Sends
<1>3. NamesOK(Append(toServer, m), tc)
  BY <1>1, NamesSend
<1>4. Range(Append(toServer, m)) = Range(toServer) \cup {m}
  BY <1>1, RangeFacts
<1> QED
  BY <1>2, <1>3, <1>4

LEMMA NamesAnswer ==
    ASSUME NEW ts \in Seq(Messages), NEW tc \in Seq(Messages), NamesOK(ts, tc), NEW m \in Messages,
           m.type = "subscribed" =>
               /\ \A n \in Range(tc) : n.type = "subscribed" => n.sub # m.sub
               /\ \A n \in Range(ts) : n.type \in Naming => n.sub # m.sub
    PROVE  NamesOK(ts, Append(tc, m))
<1> DEFINE c == Append(tc, m)
<1>1. /\ Len(tc) \in Nat /\ Len(c) = Len(tc) + 1
      /\ \A i \in 1..Len(tc) : c[i] = tc[i] /\ tc[i] \in Range(tc)
      /\ c[Len(tc) + 1] = m
  BY Sent, RangeFacts
<1> HIDE DEF c
<1>2. ASSUME NEW i \in 1..Len(c)
      PROVE  (i \in 1..Len(tc) /\ c[i] = tc[i]) \/ (i = Len(tc) + 1 /\ c[i] = m)
  BY <1>1
<1> QED
  BY <1>1, <1>2 DEF NamesOK, c

LEMMA NamesRead ==
    ASSUME NEW ts \in Seq(Messages), NEW tc \in Seq(Messages), NamesOK(ts, tc)
    PROVE  /\ tc # <<>> =>
                 /\ NamesOK(ts, Tail(tc))
                 /\ Head(tc).type = "subscribed" =>
                       /\ \A n \in Range(Tail(tc)) : n.type = "subscribed" => n.sub # Head(tc).sub
                       /\ \A n \in Range(ts) : n.type \in Naming => n.sub # Head(tc).sub
           /\ ts # <<>> => NamesOK(Tail(ts), tc)
           /\ NamesOK(<<>>, tc)
           /\ \A k \in 0..Len(tc) : NamesOK(<<>>, SubSeq(tc, 1, k))
<1>1. ASSUME tc # <<>>
      PROVE  /\ NamesOK(ts, Tail(tc))
             /\ Head(tc).type = "subscribed" =>
                   /\ \A n \in Range(Tail(tc)) : n.type = "subscribed" => n.sub # Head(tc).sub
                   /\ \A n \in Range(ts) : n.type \in Naming => n.sub # Head(tc).sub
  <2> DEFINE d == Tail(tc)
  <2>1. /\ Len(tc) \in Nat \ {0} /\ Head(tc) = tc[1] /\ d \in Seq(Messages)
        /\ Len(d) = Len(tc) - 1 /\ \A i \in 1..Len(tc) - 1 : d[i] = tc[i + 1]
    BY <1>1, Got
  <2> HIDE DEF d
  <2>2. Range(d) = {d[i] : i \in 1..Len(d)}
    BY <2>1, RangeFacts
  <2>5. \A i \in 1..Len(d) : i + 1 \in 1..Len(tc) /\ i + 1 # 1 /\ d[i] = tc[i + 1]
    BY <2>1
  <2>3. NamesOK(ts, d)
    <3>1. ASSUME NEW i \in 1..Len(d), d[i].type = "subscribed"
          PROVE  /\ \A j \in 1..Len(d) : d[j].type = "subscribed" /\ i # j => d[i].sub # d[j].sub
                 /\ \A m \in Range(ts) : m.type \in Naming => m.sub # d[i].sub
      <4>1. \A j \in 1..Len(d) : i # j => i + 1 # j + 1
        BY <2>1
      <4> QED
        BY <2>5, <3>1, <4>1 DEF NamesOK
    <3> QED
      BY <3>1 DEF NamesOK
  <2>4. ASSUME Head(tc).type = "subscribed"
        PROVE  /\ \A n \in Range(d) : n.type = "subscribed" => n.sub # Head(tc).sub
               /\ \A n \in Range(ts) : n.type \in Naming => n.sub # Head(tc).sub
    <3>1. 1 \in 1..Len(tc) /\ tc[1].type = "subscribed"
      BY <2>1, <2>4
    <3>2. ASSUME NEW i \in 1..Len(d), d[i].type = "subscribed" PROVE d[i].sub # Head(tc).sub
      BY <2>1, <2>5, <3>1, <3>2 DEF NamesOK
    <3> QED
      BY <2>1, <2>2, <3>1, <3>2 DEF NamesOK
  <2> QED
    BY <2>3, <2>4 DEF d
<1>2. ts # <<>> => NamesOK(Tail(ts), tc)
  BY RangeFacts DEF NamesOK
<1>3. Range(<<>>) = {}
  BY DEF Range
<1>4. NamesOK(<<>>, tc)
  BY <1>3 DEF NamesOK
<1>5. \A k \in 0..Len(tc) : NamesOK(<<>>, SubSeq(tc, 1, k))
  BY <1>3, Cut DEF NamesOK
<1> QED
  BY <1>1, <1>2, <1>4, <1>5

LEMMA NameStep ==
    TypeOK /\ SocketInv /\ NameInv /\ [Next]_vars => NameInv'
<1> SUFFICES ASSUME TypeOK, SocketInv, NameInv, [Next]_vars PROVE NameInv'
  OBVIOUS
<1> USE NoneAssumption
<1>t. /\ toServer \in Seq(Messages) /\ toClient \in Seq(Messages) /\ NamesOK(toServer, toClient)
      /\ Range(toServer) \subseteq Messages /\ Range(toClient) \subseteq Messages
  BY RangeFacts DEF TypeOK, NameInv
<1>k. ASSUME NamesOK(toServer', toClient'), Range(toClient') \subseteq Range(toClient),
             \A m \in Range(toServer') : m.type = "unsubscribe" => m \in Range(toServer),
             UNCHANGED <<routes, owner, serverFilter, serving>>
      PROVE  NameInv'
  BY <1>k DEF NameInv
<1>e. Range(<<>>) = {} /\ \A tc : NamesOK(tc, <<>>)
  BY DEF Range, NamesOK
<1>1. ASSUME NEW p \in Panels, Subscribe(p) PROVE NameInv'
  BY <1>1, <1>t, <1>k DEF Subscribe, serverVars
<1>2. ASSUME NEW p \in Panels, Unsubscribe(p) PROVE NameInv'
  <2>1. CASE serverSubId[p] = None
    BY <1>2, <2>1, <1>t, <1>k DEF Unsubscribe, serverVars
  <2>2. CASE serverSubId[p] # None
    <3> DEFINE s == serverSubId[p]
               m == UnsubscribeMsg(s)
    <3>1. /\ s \in Subs /\ Send(<<m>>) /\ routes' = [routes EXCEPT ![s] = None] /\ routes[s] = p
          /\ UNCHANGED <<toClient, serving, owner, serverFilter>>
      BY <1>2, <2>2 DEF Unsubscribe, serverVars, TypeOK
    <3>2. m \in Messages /\ m.type = "unsubscribe" /\ m.sub = s
      BY <3>1 DEF UnsubscribeMsg, Messages
    <3>3. \A n \in Range(toClient) : n.type = "subscribed" => n.sub # s
      BY <3>1 DEF NameInv
    <3> HIDE DEF m
    <3>4. NamesOK(toServer', toClient)
      BY <1>t, <3>1, <3>2, <3>3, SendNames
    <3>5. Range(toServer') \subseteq Range(toServer) \cup {m}
      BY <1>t, <3>1, <3>2, <3>3, SendNames
    <3>6. \A n \in Range(toClient) : n.type = "subscribed" => n.sub \in Subs
      BY <1>t, MessageFacts DEF Naming
    <3>7. routes' \in [Subs -> Panels \cup {None}] /\ routes'[s] = None
          /\ \A q \in Subs : q # s => routes'[q] = routes[q]
      BY <3>1 DEF TypeOK
    <3>8. \A n \in Range(toClient) : n.type = "subscribed" => routes'[n.sub] = None
      BY <3>3, <3>6, <3>7 DEF NameInv
    <3>9. serving => \A q \in Subs : routes'[q] # None =>
             owner[q] = routes'[q] /\ \A n \in Range(toServer') : n.type = "unsubscribe" => n.sub # q
      BY <3>2, <3>5, <3>7 DEF NameInv
    <3> QED
      BY <3>1, <3>4, <3>8, <3>9 DEF NameInv
  <2> QED
    BY <2>1, <2>2
<1>3. ASSUME NEW p \in Panels, NEW f \in Filters \cup {None}, SetFilter(p, f) PROVE NameInv'
  <2>1. CASE UNCHANGED toServer
    BY <1>3, <2>1, <1>t, <1>k DEF SetFilter, serverVars
  <2>2. CASE toServer' # toServer
    <3> DEFINE s == serverSubId[p]
               m == FilterMsg(s, f)
    <3>1. s \in Subs /\ Send(<<m>>) /\ routes[s] = p
      BY <1>3, <2>2 DEF SetFilter, TypeOK
    <3>2. m \in Messages /\ m.type = "filter" /\ m.sub = s
      BY <3>1 DEF FilterMsg, Messages
    <3>3. \A n \in Range(toClient) : n.type = "subscribed" => n.sub # s
      BY <3>1 DEF NameInv
    <3> HIDE DEF m
    <3>4. NamesOK(toServer', toClient)
      BY <1>t, <3>1, <3>2, <3>3, SendNames
    <3>5. Range(toServer') \subseteq Range(toServer) \cup {m}
      BY <1>t, <3>1, <3>2, <3>3, SendNames
    <3> QED
      BY <1>3, <1>k, <3>2, <3>4, <3>5 DEF SetFilter, serverVars
  <2> QED
    BY <2>1, <2>2
<1>4. ASSUME NEW p \in Panels, SendOwn(p) PROVE NameInv'
  <2> DEFINE m == SubscribeMsg(Request(p, "own"))
  <2>1. m \in Messages /\ m.type = "subscribe" /\ m.type \notin Naming /\ Send(<<m>>)
    BY <1>4, Distinct DEF SubscribeMsg, Messages, Naming, SendOwn
  <2> HIDE DEF m
  <2>2. NamesOK(toServer', toClient) /\ Range(toServer') \subseteq Range(toServer) \cup {m}
    BY <1>t, <2>1, SendNames
  <2> QED
    BY <1>4, <1>k, <2>1, <2>2 DEF SendOwn, serverVars
<1>5. CASE Open
  <2>1. toClient' = <<>> /\ UNCHANGED routes /\ \A s \in Subs : routes[s] = None
    BY <1>5 DEF Open, SocketInv
  <2> QED
    BY <1>e, <2>1 DEF NameInv
<1>6. CASE OpenFails
  BY <1>6, <1>t, <1>k DEF OpenFails, serverVars
<1>7. CASE Close
  <2>1. toClient' = <<>> /\ ~serving'
    BY <1>7 DEF Close, serverVars
  <2> QED
    BY <1>e, <2>1 DEF NameInv
<1>8. CASE TimerFires
  BY <1>8, <1>t, <1>k DEF TimerFires, serverVars
<1>9. CASE Refreshed
  BY <1>9, <1>t, <1>k DEF Refreshed
<1>10. CASE ReceiveSubscribed
  <2> DEFINE a == Head(toClient) r == a.req s == a.sub
  <2>1. /\ toClient # <<>> /\ a \in Messages /\ a.type = "subscribed" /\ a \in Range(toClient)
        /\ toClient' = Tail(toClient) /\ toClient' \in Seq(Messages)
        /\ UNCHANGED <<serving, owner, serverFilter>>
    BY <1>10, <1>t, Got, RangeFacts DEF ReceiveSubscribed, Is, serverVars
  <2>2. r \in Requests /\ s \in Subs /\ r.panel \in Panels
    BY <2>1, MessageFacts, RequestFacts DEF Asking, Naming
  <2>3. Served(r, s) BY <1>10 DEF ReceiveSubscribed
  <2>4. /\ routes[s] = None
        /\ serving => owner[s] = r.panel
        /\ \A n \in Range(toClient') : n.type = "subscribed" => n.sub # s
        /\ \A n \in Range(toServer) : n.type \in Naming => n.sub # s
        /\ NamesOK(toServer, toClient')
        /\ Range(toClient') \subseteq Range(toClient)
    BY <1>t, <2>1, NamesRead, RangeFacts DEF NameInv
  <2> HIDE DEF a
  <2>5. PICK m \in Messages : /\ m.type = "filter" /\ m.sub = s
                              /\ toServer' = toServer \/ Send(<<m>>)
    <3>1. FilterMsg(s, filter[r.panel]) \in Messages
      BY <2>2 DEF FilterMsg, Messages, TypeOK
    <3>2. FilterMsg(s, filter[r.panel]).type = "filter" /\ FilterMsg(s, filter[r.panel]).sub = s
      BY DEF FilterMsg
    <3>3. toServer' = toServer \/ Send(<<FilterMsg(s, filter[r.panel])>>)
      BY <2>3 DEF Served
    <3> QED
      BY <3>1, <3>2, <3>3
  <2>6. NamesOK(toServer', toClient') /\ Range(toServer') \subseteq Range(toServer) \cup {m}
    <3>1. \A n \in Range(toClient') : n.type = "subscribed" => n.sub # m.sub
      BY <2>4, <2>5
    <3> QED
      BY <2>1, <2>4, <2>5, <3>1, SendNames
  <2>7. \A n \in Range(toClient') : n.type = "subscribed" => n.sub \in Subs
    BY <1>t, <2>4, MessageFacts DEF Naming
  <2>8. routes' = routes \/ routes' = [routes EXCEPT ![s] = r.panel]
    BY <2>3 DEF Served
  <2>9. \A q \in Subs : q # s => routes'[q] = routes[q]
    <3>1. routes \in [Subs -> Panels \cup {None}]
      BY DEF TypeOK
    <3> QED
      BY ONLY <2>8, <3>1
  <2>10. routes'[s] = None \/ routes'[s] = r.panel
    <3>1. routes \in [Subs -> Panels \cup {None}]
      BY DEF TypeOK
    <3> QED
      BY ONLY <2>2, <2>4, <2>8, <3>1
  <2>11. \A n \in Range(toClient') : n.type = "subscribed" =>
            /\ routes'[n.sub] = None
            /\ serving => owner[n.sub] = n.req.panel /\ serverFilter[n.sub] = None
    BY <2>4, <2>7, <2>9 DEF NameInv
  <2>12. serving => \A q \in Subs : routes'[q] # None =>
             owner[q] = routes'[q] /\ \A n \in Range(toServer') : n.type = "unsubscribe" => n.sub # q
    <3>u. \A n \in Range(toServer') : n.type = "unsubscribe" => n \in Range(toServer)
      BY ONLY <2>5, <2>6
    <3> SUFFICES ASSUME serving, NEW q \in Subs, routes'[q] # None
                 PROVE  owner[q] = routes'[q] /\ \A n \in Range(toServer) : n.type = "unsubscribe" => n.sub # q
      BY <3>u
    <3>1. CASE q = s
      BY <2>4, <2>10, <3>1 DEF Naming
    <3>2. CASE q # s
      BY <2>9, <3>2 DEF NameInv
    <3> QED
      BY <3>1, <3>2
  <2> QED
    BY <2>1, <2>6, <2>11, <2>12 DEF NameInv
<1>11. CASE ReceiveError \/ ReceiveReauth
  <2>1. toClient # <<>> /\ toClient' = Tail(toClient) /\ UNCHANGED <<toServer, serving, routes, owner, serverFilter>>
    BY <1>11 DEF ReceiveError, ReceiveReauth, Is, serverVars
  <2> QED
    BY <1>t, <1>k, <2>1, NamesRead, RangeFacts
<1>13. CASE HandleSubscribe
  <2>1. /\ toServer # <<>> /\ Head(toServer) \in Messages /\ Head(toServer).type = "subscribe"
        /\ toServer' = Tail(toServer) /\ toServer' \in Seq(Messages)
        /\ Range(toServer') \subseteq Range(toServer)
        /\ UNCHANGED <<serving, routes>>
    BY <1>13, <1>t, Got, RangeFacts DEF HandleSubscribe, Is, clientVars
  <2>2. Head(toServer).req \in Requests /\ Head(toServer).req.panel \in Panels
    BY <2>1, MessageFacts, RequestFacts DEF Asking
  <2>3. NewSub \in Subs /\ FreeSub(NewSub)
    BY <1>13 DEF HandleSubscribe, NewSub
  <2> DEFINE s == NewSub m == Subscribed(Head(toServer).req, s)
  <2>4. m \in Messages /\ m.type = "subscribed" /\ m.sub = s /\ m.req = Head(toServer).req
    BY <2>2, <2>3 DEF Subscribed, Messages
  <2>5. /\ owner' = [owner EXCEPT ![s] = Head(toServer).req.panel]
        /\ serverFilter' = [serverFilter EXCEPT ![s] = None]
        /\ toClient' = Append(toClient, m)
    BY <1>13 DEF HandleSubscribe
  <2>6. /\ routes[s] = None
        /\ \A n \in Range(toServer) : n.type \in Naming => n.sub # s
        /\ \A n \in Range(toClient) : n.type \in Naming => n.sub # s
    BY <1>t, <2>3, FreshName, RangeFacts
  <2> HIDE DEF m, s
  <2>7. NamesOK(toServer', toClient')
    <3>1. NamesOK(toServer', toClient)
      BY <1>t, <2>1, NamesRead
    <3> QED
      BY <1>t, <2>1, <2>4, <2>5, <2>6, <3>1, NamesAnswer DEF Naming
  <2>8. Range(toClient') = Range(toClient) \cup {m}
    BY <1>t, <2>4, <2>5, RangeFacts
  <2>9. s \in Subs
    BY <2>3 DEF s
  <2>10. \A n \in Range(toClient) : n.type = "subscribed" => n.sub \in Subs /\ n.sub # s
    BY <1>t, <2>6, MessageFacts DEF Naming
  <2>11. \A n \in Range(toClient') : n.type = "subscribed" =>
            /\ routes'[n.sub] = None
            /\ serving => owner'[n.sub] = n.req.panel /\ serverFilter'[n.sub] = None
    <3>1. /\ owner'[m.sub] = m.req.panel /\ serverFilter'[m.sub] = None /\ routes'[m.sub] = None
      BY <2>1, <2>4, <2>5, <2>6, <2>9 DEF TypeOK
    <3>2. ASSUME NEW n \in Range(toClient), n.type = "subscribed"
          PROVE  owner'[n.sub] = owner[n.sub] /\ serverFilter'[n.sub] = serverFilter[n.sub]
      BY <2>5, <2>10, <3>2 DEF TypeOK
    <3> QED
      BY <2>1, <2>8, <3>1, <3>2 DEF NameInv
  <2>12. serving => \A q \in Subs : routes'[q] # None =>
            owner'[q] = routes'[q] /\ \A n \in Range(toServer') : n.type = "unsubscribe" => n.sub # q
    <3>1. \A q \in Subs : q # s => owner'[q] = owner[q]
      BY <2>5 DEF TypeOK
    <3> QED
      BY <2>1, <2>6, <3>1 DEF NameInv
  <2> QED
    BY <2>1, <2>7, <2>11, <2>12 DEF NameInv
<1>14. CASE RefuseSubscribe
  <2>1. /\ toServer # <<>> /\ toServer' = Tail(toServer) /\ toServer' \in Seq(Messages)
        /\ Head(toServer) \in Messages /\ Head(toServer).type = "subscribe"
        /\ UNCHANGED <<serving, routes, owner, serverFilter>>
        /\ toClient' = Append(toClient, Refused(Head(toServer).req))
    BY <1>14, <1>t, Got DEF RefuseSubscribe, Is, clientVars, serverVars
  <2> DEFINE m == Refused(Head(toServer).req)
  <2>2. m \in Messages /\ m.type = "error"
    <3>1. Head(toServer).req \in Requests
      BY <2>1, MessageFacts DEF Asking
    <3> QED
      BY <3>1 DEF Refused, Messages
  <2> HIDE DEF m
  <2>3. NamesOK(toServer', toClient)
    BY <1>t, <2>1, NamesRead
  <2>4. NamesOK(toServer', toClient')
    BY <1>t, <2>1, <2>2, <2>3, NamesAnswer DEF m
  <2>5. Range(toServer') \subseteq Range(toServer) /\ Range(toClient') = Range(toClient) \cup {m}
    BY <1>t, <2>1, <2>2, RangeFacts DEF m
  <2> QED
    BY <2>1, <2>2, <2>4, <2>5 DEF NameInv
<1>15. CASE HandleUnsubscribe \/ HandleFilter
  <2> DEFINE s == Head(toServer).sub
  <2>1. /\ serving /\ toServer # <<>> /\ toServer' = Tail(toServer)
        /\ Head(toServer) \in Messages /\ Head(toServer).type \in {"unsubscribe", "filter"}
        /\ Head(toServer) \in Range(toServer)
        /\ Head(toServer).type = "filter" => owner' = owner
        /\ UNCHANGED <<serving, routes, toClient>>
        /\ Range(toServer') \subseteq Range(toServer)
        /\ NamesOK(toServer', toClient)
    <3>1. /\ serving /\ toServer # <<>> /\ toServer' = Tail(toServer)
          /\ Head(toServer).type \in {"unsubscribe", "filter"}
          /\ UNCHANGED <<serving, routes, toClient>>
      BY <1>15 DEF HandleUnsubscribe, HandleFilter, Is, clientVars
    <3>2. Head(toServer).type = "filter" => owner' = owner
      BY <1>15 DEF HandleUnsubscribe, HandleFilter, Is
    <3> QED
      BY <1>t, <3>1, <3>2, RangeFacts, NamesRead
  <2>2. s \in Subs
    BY <2>1, MessageFacts DEF Naming
  <2>3. \A q \in Subs : q # s => owner'[q] = owner[q] /\ serverFilter'[q] = serverFilter[q]
    BY <1>15, <2>2 DEF HandleUnsubscribe, HandleFilter, TypeOK
  <2>4. \A n \in Range(toClient) : n.type = "subscribed" => n.sub \in Subs /\ n.sub # s
    <3>1. \A i \in 1..Len(toClient) : toClient[i].type = "subscribed" => toClient[i].sub # s
      BY <1>t, <2>1 DEF NamesOK, Naming
    <3>2. Range(toClient) = {toClient[i] : i \in 1..Len(toClient)}
      BY <1>t, RangeFacts
    <3> QED
      BY <1>t, <3>1, <3>2, MessageFacts DEF Naming
  <2>5. Head(toServer).type = "unsubscribe" => routes[s] = None
    BY <2>1, <2>2 DEF NameInv
  <2> HIDE DEF s
  <2>6. \A n \in Range(toClient) : n.type = "subscribed" =>
           owner'[n.sub] = n.req.panel /\ serverFilter'[n.sub] = None
    BY <2>1, <2>3, <2>4 DEF NameInv
  <2>7. \A q \in Subs : routes[q] # None => owner'[q] = routes[q]
    BY <2>1, <2>3, <2>5 DEF NameInv
  <2> QED
    BY <2>1, <2>6, <2>7 DEF NameInv
<1>16. CASE Drop
  <2>1. PICK n \in 0..Len(toClient) : toClient' = SubSeq(toClient, 1, n)
    BY <1>16 DEF Drop
  <2>2. toServer' = <<>> /\ ~serving' /\ UNCHANGED routes
    BY <1>16 DEF Drop, HandlerEnds, clientVars
  <2>3. NamesOK(toServer', toClient') /\ Range(toClient') \subseteq Range(toClient)
    BY <1>t, <2>1, <2>2, NamesRead, RangeFacts
  <2> QED
    BY <2>2, <2>3 DEF NameInv
<1>17. CASE Expire
  <2>1. CASE serving
    <3>1. toServer' = <<>> /\ ~serving' /\ UNCHANGED routes /\ toClient' = Append(toClient, Reauth)
      BY <1>17, <2>1 DEF Expire, HandlerEnds, clientVars
    <3>2. Reauth \in Messages /\ Reauth.type # "subscribed" /\ <<>> \in Seq(Messages)
      BY DEF Messages, Reauth
    <3>3. NamesOK(<<>>, toClient)
      BY <1>t, NamesRead
    <3>4. NamesOK(toServer', toClient') /\ Range(toClient') = Range(toClient) \cup {Reauth}
      BY <1>t, <3>1, <3>2, <3>3, NamesAnswer, RangeFacts
    <3> QED
      BY <3>1, <3>2, <3>4 DEF NameInv
  <2>2. CASE ~serving
    BY <1>17, <1>t, <1>k, <2>2 DEF Expire, clientVars
  <2> QED
    BY <2>1, <2>2
<1>18. CASE UNCHANGED vars
  BY <1>18, <1>t, <1>k DEF vars, clientVars, serverVars
<1> QED
  BY <1>1, <1>2, <1>3, <1>4, <1>5, <1>6, <1>7, <1>8, <1>9, <1>10, <1>11, <1>13,
     <1>14, <1>15, <1>16, <1>17, <1>18 DEF Next, Call, Receive, Handle

-----------------------------------------------------------------------------

LEMMA HeadIsPending ==
    ASSUME TypeOK, RequestInv, toClient # <<>>, Head(toClient).type \in Asking
    PROVE  Head(toClient).req \in pending
  BY Got DEF TypeOK, RequestInv, RequestsOK

LEMMA StreamStep ==
    TypeOK /\ SocketInv /\ RequestInv /\ NameInv /\ StreamInv /\ [Next]_vars => StreamInv'
<1> SUFFICES ASSUME TypeOK, SocketInv, RequestInv, NameInv, StreamInv, [Next]_vars, serving' PROVE StreamInv'
  BY DEF StreamInv
<1> USE NoneAssumption
<1>t. /\ toServer \in Seq(Messages) /\ toClient \in Seq(Messages)
      /\ Range(toServer) \subseteq Messages /\ Range(toClient) \subseteq Messages
  BY RangeFacts DEF TypeOK
<1>k. ASSUME \A m \in Range(toClient) : m.type = "subscribed" => m \in Range(toClient'),
             subs' \subseteq subs, UNCHANGED <<routes, owner, serving>>
      PROVE  StreamInv'
  BY <1>k DEF StreamInv
<1>1. ASSUME NEW p \in Panels, Subscribe(p) PROVE StreamInv'
  <2>1. \A s \in Subs : owner[s] # p
    BY <1>1, FreshPanel DEF Subscribe
  <2>2. subs' = subs \cup {p} /\ UNCHANGED <<routes, owner, serving, toClient>>
    BY <1>1 DEF Subscribe, serverVars
  <2> QED
    BY <2>1, <2>2 DEF StreamInv
<1>2. ASSUME NEW p \in Panels, Unsubscribe(p) PROVE StreamInv'
  <2>1. subs' = subs \ {p} /\ UNCHANGED <<owner, serving, toClient>>
    BY <1>2 DEF Unsubscribe, serverVars
  <2>2. CASE serverSubId[p] = None
    BY <1>2, <2>1, <2>2, <1>k DEF Unsubscribe
  <2>3. CASE serverSubId[p] # None
    <3> DEFINE s == serverSubId[p]
    <3>1. s \in Subs /\ routes' = [routes EXCEPT ![s] = None] /\ routes[s] = p
      BY <1>2, <2>3 DEF Unsubscribe, TypeOK
    <3>2. owner[s] = p
      BY <2>1, <3>1 DEF NameInv
    <3>3. \A q \in Subs : q # s => routes'[q] = routes[q]
      BY <3>1 DEF TypeOK
    <3> QED
      BY <2>1, <3>2, <3>3 DEF StreamInv
  <2> QED
    BY <2>2, <2>3
<1>3. ASSUME NEW p \in Panels, NEW f \in Filters \cup {None}, SetFilter(p, f) PROVE StreamInv'
  BY <1>3, <1>k DEF SetFilter, serverVars
<1>4. ASSUME NEW p \in Panels, SendOwn(p) PROVE StreamInv'
  BY <1>4, <1>k DEF SendOwn, serverVars
<1>5. CASE Open
  <2>1. \A s \in Subs : owner'[s] \notin subs'
    BY <1>5 DEF Open, SocketInv, TypeOK
  <2> QED
    BY <2>1 DEF StreamInv
<1>6. CASE OpenFails \/ Close
  BY <1>6 DEF OpenFails, Close, serverVars, TypeOK
<1>8. CASE TimerFires
  BY <1>8, <1>k DEF TimerFires, serverVars
<1>9. CASE Refreshed
  BY <1>9, <1>k DEF Refreshed
<1>10. CASE ReceiveSubscribed
  <2> DEFINE a == Head(toClient) r == a.req s == a.sub
  <2>1. /\ toClient # <<>> /\ a \in Messages /\ a.type = "subscribed" /\ a \in Range(toClient)
        /\ Range(toClient) = Range(toClient') \cup {a}
        /\ UNCHANGED <<serving, owner, subs>>
    BY <1>10, <1>t, RangeFacts DEF ReceiveSubscribed, Is, serverVars
  <2>2. r \in Requests /\ s \in Subs /\ r.panel \in Panels
    BY <2>1, MessageFacts, RequestFacts DEF Asking, Naming
  <2>3. Served(r, s) BY <1>10 DEF ReceiveSubscribed
  <2>4. owner[s] = r.panel /\ r \in pending
    BY <2>1, HeadIsPending DEF NameInv, Asking
  <2> HIDE DEF a
  <2>5. routes' = routes \/ routes' = [routes EXCEPT ![s] = r.panel]
    BY <2>3 DEF Served
  <2>6. \A q \in Subs : q # s => routes'[q] = routes[q]
    BY ONLY <2>5, TypeOK DEF TypeOK
  <2>7. owner[s] \in subs => routes'[s] = owner[s]
    BY <2>2, <2>3, <2>4 DEF Served, TypeOK
  <2>8. ASSUME NEW q \in Subs, owner[q] \in subs, q # s
        PROVE  \/ routes[q] = owner[q]
               \/ \E m \in Range(toClient') : m.type = "subscribed" /\ m.sub = q
    BY <2>1, <2>8 DEF StreamInv
  <2> QED
    BY <2>1, <2>6, <2>7, <2>8 DEF StreamInv
<1>11. CASE ReceiveError \/ ReceiveReauth
  <2>1. /\ toClient # <<>> /\ toClient' = Tail(toClient) /\ Head(toClient).type # "subscribed"
        /\ UNCHANGED <<subs, serving, routes, owner>>
    BY <1>11 DEF ReceiveError, ReceiveReauth, Is, serverVars
  <2>2. Range(toClient) = Range(toClient') \cup {Head(toClient)}
    BY <1>t, <2>1, RangeFacts
  <2> QED
    BY <1>k, <2>1, <2>2
<1>13. CASE HandleSubscribe
  <2> DEFINE s == NewSub m == Subscribed(Head(toServer).req, s)
  <2>1. /\ s \in Subs /\ owner' = [owner EXCEPT ![s] = Head(toServer).req.panel]
        /\ toClient' = Append(toClient, m) /\ UNCHANGED <<subs, serving, routes>>
    BY <1>13 DEF HandleSubscribe, NewSub, clientVars
  <2>2. m \in Messages /\ m.type = "subscribed" /\ m.sub = s
    <3>1. Head(toServer).req \in Requests
      BY <1>13, <1>t, Got, MessageFacts DEF HandleSubscribe, Is, Asking
    <3> QED
      BY <2>1, <3>1 DEF Subscribed, Messages
  <2> HIDE DEF m, s
  <2>3. Range(toClient') = Range(toClient) \cup {m}
    BY <1>t, <2>1, <2>2, RangeFacts
  <2>4. \A q \in Subs : q # s => owner'[q] = owner[q]
    BY <2>1 DEF TypeOK
  <2> QED
    BY <2>1, <2>2, <2>3, <2>4 DEF StreamInv
<1>14. CASE RefuseSubscribe
  <2> DEFINE m == Refused(Head(toServer).req)
  <2>1. m \in Messages
    <3>1. Head(toServer).req \in Requests
      BY <1>14, <1>t, Got, MessageFacts DEF RefuseSubscribe, Is, Asking
    <3> QED
      BY <3>1 DEF Refused, Messages
  <2>2. toClient' = Append(toClient, m) /\ UNCHANGED <<subs, serving, routes, owner>>
    BY <1>14 DEF RefuseSubscribe, clientVars, serverVars
  <2> HIDE DEF m
  <2>3. Range(toClient') = Range(toClient) \cup {m}
    BY <1>t, <2>1, <2>2, RangeFacts
  <2> QED
    BY <1>k, <2>2, <2>3
<1>15. CASE HandleUnsubscribe
  <2>1. /\ owner' = [owner EXCEPT ![Head(toServer).sub] = None]
        /\ UNCHANGED <<subs, serving, routes, toClient>>
    BY <1>15 DEF HandleUnsubscribe, clientVars
  <2>2. \A q \in Subs : owner'[q] = owner[q] \/ owner'[q] = None
    BY <2>1 DEF TypeOK
  <2> QED
    BY <2>1, <2>2 DEF StreamInv, TypeOK
<1>16. CASE HandleFilter
  BY <1>16, <1>k DEF HandleFilter, clientVars
<1>17. CASE Drop
  BY <1>17 DEF Drop, HandlerEnds
<1>18. CASE Expire
  <2>1. ~serving
    BY <1>18 DEF Expire, HandlerEnds
  <2> QED
    BY <1>18, <2>1 DEF Expire
<1>19. CASE UNCHANGED vars
  BY <1>19, <1>k DEF vars, clientVars, serverVars
<1> QED
  BY <1>1, <1>2, <1>3, <1>4, <1>5, <1>6, <1>8, <1>9, <1>10, <1>11, <1>13,
     <1>14, <1>15, <1>16, <1>17, <1>18, <1>19 DEF Next, Call, Receive, Handle

LEMMA AwaitedStep ==
    TypeOK /\ SocketInv /\ RequestInv /\ NameInv /\ AwaitedInv /\ [Next]_vars => AwaitedInv'
<1> SUFFICES ASSUME TypeOK, SocketInv, RequestInv, NameInv, AwaitedInv, [Next]_vars, serving' PROVE AwaitedInv'
  BY DEF AwaitedInv
<1> USE NoneAssumption
<1>t. /\ toServer \in Seq(Messages) /\ toClient \in Seq(Messages)
      /\ Range(toServer) \subseteq Messages /\ Range(toClient) \subseteq Messages
  BY RangeFacts DEF TypeOK
<1> DEFINE Served0(p) ==
        \/ serverSubId[p] # None
        \/ p \in refused \cup ready
        \/ \E m \in Range(toServer) : m.type = "subscribe" /\ m.req.panel = p
        \/ \E m \in Range(toClient) : m.type \in Asking /\ m.req.panel = p
<1>s. ASSUME NEW m \in Messages, toServer' = toServer \/ Send(<<m>>)
      PROVE  Range(toServer) \subseteq Range(toServer')
  <2>1. toServer' = toServer \/ toServer' = Append(toServer, m)
    BY <1>s, Sends
  <2>2. Range(Append(toServer, m)) = Range(toServer) \cup {m}
    BY <1>t, RangeFacts
  <2> QED
    BY <2>1, <2>2
<1>1. ASSUME NEW p \in Panels, Subscribe(p) PROVE AwaitedInv'
  <2>1. /\ subs' = subs \cup {p} /\ refused' = refused \ {p} /\ ready' = ready \cup ({p} \cap Panels)
        /\ UNCHANGED <<serverSubId, toServer, toClient, serving>>
    BY <1>1 DEF Subscribe, serverVars, Connect, TypeOK
  <2> QED
    BY <2>1 DEF AwaitedInv
<1>2. ASSUME NEW p \in Panels, Unsubscribe(p) PROVE AwaitedInv'
  <2>1. /\ subs' = subs \ {p} /\ UNCHANGED <<refused, ready, toClient, serving>>
        /\ serverSubId' = serverSubId \/ serverSubId' = [serverSubId EXCEPT ![p] = None]
    BY <1>2 DEF Unsubscribe, serverVars
  <2>2. \A q \in Panels : q # p => serverSubId'[q] = serverSubId[q]
    BY ONLY <2>1, TypeOK DEF TypeOK
  <2>3. Range(toServer) \subseteq Range(toServer')
    <3>1. CASE toServer' = toServer
      BY <3>1
    <3>2. CASE toServer' # toServer
      <4>1. serverSubId[p] \in Subs /\ Send(<<UnsubscribeMsg(serverSubId[p])>>)
        BY <1>2, <3>2 DEF Unsubscribe, TypeOK
      <4>2. UnsubscribeMsg(serverSubId[p]) \in Messages
        BY <4>1 DEF UnsubscribeMsg, Messages
      <4> QED
        BY <1>s, <4>1, <4>2
    <3> QED
      BY <3>1, <3>2
  <2> QED
    BY <2>1, <2>2, <2>3 DEF AwaitedInv, TypeOK
<1>3. ASSUME NEW p \in Panels, NEW f \in Filters \cup {None}, SetFilter(p, f) PROVE AwaitedInv'
  <2>1. UNCHANGED <<subs, serverSubId, refused, ready, toClient, serving>>
    BY <1>3 DEF SetFilter, serverVars
  <2>3. Range(toServer) \subseteq Range(toServer')
    <3>1. CASE toServer' = toServer
      BY <3>1
    <3>2. CASE toServer' # toServer
      <4>1. serverSubId[p] \in Subs /\ Send(<<FilterMsg(serverSubId[p], f)>>)
        BY <1>3, <3>2 DEF SetFilter, TypeOK
      <4>2. FilterMsg(serverSubId[p], f) \in Messages
        BY <4>1 DEF FilterMsg, Messages
      <4> QED
        BY <1>s, <4>1, <4>2
    <3> QED
      BY <3>1, <3>2
  <2> QED
    BY <2>1, <2>3 DEF AwaitedInv
<1>4. ASSUME NEW p \in Panels, SendOwn(p) PROVE AwaitedInv'
  <2> DEFINE m == SubscribeMsg(Request(p, "own"))
  <2>1. m \in Messages /\ m.type = "subscribe" /\ m.req.panel = p /\ Send(<<m>>)
    BY <1>4, Distinct DEF SubscribeMsg, Messages, SendOwn
  <2> HIDE DEF m
  <2>2. /\ ready' = ready \ {p} /\ UNCHANGED <<subs, serverSubId, refused, toClient, serving>>
    BY <1>4 DEF SendOwn, serverVars
  <2>3. Range(toServer') = Range(toServer) \cup {m}
    <3>1. toServer' = Append(toServer, m)
      BY <2>1, <2>2, Sends
    <3> QED
      BY <1>t, <2>1, <3>1, RangeFacts
  <2> QED
    BY <2>1, <2>2, <2>3 DEF AwaitedInv
<1>5. CASE Open
  <2>1. PICK order \in [1..Cardinality(subs) -> subs] :
          /\ \A p \in subs : \E i \in 1..Cardinality(subs) : order[i] = p
          /\ toServer' = [i \in 1..Cardinality(subs) |-> SubscribeMsg(Request(order[i], "all"))]
    BY <1>5 DEF Open
  <2>2. subs' = subs
    BY <1>5 DEF Open
  <2>3. ASSUME NEW p \in subs
        PROVE  \E m \in Range(toServer') : m.type = "subscribe" /\ m.req.panel = p
    <3>1. PICK i \in 1..Cardinality(subs) : order[i] = p
      BY <2>1
    <3>2. toServer'[i] \in Range(toServer') /\ toServer'[i] = SubscribeMsg(Request(p, "all"))
      BY <2>1, <3>1 DEF Range
    <3> QED
      BY <3>2 DEF SubscribeMsg, Request
  <2> QED
    BY <2>2, <2>3 DEF AwaitedInv
<1>6. CASE OpenFails \/ Close
  BY <1>6 DEF OpenFails, Close, serverVars, TypeOK
<1>8. CASE TimerFires
  <2>1. /\ UNCHANGED <<subs, serverSubId, refused, toServer, toClient, serving>>
        /\ ready \subseteq ready'
    BY <1>8 DEF TimerFires, serverVars, Connect
  <2> QED
    BY <2>1 DEF AwaitedInv
<1>9. CASE Refreshed
  BY <1>9 DEF Refreshed, AwaitedInv
<1>10. CASE ReceiveSubscribed
  <2> DEFINE a == Head(toClient) r == a.req s == a.sub p == r.panel
  <2>1. /\ toClient # <<>> /\ a \in Messages /\ a.type = "subscribed"
        /\ Range(toClient) = Range(toClient') \cup {a}
        /\ UNCHANGED <<serving, subs, ready>>
    BY <1>10, <1>t, RangeFacts DEF ReceiveSubscribed, Is, serverVars
  <2>2. r \in Requests /\ s \in Subs /\ r.panel \in Panels
    BY <2>1, MessageFacts, RequestFacts DEF Asking, Naming
  <2>3. Served(r, s) BY <1>10 DEF ReceiveSubscribed
  <2>4. r \in pending
    BY <2>1, HeadIsPending DEF Asking
  <2>5. Range(toServer) \subseteq Range(toServer')
    <3>1. FilterMsg(s, filter[r.panel]) \in Messages
      BY <2>2 DEF FilterMsg, Messages, TypeOK
    <3>2. toServer' = toServer \/ Send(<<FilterMsg(s, filter[r.panel])>>)
      BY <2>3 DEF Served
    <3> QED
      BY <1>s, <3>1, <3>2
  <2> HIDE DEF a
  <2>6. p \in subs => serverSubId'[p] # None
    BY <2>2, <2>3, <2>4 DEF Served, TypeOK
  <2>7. /\ serverSubId' = serverSubId \/ serverSubId' = [serverSubId EXCEPT ![p] = s]
        /\ refused \ {p} \subseteq refused'
    BY <2>3 DEF Served
  <2>8. \A q \in Panels : q # p => serverSubId'[q] = serverSubId[q]
    BY ONLY <2>7, TypeOK DEF TypeOK
  <2> HIDE DEF p
  <2>9. ASSUME NEW q \in subs, q # p PROVE Served0(q)'
    <3>1. Served0(q)
      BY <2>1 DEF AwaitedInv
    <3>2. q \in Panels /\ a.req.panel # q
      BY <2>9 DEF TypeOK, p
    <3> QED
      BY <2>1, <2>5, <2>7, <2>8, <2>9, <3>1, <3>2
  <2> QED
    BY <2>1, <2>6, <2>9 DEF AwaitedInv
<1>11. CASE ReceiveError
  <2> DEFINE a == Head(toClient)
  <2>1. /\ toClient # <<>> /\ a.type = "error" /\ a.req \in pending
        /\ refused' = refused \cup {a.req.panel}
        /\ Range(toClient) = Range(toClient') \cup {a}
        /\ UNCHANGED <<subs, serving, serverSubId, ready, toServer>>
    BY <1>11, <1>t, RangeFacts, HeadIsPending DEF ReceiveError, Is, serverVars, Asking
  <2> HIDE DEF a
  <2> QED
    BY <2>1 DEF AwaitedInv
<1>12. CASE ReceiveReauth
  <2>1. /\ toClient # <<>> /\ Head(toClient).type \notin Asking
        /\ Range(toClient) = Range(toClient') \cup {Head(toClient)}
        /\ UNCHANGED <<subs, serving, serverSubId, ready, refused, toServer>>
    BY <1>12, <1>t, RangeFacts DEF ReceiveReauth, Is, serverVars, Asking
  <2> QED
    BY <2>1 DEF AwaitedInv
<1>13. CASE HandleSubscribe \/ RefuseSubscribe
  <2> DEFINE a == Head(toServer)
  <2>1. /\ toServer # <<>> /\ a \in Messages /\ a.type = "subscribe"
        /\ Range(toServer) = Range(toServer') \cup {a}
        /\ UNCHANGED <<subs, serving, serverSubId, ready, refused>>
    BY <1>13, <1>t, RangeFacts, Got DEF HandleSubscribe, RefuseSubscribe, Is, clientVars
  <2>2. a.req \in Requests
    BY <2>1, MessageFacts DEF Asking
  <2>3. PICK m \in Messages : m.type \in Asking /\ m.req = a.req /\ toClient' = Append(toClient, m)
    <3>1. CASE HandleSubscribe
      <4>1. NewSub \in Subs /\ toClient' = Append(toClient, Subscribed(a.req, NewSub))
        BY <3>1 DEF HandleSubscribe, NewSub
      <4> QED
        BY <2>2, <4>1 DEF Subscribed, Messages, Asking
    <3>2. CASE RefuseSubscribe
      BY <2>2, <3>2 DEF RefuseSubscribe, Refused, Messages, Asking
    <3> QED
      BY <1>13, <3>1, <3>2
  <2> HIDE DEF a
  <2>4. Range(toClient') = Range(toClient) \cup {m}
    BY <1>t, <2>3, RangeFacts
  <2> QED
    BY <2>1, <2>3, <2>4 DEF AwaitedInv
<1>14. CASE HandleUnsubscribe \/ HandleFilter
  <2>1. /\ toServer # <<>> /\ Head(toServer).type # "subscribe"
        /\ Range(toServer) = Range(toServer') \cup {Head(toServer)}
        /\ UNCHANGED <<subs, serving, serverSubId, ready, refused, toClient>>
    BY <1>14, <1>t, RangeFacts DEF HandleUnsubscribe, HandleFilter, Is, clientVars
  <2> QED
    BY <2>1 DEF AwaitedInv
<1>17. CASE Drop
  BY <1>17 DEF Drop, HandlerEnds
<1>18. CASE Expire
  <2>1. ~serving
    BY <1>18 DEF Expire, HandlerEnds
  <2> QED
    BY <1>18, <2>1 DEF Expire
<1>19. CASE UNCHANGED vars
  BY <1>19 DEF vars, clientVars, serverVars, AwaitedInv
<1> QED
  BY <1>1, <1>2, <1>3, <1>4, <1>5, <1>6, <1>8, <1>9, <1>10, <1>11, <1>12, <1>13,
     <1>14, <1>17, <1>18, <1>19 DEF Next, Call, Receive, Handle

-----------------------------------------------------------------------------

\* What a message that is sent or handled does to the last word.
LEMMA LastWord ==
    ASSUME NEW ts \in Seq(Messages), NEW m \in Messages, NEW s, About(m, s), NEW now
    PROVE  InForce(Append(ts, m), now, s, m.filter)
<1> DEFINE c == Append(ts, m)
<1>1. Len(ts) \in Nat /\ Len(c) = Len(ts) + 1 /\ c[Len(ts) + 1] = m
  BY Sent
<1> HIDE DEF c
<1>2. InForce(c, now, s, m.filter)
  <2>1. Len(ts) + 1 \in 1..Len(c) /\ \A j \in 1..Len(c) : ~(j > Len(ts) + 1)
    BY <1>1
  <2> QED
    BY <1>1, <2>1 DEF InForce
<1> QED
  BY <1>2 DEF c

LEMMA NoWord ==
    ASSUME NEW ts \in Seq(Messages), NEW s, NEW now, \A m \in Range(ts) : ~About(m, s)
    PROVE  InForce(ts, now, s, now)
<1>1. \A i \in 1..Len(ts) : ts[i] \in Range(ts)
  BY RangeFacts
<1> QED
  BY <1>1 DEF InForce

LEMMA OtherWord ==
    ASSUME NEW ts \in Seq(Messages), NEW m \in Messages, NEW s, ~About(m, s), NEW now, NEW f,
           InForce(ts, now, s, f)
    PROVE  InForce(Append(ts, m), now, s, f)
<1> DEFINE c == Append(ts, m)
<1>1. /\ Len(ts) \in Nat /\ Len(c) = Len(ts) + 1 /\ c[Len(ts) + 1] = m
      /\ \A i \in 1..Len(ts) : c[i] = ts[i]
  BY Sent
<1> HIDE DEF c
<1>2. ASSUME NEW i \in 1..Len(c)
      PROVE  (i \in 1..Len(ts) /\ c[i] = ts[i]) \/ (i = Len(ts) + 1 /\ ~About(c[i], s))
  BY <1>1
<1>3. \A i \in 1..Len(ts) : i \in 1..Len(c)
  BY <1>1
<1>4. InForce(c, now, s, f)
  BY <1>1, <1>2, <1>3 DEF InForce
<1> QED
  BY <1>4 DEF c

LEMMA FirstWord ==
    ASSUME NEW ts \in Seq(Messages), ts # <<>>, NEW s, NEW now, NEW f, InForce(ts, now, s, f)
    PROVE  InForce(Tail(ts), IF About(Head(ts), s) THEN Head(ts).filter ELSE now, s, f)
<1> DEFINE c == Tail(ts)
<1>1. /\ Len(ts) \in Nat \ {0} /\ Head(ts) = ts[1] /\ Len(c) = Len(ts) - 1
      /\ \A i \in 1..Len(ts) - 1 : c[i] = ts[i + 1]
  BY Got
<1> HIDE DEF c
<1>2. \A i \in 1..Len(c) : i + 1 \in 1..Len(ts) /\ i + 1 > 1 /\ c[i] = ts[i + 1]
  BY <1>1
<1>3. CASE now = f /\ \A i \in 1..Len(ts) : ~About(ts[i], s)
  <2>1. ~About(Head(ts), s)
    BY <1>1, <1>3
  <2>2. InForce(c, now, s, f)
    BY <1>2, <1>3 DEF InForce
  <2> QED
    BY <2>1, <2>2 DEF c
<1>4. CASE \E i \in 1..Len(ts) :
              /\ About(ts[i], s) /\ ts[i].filter = f
              /\ \A j \in 1..Len(ts) : j > i => ~About(ts[j], s)
  <2>1. PICK i \in 1..Len(ts) :
              /\ About(ts[i], s) /\ ts[i].filter = f
              /\ \A j \in 1..Len(ts) : j > i => ~About(ts[j], s)
    BY <1>4
  <2>2. CASE i = 1
    <3>1. InForce(c, f, s, f)
      BY <1>2, <2>1, <2>2 DEF InForce
    <3>2. About(Head(ts), s) /\ Head(ts).filter = f
      BY <1>1, <2>1, <2>2
    <3> QED
      BY <3>1, <3>2 DEF c
  <2>3. CASE i # 1
    <3>1. i - 1 \in 1..Len(c) /\ c[i - 1] = ts[i] /\ \A j \in 1..Len(c) : j > i - 1 => j + 1 > i
      BY <1>1, <2>3
    <3>2. \A any : InForce(c, any, s, f)
      BY <1>2, <2>1, <3>1 DEF InForce
    <3> QED
      BY <3>2 DEF c
  <2> QED
    BY <2>2, <2>3
<1> QED
  BY <1>3, <1>4 DEF InForce

LEMMA FilterStep ==
    TypeOK /\ SocketInv /\ RequestInv /\ NameInv /\ FilterInv /\ [Next]_vars => FilterInv'
<1> SUFFICES ASSUME TypeOK, SocketInv, RequestInv, NameInv, FilterInv, [Next]_vars, serving' PROVE FilterInv'
  BY DEF FilterInv
<1> USE NoneAssumption
<1>t. /\ toServer \in Seq(Messages) /\ toClient \in Seq(Messages)
      /\ Range(toServer) \subseteq Messages /\ Range(toClient) \subseteq Messages
      /\ \A p \in Panels : serverSubId[p] # None => serverSubId[p] \in Subs /\ routes[serverSubId[p]] = p
  BY RangeFacts DEF TypeOK
<1>s. ASSUME serving, NEW m \in Messages, toServer' = toServer \/ Send(<<m>>), NEW p \in Panels,
             serverSubId[p] # None, ~About(m, serverSubId[p])
      PROVE  InForce(toServer', serverFilter[serverSubId[p]], serverSubId[p], filter[p])
  <2>1. InForce(toServer, serverFilter[serverSubId[p]], serverSubId[p], filter[p])
    BY <1>s DEF FilterInv
  <2>2. toServer' = toServer \/ toServer' = Append(toServer, m)
    BY <1>s, Sends
  <2>3. InForce(Append(toServer, m), serverFilter[serverSubId[p]], serverSubId[p], filter[p])
    BY <1>t, <1>s, <2>1, OtherWord
  <2> QED
    BY <2>1, <2>2, <2>3
<1>1. ASSUME NEW p \in Panels, Subscribe(p) PROVE FilterInv'
  BY <1>1 DEF Subscribe, serverVars, FilterInv
<1>2. ASSUME NEW p \in Panels, Unsubscribe(p) PROVE FilterInv'
  <2>1. /\ UNCHANGED <<serving, serverFilter>>
        /\ filter' = [filter EXCEPT ![p] = None]
        /\ serverSubId' = serverSubId \/ serverSubId' = [serverSubId EXCEPT ![p] = None]
    BY <1>2 DEF Unsubscribe, serverVars
  <2>2. \A q \in Panels : q # p => serverSubId'[q] = serverSubId[q] /\ filter'[q] = filter[q]
    BY ONLY <2>1, TypeOK DEF TypeOK
  <2>3. serverSubId'[p] = None
    BY <1>2 DEF Unsubscribe, TypeOK
  <2>4. CASE serverSubId[p] = None
    <3>1. toServer' = toServer
      BY <1>2, <2>4 DEF Unsubscribe
    <3> QED
      BY <2>1, <2>2, <2>3, <3>1 DEF FilterInv
  <2>5. CASE serverSubId[p] # None
    <3> DEFINE m == UnsubscribeMsg(serverSubId[p])
    <3>1. m \in Messages /\ m.type = "unsubscribe" /\ Send(<<m>>)
      BY <1>2, <1>t, <2>5 DEF Unsubscribe, UnsubscribeMsg, Messages
    <3> HIDE DEF m
    <3> QED
      BY <1>s, <2>1, <2>2, <2>3, <3>1 DEF FilterInv, About
  <2> QED
    BY <2>4, <2>5
<1>3. ASSUME NEW p \in Panels, NEW f \in Filters \cup {None}, SetFilter(p, f) PROVE FilterInv'
  <2>1. /\ UNCHANGED <<serving, serverFilter, serverSubId>> /\ filter' = [filter EXCEPT ![p] = f]
    BY <1>3 DEF SetFilter, serverVars
  <2>2. filter'[p] = f /\ \A q \in Panels : q # p => filter'[q] = filter[q]
    BY <2>1 DEF TypeOK
  <2>3. CASE serverSubId[p] = None
    <3>1. toServer' = toServer
      BY <1>3, <2>3 DEF SetFilter
    <3> QED
      BY <2>1, <2>2, <2>3, <3>1 DEF FilterInv
  <2>4. CASE serverSubId[p] # None
    <3> DEFINE s == serverSubId[p] m == FilterMsg(s, f)
    <3>1. s \in Subs /\ Send(<<m>>)
      BY <1>3, <1>t, <2>4 DEF SetFilter
    <3>2. m \in Messages /\ About(m, s) /\ m.sub = s /\ m.filter = f
      BY <3>1 DEF FilterMsg, Messages, About
    <3> HIDE DEF m
    <3>3. toServer' = Append(toServer, m)
      BY <2>1, <3>1, <3>2, Sends
    <3>4. InForce(toServer', serverFilter[s], s, f)
      BY <1>t, <3>2, <3>3, LastWord
    <3>5. ASSUME NEW q \in Panels, q # p, serverSubId[q] # None
          PROVE  InForce(toServer', serverFilter[serverSubId[q]], serverSubId[q], filter[q])
      <4>1. ~About(m, serverSubId[q])
        BY <1>t, <2>4, <3>2, <3>5 DEF About
      <4> QED
        BY <1>s, <2>1, <3>1, <3>2, <3>5, <4>1
    <3> QED
      BY <2>1, <2>2, <3>4, <3>5 DEF FilterInv
  <2> QED
    BY <2>3, <2>4
<1>4. ASSUME NEW p \in Panels, SendOwn(p) PROVE FilterInv'
  <2> DEFINE m == SubscribeMsg(Request(p, "own"))
  <2>1. m \in Messages /\ m.type = "subscribe" /\ Send(<<m>>)
    BY <1>4, Distinct DEF SubscribeMsg, Messages, SendOwn
  <2> HIDE DEF m
  <2>2. UNCHANGED <<serverSubId, filter, serverFilter, serving>>
    BY <1>4 DEF SendOwn, serverVars
  <2> QED
    BY <1>s, <2>1, <2>2 DEF FilterInv, About
<1>5. CASE Open
  BY <1>5 DEF Open, SocketInv, FilterInv
<1>6. CASE OpenFails \/ Close
  BY <1>6 DEF OpenFails, Close, serverVars, TypeOK
<1>8. CASE TimerFires
  BY <1>8 DEF TimerFires, serverVars, FilterInv
<1>9. CASE Refreshed
  BY <1>9 DEF Refreshed, FilterInv
<1>10. CASE ReceiveSubscribed
  <2> DEFINE a == Head(toClient) r == a.req s == a.sub p == r.panel m == FilterMsg(s, filter[p])
  <2>1. /\ toClient # <<>> /\ a \in Messages /\ a.type = "subscribed" /\ a \in Range(toClient)
        /\ UNCHANGED <<serving, serverFilter, filter>>
    BY <1>10, <1>t, RangeFacts DEF ReceiveSubscribed, Is, serverVars
  <2>2. r \in Requests /\ s \in Subs /\ p \in Panels
    BY <2>1, MessageFacts, RequestFacts DEF Asking, Naming
  <2>3. Served(r, s) BY <1>10 DEF ReceiveSubscribed
  <2>4. /\ routes[s] = None /\ serverFilter[s] = None
        /\ \A n \in Range(toServer) : ~About(n, s)
    BY <1>t, <2>1, NamesRead DEF NameInv, Naming, About
  <2>5. /\ m \in Messages /\ About(m, s) /\ m.sub = s /\ m.filter = filter[p]
        /\ toServer' = toServer \/ Send(<<m>>)
    <3>1. m \in Messages /\ About(m, s) /\ m.sub = s /\ m.filter = filter[p]
      BY <2>2 DEF FilterMsg, Messages, TypeOK, About
    <3>2. toServer' = toServer \/ Send(<<m>>)
      BY <2>3 DEF Served
    <3> QED
      BY <3>1, <3>2
  <2>6. /\ serverSubId' = serverSubId
           \/ /\ serverSubId' = [serverSubId EXCEPT ![p] = s]
              /\ IF filter[p] = None THEN toServer' = toServer ELSE Send(<<m>>)
    BY <2>3 DEF Served
  <2> HIDE DEF a, s, p, m
  <2>7. ASSUME NEW q \in Panels, serverSubId[q] # None
        PROVE  InForce(toServer', serverFilter[serverSubId[q]], serverSubId[q], filter[q])
    <3>1. ~About(m, serverSubId[q])
      BY <1>t, <2>4, <2>5, <2>7 DEF About
    <3> QED
      BY <1>s, <2>1, <2>5, <2>7, <3>1
  <2>8. CASE serverSubId' = serverSubId
    BY <2>1, <2>7, <2>8 DEF FilterInv
  <2>9. CASE /\ serverSubId' = [serverSubId EXCEPT ![p] = s]
             /\ IF filter[p] = None THEN toServer' = toServer ELSE Send(<<m>>)
    <3>1. serverSubId'[p] = s /\ \A q \in Panels : q # p => serverSubId'[q] = serverSubId[q]
      BY <2>2, <2>9 DEF TypeOK
    <3>2. InForce(toServer', serverFilter[s], s, filter[p])
      <4>1. CASE filter[p] = None
        BY <1>t, <2>4, <2>9, <4>1, NoWord
      <4>2. CASE filter[p] # None
        <5>1. toServer' = Append(toServer, m)
          BY <2>1, <2>5, <2>9, <4>2, Sends
        <5> QED
          BY <1>t, <2>5, <5>1, LastWord
      <4> QED
        BY <4>1, <4>2
    <3> QED
      BY <2>1, <2>7, <3>1, <3>2 DEF FilterInv
  <2> QED
    BY <2>6, <2>8, <2>9
<1>11. CASE ReceiveError \/ ReceiveReauth
  BY <1>11 DEF ReceiveError, ReceiveReauth, serverVars, FilterInv
<1>13. CASE HandleSubscribe \/ RefuseSubscribe
  <2>1. /\ toServer # <<>> /\ toServer' = Tail(toServer) /\ Head(toServer).type = "subscribe"
        /\ UNCHANGED <<serving, filter, serverSubId>>
    BY <1>13 DEF HandleSubscribe, RefuseSubscribe, Is, clientVars
  <2>2. ASSUME NEW p \in Panels, serverSubId[p] # None
        PROVE  serverFilter'[serverSubId[p]] = serverFilter[serverSubId[p]]
    <3>1. CASE HandleSubscribe
      <4>1. NewSub \in Subs /\ serverSubId[p] # NewSub
        BY <3>1, FreshName DEF HandleSubscribe, NewSub
      <4>2. serverFilter' = [serverFilter EXCEPT ![NewSub] = None]
        BY <3>1 DEF HandleSubscribe
      <4> QED
        BY <1>t, <2>2, <4>1, <4>2 DEF TypeOK
    <3>2. CASE RefuseSubscribe
      BY <3>2 DEF RefuseSubscribe, serverVars
    <3> QED
      BY <1>13, <3>1, <3>2
  <2>3. ASSUME NEW p \in Panels, serverSubId[p] # None
        PROVE  InForce(toServer', serverFilter[serverSubId[p]], serverSubId[p], filter[p])
    BY <1>t, <2>1, <2>3, FirstWord DEF FilterInv, About
  <2> QED
    BY <2>1, <2>2, <2>3 DEF FilterInv
<1>15. CASE HandleUnsubscribe \/ HandleFilter
  <2> DEFINE a == Head(toServer) s == a.sub
  <2>1. /\ serving /\ toServer # <<>> /\ toServer' = Tail(toServer) /\ a \in Messages /\ a \in Range(toServer)
        /\ a.type \in {"unsubscribe", "filter"}
        /\ UNCHANGED <<serving, filter, serverSubId>>
    <3>1. /\ serving /\ toServer # <<>> /\ toServer' = Tail(toServer)
          /\ a.type \in {"unsubscribe", "filter"}
          /\ UNCHANGED <<serving, filter, serverSubId>>
      BY <1>15 DEF HandleUnsubscribe, HandleFilter, Is, clientVars
    <3> QED
      BY <1>t, <3>1, RangeFacts
  <2>2. s \in Subs
    BY <2>1, MessageFacts DEF Naming
  <2>3. ASSUME NEW p \in Panels, serverSubId[p] # None
        PROVE  serverFilter'[serverSubId[p]] =
                 IF About(a, serverSubId[p]) THEN a.filter ELSE serverFilter[serverSubId[p]]
    <3>1. owner[serverSubId[p]] = p
      BY <1>t, <2>1, <2>3 DEF NameInv
    <3>2. CASE HandleUnsubscribe
      <4>1. a.type = "unsubscribe" /\ serverFilter' = [serverFilter EXCEPT ![s] = None]
        BY <3>2 DEF HandleUnsubscribe, Is
      <4>2. s # serverSubId[p]
        BY <1>t, <2>1, <2>3, <4>1 DEF NameInv
      <4> QED
        BY <1>t, <2>2, <2>3, <4>1, <4>2 DEF TypeOK, About
    <3>3. CASE HandleFilter
      <4>1. /\ a.type = "filter"
            /\ serverFilter' = [serverFilter EXCEPT ![s] = IF owner[s] = None THEN @ ELSE a.filter]
        BY <3>3 DEF HandleFilter, Is
      <4> QED
        BY <1>t, <2>2, <2>3, <3>1, <4>1 DEF TypeOK, About
    <3> QED
      BY <1>15, <3>2, <3>3
  <2>4. ASSUME NEW p \in Panels, serverSubId[p] # None
        PROVE  InForce(toServer', serverFilter'[serverSubId[p]], serverSubId[p], filter[p])
    <3>1. InForce(toServer, serverFilter[serverSubId[p]], serverSubId[p], filter[p])
      BY <2>1, <2>4 DEF FilterInv
    <3> QED
      BY <1>t, <2>1, <2>3, <2>4, <3>1, FirstWord
  <2> QED
    BY <2>1, <2>4 DEF FilterInv
<1>17. CASE Drop
  BY <1>17 DEF Drop, HandlerEnds
<1>18. CASE Expire
  <2>1. ~serving
    BY <1>18 DEF Expire, HandlerEnds
  <2> QED
    BY <1>18, <2>1 DEF Expire
<1>19. CASE UNCHANGED vars
  BY <1>19 DEF vars, clientVars, serverVars, FilterInv
<1> QED
  BY <1>1, <1>2, <1>3, <1>4, <1>5, <1>6, <1>8, <1>9, <1>10, <1>11, <1>13,
     <1>15, <1>17, <1>18, <1>19 DEF Next, Call, Receive, Handle

-----------------------------------------------------------------------------

LEMMA InitIInv == Init => IInv
<1> SUFFICES ASSUME Init PROVE IInv
  OBVIOUS
<1>1. TypeOK
  <2>1. toServer \in Seq(Messages) /\ toClient \in Seq(Messages)
    BY DEF Init
  <2>2. \A p \in Panels : serverSubId[p] = None
    BY DEF Init
  <2> QED
    BY <2>1, <2>2 DEF Init, TypeOK
<1>2. SocketInv
  BY FS_EmptySet DEF Init, SocketInv
<1>3. RequestInv
  BY DEF Init, RequestInv, RequestsOK
<1>4. NameInv
  BY DEF Init, NameInv, NamesOK, Range
<1>5. StreamInv /\ AwaitedInv /\ FilterInv
  BY DEF Init, StreamInv, AwaitedInv, FilterInv
<1> QED
  BY <1>1, <1>2, <1>3, <1>4, <1>5 DEF IInv

LEMMA Invariance == Spec => []IInv
<1>1. IInv /\ [Next]_vars => IInv'
  BY TypeStep, RequestStep, NameStep, StreamStep, AwaitedStep, FilterStep DEF IInv
<1> QED
  BY <1>1, InitIInv, PTL DEF Spec

\* The names, routes, requests and messages of both ends keep their types, a handler
\* runs only on an open socket, and the client routes the name it knows to its panel
\* (wsClient.ts, ws_logs.py).
THEOREM LogSocketTypeCorrect == Spec => []TypeOK
  BY Invariance, PTL DEF IInv

\* For any panels, filters and faults: after any number of lost, refused and expired
\* connections, whatever was subscribed, unsubscribed and filtered meanwhile, once
\* nothing is under way every panel is subscribed or was refused, and the server has
\* its filter (wsClient.ts 14-16).
THEOREM PanelsAreRestored == Spec => []Restored
<1>1. IInv => Restored
  <2> SUFFICES ASSUME IInv, Quiet PROVE Resubscribed /\ FilterAgrees
    BY DEF Restored, Resubscribed, FilterAgrees
  <2>1. /\ Range(toServer) = {} /\ Range(toClient) = {} /\ serving /\ ready = {}
        /\ Len(toServer) = 0
    BY DEF Quiet, Range
  <2>2. ASSUME NEW p \in subs
        PROVE  (serverSubId[p] # None /\ owner[serverSubId[p]] = p) \/ p \in refused
    <3>1. p \in Panels /\ (serverSubId[p] # None \/ p \in refused)
      BY <2>1 DEF IInv, AwaitedInv, TypeOK
    <3>2. serverSubId[p] # None => serverSubId[p] \in Subs /\ routes[serverSubId[p]] = p /\ p # None
      BY <3>1, NoneAssumption DEF IInv, TypeOK
    <3> QED
      BY <2>1, <3>1, <3>2 DEF IInv, NameInv
  <2>3. ASSUME NEW p \in subs, serverSubId[p] # None
        PROVE  serverFilter[serverSubId[p]] = filter[p]
    BY <2>1, <2>3 DEF IInv, FilterInv, InForce, TypeOK
  <2> QED
    BY <2>2, <2>3 DEF Resubscribed, FilterAgrees
<1> QED
  BY <1>1, Invariance, PTL

\* Likewise, every subscription the server streams for a panel that is still there is
\* routed to it (wsClient.ts, handleMessage).
THEOREM StreamsReachPanels == Spec => []StreamsArrive
<1>1. IInv => StreamsArrive
  <2> SUFFICES ASSUME IInv, Quiet PROVE \A s \in Subs : owner[s] \in subs => routes[s] = owner[s]
    BY DEF StreamsArrive
  <2>1. Range(toClient) = {} /\ serving
    BY DEF Quiet, Range
  <2> QED
    BY <2>1 DEF IInv, StreamInv
<1> QED
  BY <1>1, Invariance, PTL
=============================================================================
