------------------------ MODULE AgentRegistryProofs ------------------------
(***************************************************************************)
(* What holds of the registry however connections overlap, whatever is     *)
(* deleted and whenever the server restarts.                               *)
(***************************************************************************)
EXTENDS AgentRegistry, TLAPS

USE DEF requestVars, rowVars

THEOREM TypeInit == Init => TypeOK
  BY NoneAssumption, ZenonT(30) DEF Init, TypeOK, Phases, Futures

\* The registered connection and the state of every handler stay in their sets.
LEMMA TypeStep == TypeOK /\ PendingExact /\ [Next]_vars => TypeOK'
<1> SUFFICES ASSUME TypeOK, PendingExact, [Next]_vars PROVE TypeOK'
  OBVIOUS
<1> USE NoneAssumption DEF TypeOK, Phases, Futures, Settled
<1>1. ASSUME NEW c \in Conns, Accept(c) PROVE TypeOK'
  BY <1>1 DEF Accept
<1>2. ASSUME NEW c \in Conns, Handler(c) PROVE TypeOK'
  <2>1. CASE Marked(c)
    BY <2>1 DEF Marked
  <2>2. CASE MarkFailed(c)
    BY <2>2 DEF MarkFailed
  <2>3. CASE Unmark(c)
    BY <2>3 DEF Unmark
  <2>6. CASE Leave(c)
    BY <2>6 DEF Leave, Detach
  <2>4. CASE UnmarkFailed(c)
    BY <2>4 DEF UnmarkFailed
  <2>5. CASE Ends(c)
    BY <2>5 DEF Ends
  <2> QED
    BY <1>2, <2>1, <2>2, <2>3, <2>4, <2>5, <2>6 DEF Handler
<1>3. ASSUME NEW c \in Conns, Drop(c) PROVE TypeOK'
  BY <1>3 DEF Drop
<1>4. ASSUME NEW c \in Conns, Ends(c) PROVE TypeOK'
  BY <1>4 DEF Ends
<1>5. ASSUME NEW c \in Conns, NEW r \in Requests, Answer(c, r) PROVE TypeOK'
  BY <1>5 DEF Answer, Matches
<1>6. ASSUME NEW r \in Requests, Ask(r) PROVE TypeOK'
  BY <1>6 DEF Ask
<1>7. ASSUME NEW r \in Requests, TimeOut(r) PROVE TypeOK'
  BY <1>7 DEF TimeOut
<1>8. ASSUME NEW r \in Requests, Return(r) PROVE TypeOK'
  BY <1>8 DEF Return
<1>9. CASE Delete
  BY <1>9 DEF Delete
<1>10. CASE Restart
  BY <1>10 DEF Restart
<1>11. CASE UNCHANGED vars
  BY <1>11 DEF vars
<1> QED
  BY <1>1, <1>2, <1>3, <1>4, <1>5, <1>6, <1>7, <1>8, <1>9, <1>10, <1>11 DEF Next

\* Only a call of request() and its finally clause touch a pending table; the
\* others move a future between states in which its caller is still inside.
LEMMA PendingStep == TypeOK /\ PendingExact /\ [Next]_vars => PendingExact'
<1> SUFFICES ASSUME TypeOK, PendingExact, [Next]_vars PROVE PendingExact'
  OBVIOUS
<1> USE DEF TypeOK, PendingExact, Settled
<1>1. ASSUME UNCHANGED <<pending, via, fut>> PROVE PendingExact'
  BY <1>1
<1>2. ASSUME NEW r \in Requests, Ask(r) PROVE PendingExact'
  BY <1>2, NoneAssumption DEF Ask
<1>3. ASSUME NEW r \in Requests, Return(r) PROVE PendingExact'
  <2>1. via[r] \in Conns /\ fut[r] # "none"
    BY <1>3 DEF Return
  <2> SUFFICES ASSUME NEW c \in Conns
               PROVE  pending'[c] = {q \in Requests : fut'[q] # "none" /\ via'[q] = c}
    OBVIOUS
  <2>2. CASE c = via[r]
    BY <1>3, <2>1, <2>2 DEF Return
  <2>3. CASE c # via[r]
    BY <1>3, <2>1, <2>3 DEF Return
  <2> QED
    BY <2>2, <2>3
<1>4. ASSUME UNCHANGED <<pending, via>>,
             \A r \in Requests : fut'[r] = "none" <=> fut[r] = "none"
      PROVE  PendingExact'
  BY <1>4
<1>5. ASSUME NEW c \in Conns, NEW r \in Requests, Answer(c, r) PROVE PendingExact'
  BY <1>4, <1>5 DEF Answer, Matches
<1>6. ASSUME NEW r \in Requests, TimeOut(r) PROVE PendingExact'
  BY <1>4, <1>6 DEF TimeOut
<1>7. ASSUME NEW c \in Conns, Leave(c) PROVE PendingExact'
  BY <1>4, <1>7 DEF Leave, Detach
<1>8. ASSUME NEW c \in Conns,
             \/ Accept(c) \/ Marked(c) \/ MarkFailed(c) \/ Unmark(c)
             \/ UnmarkFailed(c) \/ Drop(c) \/ Ends(c)
      PROVE  PendingExact'
  BY <1>1, <1>8 DEF Accept, Marked, MarkFailed, Unmark, UnmarkFailed, Drop, Ends
<1>9. CASE Delete \/ UNCHANGED vars
  BY <1>1, <1>9 DEF Delete, vars
<1>10. CASE Restart
  BY <1>10 DEF Restart
<1> QED
  BY <1>2, <1>3, <1>5, <1>6, <1>7, <1>8, <1>9, <1>10 DEF Next, Handler

\* Type correctness, for every set of connections and requests.
THEOREM TypeCorrect == Spec => []TypeOK
<1>1. Init => TypeOK /\ PendingExact
  BY TypeInit, NoneAssumption DEF Init, PendingExact
<1>2. TypeOK /\ PendingExact /\ [Next]_vars => (TypeOK /\ PendingExact)'
  BY TypeStep, PendingStep
<1> QED
  BY <1>1, <1>2, PTL DEF Spec

\* A request's future is in the table of the connection the request captured
\* exactly while its caller is inside request(): however connections overlap,
\* no table leaks an entry (registry.py 75, 83-84).
THEOREM PendingIsExact == Spec => []PendingExact
<1>1. Init => TypeOK /\ PendingExact
  BY TypeInit, NoneAssumption DEF Init, PendingExact
<1>2. TypeOK /\ PendingExact /\ [Next]_vars => (TypeOK /\ PendingExact)'
  BY TypeStep, PendingStep
<1> QED
  BY <1>1, <1>2, PTL DEF Spec

\* An answer, a timeout and a disconnection that race set a future once: a
\* second result would raise in the read loop of all of the agent's messages
\* (registry.py 49-51, 94-97).
THEOREM FuturesSetOnce == Spec => SetOnce
<1>1. TypeOK /\ [Next]_vars =>
        \A r \in Requests : fut[r] \in Settled => fut'[r] \in {fut[r], "none"}
  <2> SUFFICES ASSUME TypeOK, [Next]_vars, NEW r \in Requests, fut[r] \in Settled
               PROVE  fut'[r] \in {fut[r], "none"}
    OBVIOUS
  <2> USE DEF TypeOK, Settled
  <2>1. ASSUME UNCHANGED fut PROVE fut'[r] \in {fut[r], "none"}
    BY <2>1
  <2>2. ASSUME NEW q \in Requests, Ask(q) PROVE fut'[r] \in {fut[r], "none"}
    BY <2>2 DEF Ask
  <2>3. ASSUME NEW q \in Requests, Return(q) PROVE fut'[r] \in {fut[r], "none"}
    BY <2>3 DEF Return
  <2>4. ASSUME NEW q \in Requests, TimeOut(q) PROVE fut'[r] \in {fut[r], "none"}
    BY <2>4 DEF TimeOut
  <2>5. ASSUME NEW c \in Conns, NEW q \in Requests, Answer(c, q)
        PROVE  fut'[r] \in {fut[r], "none"}
    BY <2>5 DEF Answer, Matches
  <2>6. ASSUME NEW c \in Conns, Leave(c) PROVE fut'[r] \in {fut[r], "none"}
    BY <2>6 DEF Leave, Detach
  <2>7. ASSUME NEW c \in Conns,
               \/ Accept(c) \/ Marked(c) \/ MarkFailed(c) \/ Unmark(c)
               \/ UnmarkFailed(c) \/ Drop(c) \/ Ends(c)
        PROVE  UNCHANGED fut
    BY <2>7 DEF Accept, Marked, MarkFailed, Unmark, UnmarkFailed, Drop, Ends
  <2>8. CASE Delete \/ UNCHANGED vars
    BY <2>8 DEF Delete, vars
  <2>9. CASE Restart
    BY <2>9 DEF Restart
  <2> QED
    BY <2>1, <2>2, <2>3, <2>4, <2>5, <2>6, <2>7, <2>8, <2>9 DEF Next, Handler
<1>2. TypeOK /\ [Next]_vars =>
        [\A r \in Requests : fut[r] \in Settled => fut'[r] \in {fut[r], "none"}]_vars
  BY <1>1
<1> QED
  BY <1>2, TypeCorrect, PTL DEF Spec, SetOnce

-----------------------------------------------------------------------------
(* The registered connection, its requests and the sessions.               *)

\* A request is unanswered only on the connection it was sent on, and who was
\* answered resumes before the handler of that connection has finished.
Bookkeeping ==
    /\ \A c \in Conns : alive[c] => phase[c] \in {"marking", "open"}
    /\ \A c \in Conns : \A r \in asked[c] : fut[r] # "none" => via[r] = c
    /\ row = "present" =>
         \A r \in Requests : fut[r] = "answered" =>
            via[r] \in Conns /\ phase[via[r]] \notin {"closed", "leaving"}

Promises ==
    NewestWins /\ AnswerFindsRequest /\ ReachableIsOnline /\ SessionsClosedIfPresent

RegistryInv == TypeOK /\ PendingExact /\ Bookkeeping /\ Promises

LEMMA RegistryInit == Init => Bookkeeping /\ Promises
  BY NoneAssumption DEF Init, Bookkeeping, Promises, NewestWins,
     AnswerFindsRequest, ReachableIsOnline, SessionsClosedIfPresent

LEMMA RegistryStep ==
    ASSUME RegistryInv, [Next]_vars
    PROVE  (Bookkeeping /\ Promises)'
<1> USE NoneAssumption
    DEF RegistryInv, TypeOK, PendingExact, Bookkeeping, Promises, NewestWins,
        AnswerFindsRequest, ReachableIsOnline, SessionsClosedIfPresent, Phases,
        Futures, Settled
<1>1. ASSUME NEW c \in Conns, Accept(c) PROVE (Bookkeeping /\ Promises)'
  <2>1. \A r \in Requests : fut[r] # "none" => via[r] # c
    BY <1>1 DEF Accept
  <2> QED
    BY <1>1, <2>1 DEF Accept
<1>2. ASSUME NEW c \in Conns, Marked(c) PROVE (Bookkeeping /\ Promises)'
  BY <1>2 DEF Marked
<1>3. ASSUME NEW c \in Conns, MarkFailed(c) \/ UnmarkFailed(c)
      PROVE  (Bookkeeping /\ Promises)'
  BY <1>3 DEF MarkFailed, UnmarkFailed
<1>4. ASSUME NEW c \in Conns, Unmark(c) PROVE (Bookkeeping /\ Promises)'
  <2>1. \A r \in Requests : fut[r] = "answered" => via[r] # c
    BY <1>4 DEF Unmark, Resumed
  <2> QED
    BY <1>4, <2>1 DEF Unmark
<1>5. ASSUME NEW c \in Conns, Leave(c) PROVE (Bookkeeping /\ Promises)'
  <2>1. \A r \in Requests :
          /\ fut'[r] = "none" <=> fut[r] = "none"
          /\ fut'[r] = "answered" <=> fut[r] = "answered"
          /\ fut'[r] = "pending" => fut[r] = "pending" /\ via[r] # current
    BY <1>5 DEF Leave, Detach
  <2>2. UNCHANGED <<alive, via, asked, row>> /\ current' = None /\ ~live'
    BY <1>5 DEF Leave, Detach
  <2>3. phase[c] = "leaving" /\ phase' = [phase EXCEPT ![c] = "closed"]
    BY <1>5 DEF Leave
  <2> QED
    BY <2>1, <2>2, <2>3
<1>6. ASSUME NEW c \in Conns, Ends(c) PROVE (Bookkeeping /\ Promises)'
  BY <1>6 DEF Ends
<1>7. ASSUME NEW c \in Conns, Drop(c) PROVE (Bookkeeping /\ Promises)'
  BY <1>7 DEF Drop
<1>8. ASSUME NEW c \in Conns, NEW r \in Requests, Answer(c, r)
      PROVE  (Bookkeeping /\ Promises)'
  BY <1>8 DEF Answer, Matches
<1>9. ASSUME NEW r \in Requests, Ask(r) PROVE (Bookkeeping /\ Promises)'
  BY <1>9 DEF Ask
<1>10. ASSUME NEW r \in Requests, TimeOut(r) PROVE (Bookkeeping /\ Promises)'
  BY <1>10 DEF TimeOut
<1>11. ASSUME NEW r \in Requests, Return(r) PROVE (Bookkeeping /\ Promises)'
  BY <1>11 DEF Return
<1>12. CASE Delete
  BY <1>12 DEF Delete
<1>13. CASE Restart
  BY <1>13 DEF Restart
<1>14. CASE UNCHANGED vars
  BY <1>14 DEF vars
<1> QED
  BY <1>1, <1>2, <1>3, <1>4, <1>5, <1>6, <1>7, <1>8, <1>9, <1>10, <1>11, <1>12,
     <1>13, <1>14 DEF Next, Handler

LEMMA RegistryInvariant == Spec => []RegistryInv
<1>1. Init => RegistryInv
  BY TypeInit, RegistryInit, NoneAssumption DEF RegistryInv, Init, PendingExact
<1>2. RegistryInv /\ [Next]_vars => RegistryInv'
  BY TypeStep, PendingStep, RegistryStep DEF RegistryInv
<1> QED
  BY <1>1, <1>2, PTL DEF Spec

\* No earlier connection is ever put back: what is registered is the connection
\* the agent holds or, when it holds none, one whose handler is still to end
\* (unless the agent is deleted); handlers of earlier connections can only leave nothing registered (registry.py
\* 42-51, service.py 78).
THEOREM NewestConnectionWins == Spec => []NewestWins
  BY RegistryInvariant, PTL DEF RegistryInv, Promises

\* However handlers overlap, the answer on a connection the agent still holds
\* finds its request, or the request has been failed (registry.py 45-51, 86-98).
THEOREM AnswersFindRequests == Spec => []AnswerFindsRequest
  BY RegistryInvariant, PTL DEF RegistryInv, Promises

\* Who can be reached by a request is shown as connected up to the detach that
\* follows the commit of an earlier handler (service.py 74-78).
THEOREM ReachableAgentsAreOnline == Spec => []ReachableIsOnline
  BY RegistryInvariant, PTL DEF RegistryInv, Promises

\* An agent that is not deleted has no open session once all its handlers have
\* finished, overlapping ones and late answers included (service.py 76-80).
THEOREM SessionsAreClosed == Spec => []SessionsClosedIfPresent
  BY RegistryInvariant, PTL DEF RegistryInv, Promises
=============================================================================
