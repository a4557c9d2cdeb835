--------------------------- MODULE AgentHostProofs ---------------------------
(***************************************************************************)
(* What a route returns is what its request found, and the walk of a       *)
(* pattern misses nothing that was there from its beginning to its end,    *)
(* for any tree of files, any caps and any requests.  The backfill of a    *)
(* followed log is its last lines, and the lines that follow are those     *)
(* that were written, for any log and any sizes.                           *)
(***************************************************************************)
EXTENDS MCAgentHost, FiniteSetTheorems, SequenceTheorems, TLAPS

Replies(errors) == [error : errors, files : SUBSET Nodes, truncated : BOOLEAN]

CallTypes == [kind : Kinds \cup {"none"}, state : {"idle", "waiting", "done"},
              reply : Replies(Errors \cup {"offline", "late"})]
MessageTypes == [to : Requests, reply : Replies(Errors)]
WalkTypes == [stack : Seq(Dirs), todo : SUBSET Nodes, visited : 0..MaxEntries,
              found : SUBSET Nodes, truncated : BOOLEAN, error : Errors, busy : BOOLEAN]
OwedTypes == [files : SUBSET Nodes, failed : BOOLEAN]

TypeInv ==
    /\ there \subseteq Nodes /\ readable \subseteq Dirs
    /\ call \in [Requests -> CallTypes]
    /\ inbox \in Seq(Requests) /\ job \in Requests \cup {NoRequest}
    /\ walk \in WalkTypes
    /\ outbox \in Seq(MessageTypes)
    /\ steady \subseteq Nodes
    /\ owed \in [Requests -> OwedTypes]

\* A request is asked once, and is in one place from then on.
Queued == {inbox[i] : i \in 1..Len(inbox)}
Sent == {outbox[k] : k \in 1..Len(outbox)}

OnceInv ==
    /\ \A i, j \in 1..Len(inbox) : inbox[i] = inbox[j] => i = j
    /\ job \notin Queued
    /\ \A r \in Queued : call[r].state # "idle"
    /\ job # NoRequest => call[job].state # "idle"
    /\ \A m \in Sent : call[m.to].state # "idle" /\ m.to \notin Queued /\ m.to # job
    /\ \A r \in Requests : call[r].state = "done" /\ call[r].reply.error \in {"none", "text"} =>
          r \notin Queued /\ r # job

\* While a pattern is resolved, what it is to find was found, or is in the listing
\* at hand, or below a directory that is still to be listed.
Ahead == {walk.stack[i] : i \in 1..Len(walk.stack)} \cup (walk.todo \cap Dirs)

WalkInv ==
    job # NoRequest =>
    /\ walk.error # "none" => walk.found = {} /\ ~walk.busy
    /\ walk.busy => steady \subseteq Reached
    /\ Kind \in {"regex", "glob"} /\ walk.error = "none" =>
          /\ walk.found \subseteq Matching /\ Cardinality(walk.found) <= MaxFiles
          /\ ~walk.truncated /\ ~walk.busy => steady \cap Matching \subseteq walk.found
    /\ Kind = "regex" /\ walk.error = "none" /\ ~walk.truncated =>
          \A n \in steady \cap Matching :
              n \in walk.found \/ n \in walk.todo \/ \E d \in Ahead : d \in Above[n]
    /\ Kind = "glob" /\ walk.error = "none" /\ ~walk.truncated =>
          \A n \in steady \cap Matching : n \in walk.found \/ n \in walk.todo
    /\ Kind = "glob" => walk.todo \subseteq Matching

\* A reply that may be taken for a success has what it owed.
Honest(kind, due, reply) ==
    reply.error # "text" /\ kind \in {"regex", "glob"} =>
          /\ reply.files \subseteq Matching /\ Cardinality(reply.files) <= MaxFiles
          /\ ~reply.truncated => due.files \subseteq reply.files

ReplyInv ==
    /\ \A m \in Sent : Honest(call[m.to].kind, owed[m.to], m.reply)
    /\ \A r \in Requests : call[r].state = "done" /\ call[r].reply.error \in {"none", "text"} =>
          Honest(call[r].kind, owed[r], call[r].reply)
-----------------------------------------------------------------------------

\* A set that holds a node and the directories of all in it has all above the node.
LEMMA ClosedHoldsAbove ==
    ASSUME NEW n \in Nodes, NEW S \in Closed, n \in S
    PROVE  Above[n] \subseteq S
  BY DEF Above

\* What the directories above a file are like.
LEMMA AboveFacts ==
    ASSUME NEW n \in Files
    PROVE  /\ n \in Nodes /\ Above[n] \subseteq Dirs /\ Root \in Above[n]
           /\ \A d \in Above[n] : /\ Above[d] \subseteq Above[n]
                                  /\ \E c \in Children(d) : c = n \/ c \in Above[n]
<1> DEFINE Path == Above[n] \cup {n}
<1>1. n \in Nodes /\ n # Root /\ n \notin Dirs
  BY TreeAssumption DEF Nodes
<1>2. Above[n] = {d \in Dirs \ {n} : \A S \in Closed : n \in S => d \in S}
  BY <1>1 DEF Above
<1>3. \A m \in Path : (\A S \in Closed : n \in S => m \in S) /\ m \in Nodes
  BY <1>1, <1>2 DEF Nodes
<1>4. \A d \in Dirs : (\A S \in Closed : n \in S => d \in S) => d \in Above[n]
  BY <1>1, <1>2
<1>5. Path \in Closed
  <2>1. ASSUME NEW m \in Path, m # Root PROVE Parent[m] \in Path
    <3>1. Parent[m] \in Dirs
      BY <1>3, <2>1, TreeAssumption
    <3>2. ASSUME NEW S \in Closed, n \in S PROVE Parent[m] \in S
      BY <1>3, <2>1, <3>2 DEF Closed
    <3> QED
      BY <1>4, <3>1, <3>2
  <2> QED
    BY <1>3, <2>1 DEF Closed
<1>6. Root \in Above[n]
  BY <1>1, <1>5, TreeAssumption
<1>7. ASSUME NEW d \in Above[n] PROVE Above[d] \subseteq Above[n]
  <2>1. d \in Nodes /\ d \in Path /\ Above[d] \subseteq Dirs
    BY <1>2, <1>7 DEF Nodes, Above
  <2>2. Above[d] \subseteq Path
    BY <1>5, <2>1, ClosedHoldsAbove
  <2> QED
    BY <1>1, <2>1, <2>2
<1>8. ASSUME NEW d \in Above[n] PROVE \E c \in Children(d) : c \in Path
  <2> SUFFICES ASSUME ~ \E c \in Children(d) : c \in Path PROVE FALSE
    OBVIOUS
  <2>1. \A m \in (Path \ {d}) \ {Root} : Parent[m] \in Path \ {d}
    BY <1>3, <1>5 DEF Closed, Children
  <2>2. Path \ {d} \in Closed
    BY <1>3, <2>1 DEF Closed
  <2>3. n \in Path \ {d}
    BY <1>1, <1>2, <1>8
  <2> QED
    BY <1>2, <1>8, <2>2, <2>3
<1> QED
  BY <1>1, <1>2, <1>6, <1>7, <1>8

LEMMA FilesAreFinite ==
    ASSUME NEW S, S \subseteq Nodes
    PROVE  /\ IsFiniteSet(S) /\ Cardinality(S) \in Nat
           /\ \A n \in Nodes : Cardinality(S \cup {n}) <= Cardinality(S) + 1
<1>1. IsFiniteSet(Nodes)
  BY RequestAssumption, FS_Union DEF Nodes
<1>2. IsFiniteSet(S) /\ Cardinality(S) \in Nat
  BY <1>1, FS_Subset, FS_CardinalityType
<1> QED
  BY <1>2, FS_AddElement

\* One entry: the walk is cut, a directory is pushed, or a file is kept if it matches.
LEMMA EntryFacts ==
    ASSUME walk \in WalkTypes, NEW n \in walk.todo
    PROVE  LET w == Entry(n)
           IN  /\ w \in WalkTypes /\ w.error = walk.error /\ w.busy = walk.busy
               /\ \/ w.truncated /\ w.found = walk.found
                  \/ /\ n \in Dirs /\ w.stack = <<n>> \o walk.stack /\ w.found = walk.found
                     /\ w.todo = walk.todo \ {n} /\ w.truncated = walk.truncated
                  \/ /\ n \in Files /\ w.stack = walk.stack /\ w.todo = walk.todo \ {n}
                     /\ w.truncated = walk.truncated
                     /\ w.found = walk.found \cup ({n} \cap Matching)
                     /\ Cardinality(walk.found) <= MaxFiles => Cardinality(w.found) <= MaxFiles
<1> DEFINE seen == [walk EXCEPT !.todo = @ \ {n}, !.visited = @ + 1]
           cut  == [walk EXCEPT !.todo = {}, !.truncated = TRUE]
           push == [seen EXCEPT !.stack = <<n>> \o @]
           keep == [seen EXCEPT !.found = @ \cup {n}]
<1>1. /\ n \in Nodes /\ walk.visited \in 0..MaxEntries /\ MaxEntries \in Nat /\ MaxFiles \in Nat
      /\ walk.stack \in Seq(Dirs) /\ walk.found \subseteq Nodes /\ walk.todo \subseteq Nodes
  BY RequestAssumption DEF WalkTypes
<1>2. CASE walk.visited = MaxEntries
  <2>1. Entry(n) = cut
    BY <1>1, <1>2 DEF Entry
  <2> QED
    BY <2>1 DEF WalkTypes
<1>3. CASE walk.visited # MaxEntries
  <2>1. walk.visited < MaxEntries /\ walk.visited + 1 \in 0..MaxEntries
    BY <1>1, <1>3
  <2>2. seen \in WalkTypes
    BY <2>1 DEF WalkTypes
  <2>3. CASE n \in Dirs
    <3>1. Entry(n) = push
      BY <1>3, <2>1, <2>3, TreeAssumption DEF Entry
    <3>2. <<n>> \o walk.stack \in Seq(Dirs)
      BY <1>1, <2>3
    <3> QED
      BY <2>2, <2>3, <3>1, <3>2 DEF WalkTypes
  <2>4. CASE n \in Files \ Matching
    <3>1. Entry(n) = seen
      BY <1>3, <2>1, <2>4, TreeAssumption DEF Entry
    <3>2. {n} \cap Matching = {}
      BY <2>4
    <3> QED
      BY <2>2, <2>4, <3>1, <3>2 DEF WalkTypes
  <2>5. CASE n \in Matching /\ Cardinality(walk.found) = MaxFiles
    <3>1. Entry(n) = cut
      BY <1>3, <2>1, <2>5, TreeAssumption DEF Entry
    <3> QED
      BY <3>1 DEF WalkTypes
  <2>6. CASE n \in Matching /\ Cardinality(walk.found) # MaxFiles
    <3>1. Entry(n) = keep /\ n \in Files /\ {n} \cap Matching = {n}
      BY <1>3, <2>1, <2>6, TreeAssumption DEF Entry
    <3>2. Cardinality(walk.found) <= MaxFiles => Cardinality(walk.found \cup {n}) <= MaxFiles
      BY <1>1, <2>6, FilesAreFinite
    <3>3. walk.found \cup {n} \subseteq Nodes
      BY <1>1
    <3>4. keep \in WalkTypes /\ keep.found = walk.found \cup {n}
      BY <2>2, <3>3 DEF WalkTypes
    <3>5. /\ keep.error = walk.error /\ keep.busy = walk.busy /\ keep.stack = walk.stack
          /\ keep.todo = walk.todo \ {n} /\ keep.truncated = walk.truncated
      BY DEF WalkTypes
    <3> HIDE DEF keep, seen
    <3> QED
      BY ONLY <3>1, <3>2, <3>4, <3>5
  <2> QED
    BY <1>1, <2>3, <2>4, <2>5, <2>6 DEF Nodes
<1> QED
  BY <1>2, <1>3

-----------------------------------------------------------------------------
(* Types *)

Looks ==
    \/ Refuse \/ ListDir \/ Visit \/ WalkEnds \/ ExpandGlob \/ Browse \/ OneFile
    \/ ListUnits \/ ListContainers \/ SelfUpdate

restVars == <<fileVars, linked, call, inbox, job, outbox, steady, owed>>

LEMMA NoWalkFacts ==
    /\ NoWalk \in WalkTypes /\ NoWalk.stack = <<>> /\ NoWalk.todo = {} /\ NoWalk.found = {}
    /\ NoWalk.error = "none" /\ ~NoWalk.truncated /\ ~NoWalk.busy
    /\ \A error \in Errors : LET w == [NoWalk EXCEPT !.error = error]
                             IN  /\ w \in WalkTypes /\ w.error = error /\ w.found = {}
                                 /\ ~w.truncated /\ ~w.busy
    /\ \A found \in SUBSET Nodes, truncated \in BOOLEAN :
          LET w == [NoWalk EXCEPT !.found = found, !.truncated = truncated]
          IN  /\ w \in WalkTypes /\ w.error = "none" /\ w.found = found
              /\ w.truncated = truncated /\ ~w.busy
<1>1. NoWalk \in WalkTypes
  BY RequestAssumption DEF NoWalk, WalkTypes, Errors
<1> QED
  BY <1>1 DEF NoWalk, WalkTypes, Errors

\* What is left after the cap.
LEMMA CappedFacts ==
    ASSUME NEW candidates \in SUBSET Nodes, Capped(candidates)
    PROVE  /\ walk' \in WalkTypes /\ UNCHANGED restVars
           /\ walk'.error = "none" /\ ~walk'.busy
           /\ walk'.found \subseteq candidates /\ Cardinality(walk'.found) <= MaxFiles
           /\ ~walk'.truncated => walk'.found = candidates
<1>1. PICK some \in SUBSET candidates :
          /\ Cardinality(some) <= MaxFiles
          /\ Walks([NoWalk EXCEPT !.found = some, !.truncated = some # candidates])
  BY DEF Capped
<1>2. some \in SUBSET Nodes /\ (some # candidates) \in BOOLEAN
  OBVIOUS
<1>3. walk' = [NoWalk EXCEPT !.found = some, !.truncated = some # candidates]
  BY <1>1 DEF Walks
<1>4. UNCHANGED restVars
  BY <1>1 DEF Walks, restVars
<1>5. /\ walk' \in WalkTypes /\ walk'.error = "none" /\ walk'.found = some
      /\ walk'.truncated = (some # candidates) /\ ~walk'.busy
  BY <1>2, <1>3, NoWalkFacts
<1> QED
  BY <1>1, <1>4, <1>5

LEMMA ReachedFacts ==
    TypeInv => /\ Reached \subseteq Nodes
               /\ \A n \in Reached : n \in there /\ Above[n] \subseteq there \cap readable
  BY DEF TypeInv, Reached, Reach

LEMMA ChildrenFacts == \A d \in Dirs : Children(d) \subseteq Nodes
  BY DEF Children

\* What a glob does with the name it has come to.
GlobStep(n) ==
    LET rest == [walk EXCEPT !.todo = @ \ {n}]
    IN  IF n \notin Reached THEN rest
        ELSE IF Cardinality(walk.found) = MaxFiles
        THEN [walk EXCEPT !.todo = {}, !.truncated = TRUE]
        ELSE [rest EXCEPT !.found = @ \cup {n}]

LEMMA GlobFacts ==
    ASSUME TypeInv, ExpandGlob
    PROVE  \E n \in walk.todo : GlobStep(n) \in WalkTypes /\ Walks(GlobStep(n))
<1>1. PICK n \in walk.todo : Walks(GlobStep(n))
  BY DEF ExpandGlob, GlobStep
<1>2. walk \in WalkTypes /\ n \in Nodes
  BY DEF TypeInv, WalkTypes
<1>3. GlobStep(n) \in WalkTypes
  BY <1>2 DEF GlobStep, WalkTypes
<1> QED
  BY <1>1, <1>3

\* Every step of the provider but the last leaves everything but the walk alone.
LEMMA LooksFacts ==
    ASSUME TypeInv, Looks
    PROVE  walk' \in WalkTypes /\ UNCHANGED restVars
<1>0. walk \in WalkTypes
  BY DEF TypeInv
<1>1. ASSUME NEW w \in WalkTypes, Walks(w) PROVE walk' \in WalkTypes /\ UNCHANGED restVars
  BY <1>1 DEF Walks, restVars
<1>2. CASE Refuse
  <2>1. PICK error \in Errors : Walks([NoWalk EXCEPT !.error = error])
    BY <1>2 DEF Refuse, Errors
  <2> QED
    BY <1>1, <2>1, NoWalkFacts
<1>3. CASE ListDir
  <2> DEFINE listed == IF Head(walk.stack) \in Reached \cap readable
                       THEN Children(Head(walk.stack)) \cap there ELSE {}
             w == [walk EXCEPT !.stack = Tail(@), !.todo = listed]
  <2>1. Walks(w) /\ walk.stack # <<>>
    BY <1>3 DEF ListDir
  <2>2. Tail(walk.stack) \in Seq(Dirs) /\ Head(walk.stack) \in Dirs
    BY <1>0, <2>1 DEF WalkTypes
  <2>3. listed \subseteq Nodes
    BY <2>2, ChildrenFacts
  <2>4. w \in WalkTypes
    BY <1>0, <2>2, <2>3 DEF WalkTypes
  <2> QED
    BY <1>1, <2>1, <2>4
<1>4. CASE Visit
  <2>1. PICK n \in walk.todo : Walks(Entry(n))
    BY <1>4 DEF Visit
  <2>2. Entry(n) \in WalkTypes
    BY <1>0, EntryFacts
  <2> QED
    BY <1>1, <2>1, <2>2
<1>5. CASE WalkEnds
  <2>1. Walks([walk EXCEPT !.busy = FALSE]) /\ [walk EXCEPT !.busy = FALSE] \in WalkTypes
    BY <1>0, <1>5 DEF WalkEnds, WalkTypes
  <2> QED
    BY <1>1, <2>1
<1>6. CASE ExpandGlob
  <2>1. PICK n \in walk.todo : GlobStep(n) \in WalkTypes /\ Walks(GlobStep(n))
    BY <1>6, GlobFacts
  <2> QED
    BY <1>1, <2>1
<1>7. CASE Browse
  <2>1. PICK d \in Dirs : \/ Capped(Children(d) \cap there)
                          \/ Walks([NoWalk EXCEPT !.error = "text"])
    BY <1>7 DEF Browse
  <2>2. Children(d) \cap there \in SUBSET Nodes
    BY ChildrenFacts
  <2>3. "text" \in Errors
    BY DEF Errors
  <2> QED
    BY <1>1, <2>1, <2>2, <2>3, CappedFacts, NoWalkFacts
<1>8. CASE OneFile
  <2>1. PICK n \in Matching :
           Walks([NoWalk EXCEPT !.found = IF Kind # "exact_path" \/ n \in Reached THEN {n} ELSE {}])
    BY <1>8 DEF OneFile
  <2> DEFINE w == [NoWalk EXCEPT !.found = IF Kind # "exact_path" \/ n \in Reached THEN {n} ELSE {}]
  <2>2. (IF Kind # "exact_path" \/ n \in Reached THEN {n} ELSE {}) \in SUBSET Nodes
    BY TreeAssumption DEF Nodes
  <2>3. w \in WalkTypes
    BY ONLY <2>2, NoWalkFacts DEF WalkTypes
  <2> QED
    BY <1>1, <2>1, <2>3
<1>9. CASE ListUnits \/ ListContainers \/ SelfUpdate
  <2>1. PICK error \in Errors : Walks([NoWalk EXCEPT !.error = error])
    BY <1>9 DEF ListUnits, ListContainers, SelfUpdate, Runs, Errors
  <2> QED
    BY <1>1, <2>1, NoWalkFacts
<1> QED
  BY <1>2, <1>3, <1>4, <1>5, <1>6, <1>7, <1>8, <1>9 DEF Looks

LEMMA ReplyFacts ==
    /\ \A error \in Errors \cup {"offline", "late"} : Reply(error, {}, FALSE) \in Replies(Errors \cup {"offline", "late"})
    /\ \A reply \in Replies(Errors) : Response(reply) \in Replies(Errors \cup {"offline", "late"})
    /\ \A w \in WalkTypes : Reply(w.error, w.found, w.truncated) \in Replies(Errors)
  BY DEF Reply, Replies, Response, Errors, WalkTypes

LEMMA TypeStep == TypeInv /\ [RequestNext]_requestVars => TypeInv'
<1> SUFFICES ASSUME TypeInv, [RequestNext]_requestVars PROVE TypeInv'
  OBVIOUS
<1> USE DEF TypeInv
<1>1. ASSUME NEW r \in Requests, NEW kind \in Kinds, Ask(r, kind) PROVE TypeInv'
  <2>1. call' \in [Requests -> CallTypes]
    BY <1>1 DEF Ask, CallTypes
  <2> QED
    BY <1>1, <2>1 DEF Ask, fileVars
<1>2. ASSUME NEW r \in Requests, NEW kind \in Kinds, AskOffline(r, kind) PROVE TypeInv'
  <2>1. call' \in [Requests -> CallTypes]
    BY <1>2, ReplyFacts DEF AskOffline, CallTypes
  <2> QED
    BY <1>2, <2>1 DEF AskOffline, fileVars
<1>3. ASSUME NEW r \in Requests, NEW reply \in Replies(Errors \cup {"offline", "late"}), Returns(r, reply)
      PROVE  call' \in [Requests -> CallTypes]
  BY <1>3, ZenonT(30) DEF Returns, CallTypes
<1>4. ASSUME NEW r \in Requests, Expires(r) PROVE TypeInv'
  <2>1. call' \in [Requests -> CallTypes]
    BY <1>3, <1>4, ReplyFacts DEF Expires
  <2> QED
    BY <1>4, <2>1 DEF Expires, fileVars
<1>5. CASE Deliver
  <2>1. /\ Head(outbox) \in MessageTypes /\ outbox' = Tail(outbox) /\ outbox' \in Seq(MessageTypes)
    BY <1>5 DEF Deliver
  <2>2. call' \in [Requests -> CallTypes]
    BY <1>3, <1>5, <2>1, ReplyFacts DEF Deliver, MessageTypes
  <2> QED
    BY <1>5, <2>1, <2>2 DEF Deliver, fileVars
<1>6. CASE Unlink
  <2>1. call' \in [Requests -> CallTypes]
    <3>1. ASSUME NEW r \in Requests
          PROVE  [call[r] EXCEPT !.state = "done", !.reply = Reply("offline", {}, FALSE)] \in CallTypes
      BY ReplyFacts DEF CallTypes
    <3> QED
      BY <1>6, <3>1 DEF Unlink
  <2>2. inbox' \in Seq(Requests) /\ outbox' \in Seq(MessageTypes)
    <3>1. inbox' = <<>> /\ outbox' = <<>>
      BY <1>6 DEF Unlink
    <3>2. \A S : <<>> \in Seq(S)
      OBVIOUS
    <3> QED
      BY ONLY <3>1, <3>2
  <2>3. UNCHANGED <<there, readable, job, walk, steady, owed>>
    BY <1>6 DEF Unlink, fileVars
  <2> QED
    BY <2>1, <2>2, <2>3
<1>7. CASE Relink
  BY <1>7 DEF Relink, fileVars
<1>8. CASE FilesChange
  <2>1. there' \subseteq Nodes /\ readable' \subseteq Dirs
    BY <1>8 DEF FilesChange
  <2> QED
    BY <1>8, <2>1 DEF FilesChange
<1>9. CASE Take
  <2>1. job' \in Requests /\ inbox' \in Seq(Requests) /\ steady' \subseteq Nodes
    BY <1>9, ReachedFacts DEF Take
  <2>2. walk' \in WalkTypes
    <3>1. (IF call[job'].kind = "regex" THEN <<Root>> ELSE <<>>) \in Seq(Dirs)
      BY TreeAssumption
    <3>2. (IF call[job'].kind = "glob" THEN Matching ELSE {}) \in SUBSET Nodes
      BY TreeAssumption DEF Nodes
    <3>3. \A stack \in Seq(Dirs), todo \in SUBSET Nodes :
             [NoWalk EXCEPT !.busy = TRUE, !.stack = stack, !.todo = todo] \in WalkTypes
      BY NoWalkFacts DEF WalkTypes
    <3> QED
      BY <1>9, <3>1, <3>2, <3>3 DEF Take
  <2> QED
    BY <1>9, <2>1, <2>2 DEF Take, fileVars
<1>10. CASE Looks
  BY <1>10, LooksFacts DEF restVars, fileVars
<1>11. CASE Answer
  <2>1. outbox' \in Seq(MessageTypes)
    <3>1. [to |-> job, reply |-> Reply(walk.error, walk.found, walk.truncated)] \in MessageTypes
      BY <1>11, ReplyFacts DEF Answer, MessageTypes
    <3> QED
      BY <1>11, <3>1 DEF Answer
  <2>2. owed' \in [Requests -> OwedTypes]
    BY <1>11 DEF Answer, OwedTypes
  <2> QED
    BY <1>11, <2>1, <2>2, NoWalkFacts DEF Answer, fileVars
<1>12. CASE UNCHANGED requestVars
  BY <1>12 DEF requestVars
<1> QED
  BY <1>1, <1>2, <1>4, <1>5, <1>6, <1>7, <1>8, <1>9, <1>10, <1>11, <1>12 DEF RequestNext, Provider, Looks

-----------------------------------------------------------------------------
(* A request is in one place *)

\* The first of a queue leaves, or another is added.
LEMMA HeadLeaves ==
    ASSUME NEW S, NEW s \in Seq(S), s # <<>>
    PROVE  LET Elements(q) == {q[i] : i \in 1..Len(q)}
           IN  /\ Head(s) \in Elements(s) /\ Elements(Tail(s)) \subseteq Elements(s)
               /\ (\A i, j \in 1..Len(s) : s[i] = s[j] => i = j) =>
                     /\ Head(s) \notin Elements(Tail(s))
                     /\ \A i, j \in 1..Len(Tail(s)) : Tail(s)[i] = Tail(s)[j] => i = j
<1>1. /\ Len(s) \in Nat /\ Len(s) >= 1 /\ Len(Tail(s)) = Len(s) - 1 /\ Head(s) = s[1]
      /\ \A i \in 1..Len(Tail(s)) : Tail(s)[i] = s[i + 1] /\ i + 1 \in 2..Len(s)
  OBVIOUS
<1> QED
  BY <1>1

LEMMA OneMoreAdded ==
    ASSUME NEW S, NEW s \in Seq(S), NEW e \in S
    PROVE  LET Elements(q) == {q[i] : i \in 1..Len(q)}
           IN  /\ Elements(Append(s, e)) = Elements(s) \cup {e}
               /\ e \notin Elements(s) /\ (\A i, j \in 1..Len(s) : s[i] = s[j] => i = j) =>
                     \A i, j \in 1..Len(Append(s, e)) : Append(s, e)[i] = Append(s, e)[j] => i = j
<1>1. /\ Len(s) \in Nat /\ Len(Append(s, e)) = Len(s) + 1 /\ Append(s, e)[Len(s) + 1] = e
      /\ \A i \in 1..Len(s) : Append(s, e)[i] = s[i]
  OBVIOUS
<1> QED
  BY <1>1

LEMMA PlacesType ==
    TypeInv => Queued \subseteq Requests /\ Sent \subseteq MessageTypes /\ \A m \in Sent : m.to \in Requests
<1> SUFFICES ASSUME TypeInv
             PROVE  Queued \subseteq Requests /\ Sent \subseteq MessageTypes /\ \A m \in Sent : m.to \in Requests
  OBVIOUS
<1>1. inbox \in Seq(Requests) /\ outbox \in Seq(MessageTypes)
  BY DEF TypeInv
<1>2. \A i \in 1..Len(inbox) : inbox[i] \in Requests
  BY <1>1
<1>3. \A k \in 1..Len(outbox) : outbox[k] \in MessageTypes
  BY <1>1
<1>4. \A m \in MessageTypes : m.to \in Requests
  BY DEF MessageTypes
<1> QED
  BY <1>2, <1>3, <1>4 DEF Queued, Sent

\* A request that was asked stays so and keeps its kind.
LEMMA AskedStays ==
    ASSUME TypeInv, RequestNext, NEW r \in Requests, call[r].state # "idle"
    PROVE  call'[r].state # "idle" /\ call'[r].kind = call[r].kind
<1>1. call \in [Requests -> CallTypes]
  BY DEF TypeInv
<1>2. ASSUME NEW q \in Requests, NEW reply, Returns(q, reply)
      PROVE  call'[r].state # "idle" /\ call'[r].kind = call[r].kind
  BY <1>1, <1>2 DEF Returns, CallTypes
<1>3. ASSUME NEW q \in Requests, NEW kind \in Kinds, Ask(q, kind) \/ AskOffline(q, kind)
      PROVE  call'[r] = call[r]
  BY <1>1, <1>3 DEF Ask, AskOffline
<1>4. ASSUME NEW q \in Requests, Expires(q)
      PROVE  call'[r].state # "idle" /\ call'[r].kind = call[r].kind
  BY <1>2, <1>4 DEF Expires
<1>5. CASE Deliver
  <2>1. outbox # <<>> /\ outbox \in Seq(MessageTypes)
    BY <1>5 DEF Deliver, TypeInv
  <2>2. Head(outbox) \in MessageTypes
    BY <2>1
  <2>3. Head(outbox).to \in Requests
    BY <2>2 DEF MessageTypes
  <2> QED
    BY <1>2, <1>5, <2>3 DEF Deliver
<1>6. CASE Unlink
  BY <1>1, <1>6 DEF Unlink, CallTypes
<1>7. CASE Relink \/ FilesChange \/ Take \/ Answer
  BY <1>7 DEF Relink, FilesChange, Take, Answer
<1>8. CASE Looks
  BY <1>8, LooksFacts DEF restVars
<1> QED
  BY <1>3, <1>4, <1>5, <1>6, <1>7, <1>8 DEF RequestNext, Provider, Looks

\* If the queues and the hands are as before and no call came to a result.
LEMMA OnceStays ==
    ASSUME TypeInv, TypeInv', OnceInv, RequestNext,
           job' = job, Queued' \subseteq Queued, Sent' \subseteq Sent,
           \A i, j \in 1..Len(inbox') : inbox'[i] = inbox'[j] => i = j,
           \A r \in Requests : call'[r].state = "done" /\ call'[r].reply.error \in {"none", "text"} =>
              r \notin Queued /\ r # job
    PROVE  OnceInv'
<1>1. Queued \subseteq Requests /\ \A m \in Sent : m.to \in Requests
  BY PlacesType
<1>2. \A r \in Requests : call[r].state # "idle" => call'[r].state # "idle"
  BY AskedStays
<1> QED
  BY <1>1, <1>2 DEF OnceInv, TypeInv

LEMMA OnceStep == TypeInv /\ TypeInv' /\ OnceInv /\ [RequestNext]_requestVars => OnceInv'
<1> SUFFICES ASSUME TypeInv, TypeInv', OnceInv, [RequestNext]_requestVars PROVE OnceInv'
  OBVIOUS
<1>a. /\ call \in [Requests -> CallTypes] /\ inbox \in Seq(Requests) /\ job \in Requests \cup {NoRequest}
      /\ outbox \in Seq(MessageTypes)
  BY DEF TypeInv
<1>b. /\ Queued \subseteq Requests /\ Sent \subseteq MessageTypes
      /\ \A m \in Sent : m.to \in Requests
  BY PlacesType
<1>1. ASSUME NEW r \in Requests, NEW kind \in Kinds, Ask(r, kind) PROVE OnceInv'
  <2>0. call[r].state = "idle"
    BY <1>1 DEF Ask
  <2>1. r \notin Queued /\ r # job /\ \A m \in Sent : m.to # r
    BY <1>b, <2>0, RequestAssumption DEF OnceInv
  <2>2. inbox' = Append(inbox, r) /\ Queued' = Queued \cup {r} /\ Sent' = Sent /\ job' = job
    BY <1>1, <1>a, OneMoreAdded DEF Ask, Queued, Sent
  <2>3. \A i, j \in 1..Len(inbox') : inbox'[i] = inbox'[j] => i = j
    BY <1>a, <2>1, <2>2, OneMoreAdded DEF OnceInv, Queued
  <2>4. call'[r].state = "waiting" /\ \A q \in Requests : q # r => call'[q] = call[q]
    BY <1>1, <1>a DEF Ask, CallTypes
  <2>5. \A m \in Sent : m.to \in Requests
    BY <1>b
  <2> QED
    BY <1>a, <1>b, <2>0, <2>1, <2>2, <2>3, <2>4, <2>5 DEF OnceInv
<1>2. ASSUME RequestNext, UNCHANGED <<inbox, job, outbox>>,
             \A r \in Requests : call'[r].state = "done" /\ call'[r].reply.error \in {"none", "text"} =>
                                 call'[r] = call[r]
      PROVE  OnceInv'
  BY <1>2, OnceStays DEF OnceInv, Queued, Sent
<1>3. ASSUME NEW r \in Requests, NEW kind \in Kinds, AskOffline(r, kind) PROVE OnceInv'
  <2>1. call'[r].reply.error = "offline" /\ \A q \in Requests : q # r => call'[q] = call[q]
    BY <1>3, <1>a DEF AskOffline, Reply
  <2> QED
    BY <1>2, <1>3, <2>1 DEF AskOffline, RequestNext
<1>4. ASSUME NEW r \in Requests, Expires(r) PROVE OnceInv'
  <2>1. call'[r].reply.error = "late" /\ \A q \in Requests : q # r => call'[q] = call[q]
    BY <1>4, <1>a DEF Expires, Returns, Reply, CallTypes
  <2> QED
    BY <1>2, <1>4, <2>1 DEF Expires, RequestNext
<1>5. CASE Deliver
  <2>1. /\ UNCHANGED <<inbox, job>> /\ outbox' = Tail(outbox) /\ Head(outbox) \in Sent
        /\ Sent' \subseteq Sent /\ Queued' = Queued
    BY <1>5, <1>a, HeadLeaves DEF Deliver, Sent, Queued
  <2>2. Head(outbox).to \notin Queued /\ Head(outbox).to # job
    BY <2>1 DEF OnceInv
  <2>3. \A r \in Requests : r # Head(outbox).to => call'[r] = call[r]
    BY <1>5, <1>a DEF Deliver, Returns
  <2> QED
    BY <1>5, <2>1, <2>2, <2>3, OnceStays DEF OnceInv, RequestNext
<1>6. CASE Unlink
  <2>1. inbox' = <<>> /\ outbox' = <<>> /\ job' = job
    BY <1>6 DEF Unlink
  <2>2. Queued' = {} /\ Sent' = {}
    BY <2>1 DEF Queued, Sent
  <2>3. \A r \in Requests : call'[r].reply.error = "offline" \/ call'[r] = call[r]
    BY <1>6, <1>a DEF Unlink, CallTypes, Reply
  <2> QED
    BY <1>6, <2>1, <2>2, <2>3, OnceStays DEF OnceInv, RequestNext
<1>7. CASE Relink \/ FilesChange
  BY <1>2, <1>7 DEF Relink, FilesChange, RequestNext
<1>8. CASE Looks
  <2>1. UNCHANGED <<call, inbox, job, outbox>>
    BY <1>8, LooksFacts DEF restVars
  <2> QED
    BY <2>1 DEF OnceInv, Queued, Sent
<1>9. CASE Take
  <2>1. /\ UNCHANGED <<call, outbox>> /\ job' = Head(inbox) /\ inbox' = Tail(inbox)
        /\ job = NoRequest /\ inbox # <<>> /\ Sent' = Sent
    BY <1>9 DEF Take, Sent
  <2>2. /\ job' \in Queued /\ Queued' \subseteq Queued /\ job' \notin Queued'
        /\ \A i, j \in 1..Len(inbox') : inbox'[i] = inbox'[j] => i = j
    BY <1>a, <2>1, HeadLeaves DEF OnceInv, Queued
  <2> QED
    BY <1>a, <1>b, <2>1, <2>2 DEF OnceInv
<1>10. CASE Answer
  <2>1. /\ UNCHANGED <<call, inbox>> /\ job \in Requests /\ job' = NoRequest /\ Queued' = Queued
        /\ NoRequest \notin Requests
    BY <1>10, <1>a, RequestAssumption DEF Answer, Queued
  <2>2. \A m \in Sent' : m \in Sent \/ m.to = job
    <3> DEFINE answer == [to |-> job, reply |-> Reply(walk.error, walk.found, walk.truncated)]
    <3>1. answer \in MessageTypes /\ answer.to = job
      BY <2>1, ReplyFacts DEF MessageTypes, TypeInv
    <3>2. outbox' = Append(outbox, answer) \/ outbox' = outbox
      BY <1>10 DEF Answer
    <3> QED
      BY <1>a, <3>1, <3>2, OneMoreAdded DEF Sent
  <2>3. \A m \in Sent' : m.to \in Requests
    BY <1>b, <2>1, <2>2
  <2> QED
    BY <1>a, <1>b, <2>1, <2>2, <2>3 DEF OnceInv
<1>11. CASE UNCHANGED requestVars
  BY <1>11 DEF requestVars, OnceInv, Queued, Sent
<1> QED
  BY <1>1, <1>3, <1>4, <1>5, <1>6, <1>7, <1>8, <1>9, <1>10, <1>11 DEF RequestNext, Provider, Looks

-----------------------------------------------------------------------------
(* The walk *)

LEMMA WalkStays ==
    ASSUME TypeInv, OnceInv, WalkInv, RequestNext, UNCHANGED <<job, walk>>,
           steady' \subseteq steady, job # NoRequest /\ walk.busy => steady' \subseteq Reached'
    PROVE  WalkInv'
<1> SUFFICES ASSUME job # NoRequest PROVE WalkInv'
  BY DEF WalkInv
<1>1. job \in Requests /\ call[job].state # "idle"
  BY DEF TypeInv, OnceInv
<1>2. Kind' = Kind
  BY <1>1, AskedStays DEF Kind
<1>3. Ahead' = Ahead
  BY DEF Ahead
<1> QED
  BY <1>2, <1>3 DEF WalkInv

\* The directory at hand leads to its files through one of its entries.
LEMMA ListDirKeeps ==
    ASSUME TypeInv, WalkInv, ListDir
    PROVE  WalkInv'
<1>1. /\ job # NoRequest /\ walk.busy /\ walk.todo = {} /\ walk.stack # <<>> /\ Kind = "regex"
      /\ walk.stack \in Seq(Dirs) /\ walk \in WalkTypes /\ ~walk.truncated
  BY DEF ListDir, Looking, TypeInv, WalkTypes
<1> DEFINE d == Head(walk.stack)
           listed == IF d \in Reached \cap readable THEN Children(d) \cap there ELSE {}
<1>2. walk' = [walk EXCEPT !.stack = Tail(@), !.todo = listed]
  BY DEF ListDir, Walks
<1>3. UNCHANGED <<there, readable, call, job, steady>>
  BY DEF ListDir, Walks, fileVars
<1>4. Kind' = Kind /\ Reached' = Reached
  BY <1>3 DEF Kind, Reached
<1>5. /\ walk'.stack = Tail(walk.stack) /\ walk'.todo = listed /\ walk'.found = walk.found
      /\ walk'.error = walk.error /\ walk'.truncated = walk.truncated /\ walk'.busy = walk.busy
  BY <1>1, <1>2 DEF WalkTypes
<1>6. Ahead = {d} \cup {Tail(walk.stack)[i] : i \in 1..Len(Tail(walk.stack))}
  <2>1. /\ Len(walk.stack) \in Nat /\ Len(walk.stack) >= 1 /\ d = walk.stack[1]
        /\ Len(Tail(walk.stack)) = Len(walk.stack) - 1
        /\ \A i \in 1..Len(Tail(walk.stack)) : Tail(walk.stack)[i] = walk.stack[i + 1]
    BY <1>1
  <2> DEFINE rest == Tail(walk.stack)
             stack == walk.stack
  <2>2. /\ Len(stack) \in Nat /\ Len(stack) >= 1 /\ Len(rest) = Len(stack) - 1
        /\ \A i \in 1..Len(rest) : rest[i] = stack[i + 1]
    BY <2>1
  <2> HIDE DEF d, rest, stack
  <2>3. ASSUME NEW i \in 1..Len(stack), i # 1
        PROVE  \E k \in 1..Len(rest) : stack[i] = rest[k]
    <3>1. i - 1 \in 1..Len(rest) /\ (i - 1) + 1 = i
      BY <2>2, <2>3
    <3>2. stack[i] = rest[i - 1]
      BY <2>2, <3>1
    <3> QED
      BY <3>1, <3>2
  <2>4. ASSUME NEW i \in 1..Len(rest)
        PROVE  \E k \in 1..Len(stack) : rest[i] = stack[k]
    <3>1. i + 1 \in 1..Len(stack) /\ rest[i] = stack[i + 1]
      BY <2>2
    <3> QED
      BY <3>1
  <2>5. Ahead = {stack[i] : i \in 1..Len(stack)}
    BY <1>1 DEF Ahead, stack
  <2>6. 1 \in 1..Len(stack) /\ d = stack[1]
    BY <2>1, <2>2 DEF stack
  <2>7. {stack[i] : i \in 1..Len(stack)} \subseteq {d} \cup {rest[i] : i \in 1..Len(rest)}
    BY <2>3, <2>6
  <2>8. {d} \cup {rest[i] : i \in 1..Len(rest)} \subseteq {stack[i] : i \in 1..Len(stack)}
    BY <2>4, <2>6
  <2> QED
    BY <2>5, <2>7, <2>8 DEF rest
<1>7. Ahead' = {Tail(walk.stack)[i] : i \in 1..Len(Tail(walk.stack))} \cup (listed \cap Dirs)
  BY <1>5 DEF Ahead
<1> HIDE DEF listed
<1>8. ASSUME NEW n \in steady \cap Matching, walk.error = "none", n \notin walk.found
      PROVE  n \in listed \/ \E e \in Ahead' : e \in Above[n]
  <2>1. PICK e \in Ahead : e \in Above[n]
    BY <1>1, <1>8 DEF WalkInv
  <2>2. CASE e # d
    BY <1>6, <1>7, <2>1, <2>2
  <2>3. CASE e = d
    <3>1. n \in Files /\ n \in Reached
      BY <1>1, TreeAssumption DEF WalkInv
    <3>2. /\ d \in Above[n] /\ Above[d] \subseteq Above[n] /\ Above[n] \subseteq Dirs
          /\ n \in there /\ Above[n] \subseteq there \cap readable
      BY <2>1, <2>3, <3>1, AboveFacts, ReachedFacts
    <3>3. d \in Reached \cap readable
      BY <3>2 DEF Reached, Reach
    <3>4. PICK c \in Children(d) : c = n \/ c \in Above[n]
      BY <2>1, <2>3, <3>1, AboveFacts
    <3>5. c \in listed
      BY <3>2, <3>3, <3>4 DEF listed
    <3> QED
      BY <1>7, <3>2, <3>4, <3>5
  <2> QED
    BY <2>2, <2>3
<1> QED
  BY <1>1, <1>3, <1>4, <1>5, <1>8 DEF WalkInv

LEMMA VisitKeeps ==
    ASSUME TypeInv, WalkInv, Visit
    PROVE  WalkInv'
<1>1. PICK n \in walk.todo : Walks(Entry(n))
  BY DEF Visit
<1>2. walk' = Entry(n) /\ UNCHANGED <<there, readable, call, job, steady>>
  BY <1>1 DEF Walks, fileVars
<1>3. Kind' = Kind /\ Reached' = Reached
  BY <1>2 DEF Kind, Reached
<1>4. /\ walk \in WalkTypes /\ walk.stack \in Seq(Dirs) /\ job # NoRequest /\ walk.busy
      /\ Kind = "regex"
  BY DEF TypeInv, WalkTypes, Visit, Looking
<1>5. walk'.error = walk.error /\ walk'.busy = walk.busy
  BY <1>2, <1>4, EntryFacts
<1>6. CASE walk'.truncated /\ walk'.found = walk.found
  BY <1>2, <1>3, <1>4, <1>5, <1>6 DEF WalkInv
<1>7. CASE /\ n \in Dirs /\ walk'.stack = <<n>> \o walk.stack /\ walk'.found = walk.found
           /\ walk'.todo = walk.todo \ {n} /\ walk'.truncated = walk.truncated
  <2>1. Ahead \subseteq Ahead'
    <3>1. /\ Len(walk'.stack) = Len(walk.stack) + 1 /\ Len(walk.stack) \in Nat
          /\ walk'.stack[1] = n
          /\ \A i \in 1..Len(walk.stack) : walk'.stack[i + 1] = walk.stack[i]
      BY <1>4, <1>7
    <3>2. \A i \in 1..Len(walk.stack) : i + 1 \in 1..Len(walk'.stack)
      BY <3>1
    <3>3. 1 \in 1..Len(walk'.stack)
      BY <3>1
    <3> QED
      BY <1>7, <3>1, <3>2, <3>3 DEF Ahead
  <2>2. n \notin Matching
    BY <1>7, TreeAssumption
  <2> QED
    BY <1>2, <1>3, <1>4, <1>5, <1>7, <2>1, <2>2 DEF WalkInv
<1>8. CASE /\ n \in Files /\ walk'.stack = walk.stack /\ walk'.todo = walk.todo \ {n}
           /\ walk'.truncated = walk.truncated
           /\ walk'.found = walk.found \cup ({n} \cap Matching)
           /\ Cardinality(walk.found) <= MaxFiles => Cardinality(walk'.found) <= MaxFiles
  <2>1. Ahead' = Ahead
    BY <1>8, TreeAssumption DEF Ahead
  <2> QED
    BY <1>2, <1>3, <1>4, <1>5, <1>8, <2>1 DEF WalkInv
<1> QED
  BY <1>2, <1>4, <1>6, <1>7, <1>8, EntryFacts

LEMMA LooksKeeps ==
    ASSUME TypeInv, WalkInv, Looks
    PROVE  WalkInv'
<1>0. UNCHANGED <<there, readable, call, job, steady>> /\ Kind' = Kind /\ Reached' = Reached
  BY LooksFacts DEF restVars, fileVars, Kind, Reached
<1>1. CASE Refuse
  <2>1. PICK error \in {"text", "empty"} : walk' = [NoWalk EXCEPT !.error = error]
    BY <1>1 DEF Refuse, Walks
  <2>2. error \in Errors /\ error # "none" /\ Kind = "regex"
    BY <1>1, <2>1 DEF Errors, Refuse
  <2>3. walk'.error # "none" /\ walk'.found = {} /\ ~walk'.busy
    BY <2>1, <2>2, NoWalkFacts
  <2> QED
    BY <1>0, <2>2, <2>3 DEF WalkInv
<1>2. CASE ListDir
  BY <1>2, ListDirKeeps
<1>3. CASE Visit
  BY <1>3, VisitKeeps
<1>4. CASE WalkEnds
  <2>1. /\ walk' = [walk EXCEPT !.busy = FALSE] /\ walk.todo = {} /\ job # NoRequest
        /\ walk.stack = <<>> \/ walk.truncated
        /\ Kind \in {"regex", "glob"} /\ walk \in WalkTypes
    BY <1>4 DEF WalkEnds, Walks, TypeInv, Looking
  <2>2. /\ walk'.stack = walk.stack /\ walk'.todo = walk.todo /\ walk'.found = walk.found
        /\ walk'.error = walk.error /\ walk'.truncated = walk.truncated /\ ~walk'.busy
    BY <2>1 DEF WalkTypes
  <2>3. Ahead' = Ahead /\ (~walk.truncated => Ahead = {})
    BY <2>1, <2>2 DEF Ahead
  <2> QED
    BY <1>0, <2>1, <2>2, <2>3 DEF WalkInv
<1>5. CASE ExpandGlob
  <2>1. PICK n \in walk.todo : Walks(GlobStep(n))
    BY <1>5, GlobFacts
  <2>2. /\ walk' = GlobStep(n) /\ walk \in WalkTypes /\ Kind = "glob" /\ job # NoRequest
        /\ walk.busy /\ steady \subseteq Reached /\ n \in Matching /\ walk.error = "none"
        /\ walk.found \subseteq Matching /\ Cardinality(walk.found) <= MaxFiles
    BY <1>5, <2>1 DEF ExpandGlob, Looking, WalkInv, Walks, TypeInv
  <2>3. /\ walk'.error = walk.error /\ walk'.busy = walk.busy
        /\ walk'.todo \subseteq walk.todo
    BY <2>2 DEF GlobStep, WalkTypes
  <2>4. CASE walk'.truncated /\ walk'.found = walk.found
    BY <1>0, <2>2, <2>3, <2>4 DEF WalkInv
  <2>5. CASE /\ walk'.truncated = walk.truncated /\ walk'.found = walk.found
             /\ walk'.todo = walk.todo \ {n} /\ n \notin Reached
    BY <1>0, <2>2, <2>3, <2>5 DEF WalkInv
  <2>6. CASE /\ walk'.truncated = walk.truncated /\ walk'.found = walk.found \cup {n}
             /\ walk'.todo = walk.todo \ {n} /\ Cardinality(walk.found) # MaxFiles
    <3>1. Cardinality(walk'.found) <= MaxFiles
      BY <2>2, <2>6, FilesAreFinite, RequestAssumption, TreeAssumption DEF Nodes
    <3> QED
      BY <1>0, <2>2, <2>3, <2>6, <3>1 DEF WalkInv
  <2> QED
    BY <2>2, <2>4, <2>5, <2>6 DEF GlobStep, WalkTypes
<1>6. ASSUME Kind \notin {"regex", "glob"}, ~walk'.busy,
             walk'.error = "none" \/ walk'.found = {}
      PROVE  WalkInv'
  BY <1>0, <1>6 DEF WalkInv
<1>7. CASE Browse
  <2>1. PICK d \in Dirs : \/ Capped(Children(d) \cap there)
                          \/ Walks([NoWalk EXCEPT !.error = "text"])
    BY <1>7 DEF Browse
  <2>2. Children(d) \cap there \in SUBSET Nodes /\ "text" \in Errors
    BY ChildrenFacts DEF Errors
  <2> QED
    <3>1. Kind \notin {"regex", "glob"}
      BY <1>7 DEF Browse
    <3>2. CASE Capped(Children(d) \cap there)
      BY <1>6, <2>2, <3>1, <3>2, CappedFacts
    <3>3. CASE Walks([NoWalk EXCEPT !.error = "text"])
      <4>1. walk'.found = {} /\ ~walk'.busy
        BY <2>2, <3>3, NoWalkFacts DEF Walks
      <4> QED
        BY <1>6, <3>1, <4>1
    <3> QED
      BY <2>1, <3>2, <3>3
<1>8. CASE OneFile
  <2>1. PICK n \in Matching :
           walk' = [NoWalk EXCEPT !.found = IF Kind # "exact_path" \/ n \in Reached THEN {n} ELSE {}]
    BY <1>8 DEF OneFile, Walks
  <2>2. walk'.error = "none" /\ ~walk'.busy
    BY <2>1 DEF NoWalk
  <2>3. Kind \notin {"regex", "glob"}
    BY <1>8 DEF OneFile
  <2> QED
    BY <1>6, <2>2, <2>3
<1>9. CASE ListUnits \/ ListContainers \/ SelfUpdate
  <2>1. Kind \notin {"regex", "glob"}
    BY <1>9 DEF ListUnits, ListContainers, SelfUpdate, Runs
  <2>2. PICK error \in {"none", "text"} : walk' = [NoWalk EXCEPT !.error = error]
    BY <1>9 DEF ListUnits, ListContainers, SelfUpdate, Runs, Walks
  <2> QED
    BY <1>6, <2>1, <2>2, NoWalkFacts DEF Errors
<1> QED
  BY <1>1, <1>2, <1>3, <1>4, <1>5, <1>7, <1>8, <1>9 DEF Looks

LEMMA WalkStep == TypeInv /\ OnceInv /\ WalkInv /\ [RequestNext]_requestVars => WalkInv'
<1> SUFFICES ASSUME TypeInv, OnceInv, WalkInv, [RequestNext]_requestVars PROVE WalkInv'
  OBVIOUS
<1>1. ASSUME RequestNext, UNCHANGED <<job, walk, steady, fileVars>> PROVE WalkInv'
  <2>1. Reached' = Reached
    BY <1>1 DEF fileVars, Reached
  <2> QED
    BY <1>1, <2>1, WalkStays DEF WalkInv
<1>2. ASSUME NEW r \in Requests,
             (\E kind \in Kinds : Ask(r, kind) \/ AskOffline(r, kind)) \/ Expires(r)
      PROVE  WalkInv'
  BY <1>1, <1>2 DEF Ask, AskOffline, Expires, RequestNext
<1>3. CASE Deliver \/ Unlink \/ Relink
  BY <1>1, <1>3 DEF Deliver, Unlink, Relink, RequestNext
<1>4. CASE FilesChange
  <2>1. steady' = steady \cap Reached' /\ UNCHANGED <<job, walk>>
    BY <1>4 DEF FilesChange, Reached, Reach
  <2> QED
    BY <1>4, <2>1, WalkStays DEF RequestNext
<1>5. CASE Take
  <2>1. /\ UNCHANGED <<there, readable, call>> /\ steady' = Reached /\ Reached' = Reached
        /\ walk' = [NoWalk EXCEPT !.busy = TRUE,
                       !.stack = IF call[job'].kind = "regex" THEN <<Root>> ELSE <<>>,
                       !.todo = IF call[job'].kind = "glob" THEN Matching ELSE {}]
    BY <1>5 DEF Take, fileVars, Reached
  <2>2. /\ walk'.error = "none" /\ walk'.busy /\ walk'.found = {} /\ ~walk'.truncated
        /\ Kind' = "regex" => walk'.stack = <<Root>>
        /\ Kind' = "glob" => walk'.todo = Matching
    BY <2>1 DEF NoWalk, Kind
  <2>3. Cardinality(walk'.found) <= MaxFiles
    BY <2>2, FS_EmptySet, RequestAssumption
  <2>4. ASSUME Kind' = "regex", NEW n \in Matching PROVE \E d \in Ahead' : d \in Above[n]
    <3>1. Root \in Ahead'
      <4>1. walk'.stack = <<Root>> /\ 1 \in 1..Len(<<Root>>) /\ <<Root>>[1] = Root
        BY <2>2, <2>4
      <4> QED
        BY ONLY <4>1 DEF Ahead
    <3>2. Root \in Above[n]
      BY AboveFacts, TreeAssumption
    <3> QED
      BY <3>1, <3>2
  <2> QED
    BY <2>1, <2>2, <2>3, <2>4 DEF WalkInv
<1>6. CASE Looks
  BY <1>6, LooksKeeps
<1>7. CASE Answer
  BY <1>7 DEF Answer, WalkInv
<1>8. CASE UNCHANGED requestVars
  BY <1>8 DEF requestVars, fileVars, WalkInv, Kind, Ahead, Reached
<1> QED
  BY <1>2, <1>3, <1>4, <1>5, <1>6, <1>7, <1>8 DEF RequestNext, Provider, Looks

-----------------------------------------------------------------------------
(* What is returned *)

LEMMA ReplyStays ==
    ASSUME TypeInv, OnceInv, ReplyInv, RequestNext, owed' = owed, Sent' \subseteq Sent,
           \A r \in Requests : call'[r].state = "done" /\ call'[r].reply.error \in {"none", "text"} =>
              call'[r] = call[r] \/ Honest(call'[r].kind, owed[r], call'[r].reply)
    PROVE  ReplyInv'
<1>1. ASSUME NEW m \in Sent' PROVE Honest(call'[m.to].kind, owed'[m.to], m.reply)
  <2>1. m \in Sent /\ m.to \in Requests /\ call[m.to].state # "idle"
    BY PlacesType DEF OnceInv
  <2> QED
    BY <2>1, AskedStays DEF ReplyInv
<1> QED
  BY <1>1 DEF ReplyInv

LEMMA DeliverKeeps ==
    ASSUME TypeInv, OnceInv, ReplyInv, Deliver
    PROVE  ReplyInv'
<1>a. call \in [Requests -> CallTypes] /\ outbox \in Seq(MessageTypes) /\ outbox # <<>>
  BY DEF TypeInv, Deliver
<1> DEFINE m == Head(outbox)
<1>1. m \in Sent /\ outbox' = Tail(outbox) /\ Sent' \subseteq Sent /\ owed' = owed
  BY <1>a, HeadLeaves DEF Deliver, Sent
<1>2. m.to \in Requests /\ Honest(call[m.to].kind, owed[m.to], m.reply)
  BY <1>1, PlacesType DEF ReplyInv
<1>3. \/ m.reply.error = "text" /\ Response(m.reply).error = "text"
      \/ /\ m.reply.error # "text" /\ Response(m.reply).error = "none"
         /\ Response(m.reply).files = m.reply.files
         /\ Response(m.reply).truncated = m.reply.truncated
  BY <1>2 DEF Response, Reply
<1>4. Honest(call[m.to].kind, owed[m.to], Response(m.reply))
  BY <1>2, <1>3 DEF Honest
<1>5. \/ UNCHANGED call
      \/ /\ call'[m.to].reply = Response(m.reply) /\ call'[m.to].kind = call[m.to].kind
         /\ \A r \in Requests : r # m.to => call'[r] = call[r]
  BY <1>a, <1>2 DEF Deliver, Returns, CallTypes
<1> HIDE DEF m
<1> QED
  BY <1>1, <1>4, <1>5, ReplyStays DEF RequestNext

LEMMA AnswerKeeps ==
    ASSUME TypeInv, OnceInv, WalkInv, ReplyInv, Answer
    PROVE  ReplyInv'
<1> DEFINE answer == [to |-> job, reply |-> Reply(walk.error, walk.found, walk.truncated)]
<1>1. /\ job # NoRequest /\ ~walk.busy /\ job \in Requests /\ call' = call
      /\ owed \in [Requests -> OwedTypes] /\ outbox \in Seq(MessageTypes) /\ walk \in WalkTypes
  BY DEF Answer, TypeInv
<1>2. answer \in MessageTypes /\ answer.to = job
  BY <1>1, ReplyFacts DEF MessageTypes
<1>3. outbox' = Append(outbox, answer) \/ outbox' = outbox
  BY DEF Answer
<1>4. \A m \in Sent' : m \in Sent \/ m = answer
  BY <1>1, <1>2, <1>3, OneMoreAdded DEF Sent
<1>5. /\ owed'[job].files = (IF Kind \in {"regex", "glob"} /\ walk.error = "none"
                              THEN steady \cap Matching ELSE {})
      /\ \A r \in Requests : r # job => owed'[r] = owed[r]
  BY <1>1 DEF Answer
<1>6. /\ answer.reply.error = walk.error /\ answer.reply.files = walk.found
      /\ answer.reply.truncated = walk.truncated
  BY DEF Reply
<1>7. Honest(call[job].kind, owed'[job], answer.reply)
  <2>1. CASE walk.error = "none"
    BY <1>1, <1>5, <1>6, <2>1 DEF WalkInv, Honest, Kind
  <2>2. CASE walk.error # "none"
    <3>1. walk.found = {} /\ owed'[job].files = {}
      BY <1>1, <1>5, <2>2 DEF WalkInv
    <3>2. Cardinality({}) <= MaxFiles
      BY FS_EmptySet, RequestAssumption
    <3> QED
      BY <1>6, <3>1, <3>2 DEF Honest
  <2> QED
    BY <2>1, <2>2
<1>8. ASSUME NEW m \in Sent' PROVE Honest(call[m.to].kind, owed'[m.to], m.reply)
  <2>1. CASE m = answer
    BY <1>2, <1>7, <2>1
  <2>2. CASE m \in Sent
    <3>1. m.to \in Requests /\ m.to # job
      BY <2>2, PlacesType DEF OnceInv
    <3> QED
      BY <1>5, <2>2, <3>1 DEF ReplyInv
  <2> QED
    BY <1>4, <2>1, <2>2
<1>9. ASSUME NEW r \in Requests, call[r].state = "done", call[r].reply.error \in {"none", "text"}
      PROVE  Honest(call[r].kind, owed'[r], call[r].reply)
  <2>1. r # job
    BY <1>9 DEF OnceInv
  <2> QED
    BY <1>5, <1>9, <2>1 DEF ReplyInv
<1> QED
  BY <1>1, <1>8, <1>9 DEF ReplyInv

LEMMA ReplyStep ==
    TypeInv /\ OnceInv /\ WalkInv /\ ReplyInv /\ [RequestNext]_requestVars => ReplyInv'
<1> SUFFICES ASSUME TypeInv, OnceInv, WalkInv, ReplyInv, [RequestNext]_requestVars PROVE ReplyInv'
  OBVIOUS
<1>a. call \in [Requests -> CallTypes]
  BY DEF TypeInv
<1>1. ASSUME NEW r \in Requests, NEW kind \in Kinds, Ask(r, kind) PROVE ReplyInv'
  <2>1. /\ call'[r].state = "waiting" /\ \A q \in Requests : q # r => call'[q] = call[q]
        /\ owed' = owed /\ Sent' = Sent
    BY <1>1, <1>a DEF Ask, CallTypes, Sent
  <2> QED
    BY <1>1, <2>1, ReplyStays DEF RequestNext
<1>2. ASSUME NEW r \in Requests, NEW kind \in Kinds, AskOffline(r, kind) PROVE ReplyInv'
  <2>1. /\ call'[r].reply.error = "offline" /\ \A q \in Requests : q # r => call'[q] = call[q]
        /\ owed' = owed /\ Sent' = Sent
    BY <1>2, <1>a DEF AskOffline, Reply, Sent
  <2> QED
    BY <1>2, <2>1, ReplyStays DEF RequestNext
<1>3. ASSUME NEW r \in Requests, Expires(r) PROVE ReplyInv'
  <2>1. /\ call'[r].reply.error = "late" /\ \A q \in Requests : q # r => call'[q] = call[q]
        /\ owed' = owed /\ Sent' = Sent
    BY <1>3, <1>a DEF Expires, Returns, Reply, CallTypes, Sent
  <2> QED
    BY <1>3, <2>1, ReplyStays DEF RequestNext
<1>4. CASE Deliver
  BY <1>4, DeliverKeeps
<1>5. CASE Unlink
  <2>1. outbox' = <<>> /\ owed' = owed
    BY <1>5 DEF Unlink
  <2>2. Sent' = {}
    BY <2>1 DEF Sent
  <2>3. \A r \in Requests : call'[r].reply.error = "offline" \/ call'[r] = call[r]
    BY <1>5, <1>a DEF Unlink, CallTypes, Reply
  <2> QED
    BY <1>5, <2>1, <2>2, <2>3, ReplyStays DEF RequestNext
<1>6. CASE Relink \/ FilesChange \/ Take \/ Looks
  <2>1. UNCHANGED <<call, owed, outbox>>
    BY <1>6, LooksFacts DEF Relink, FilesChange, Take, restVars
  <2> QED
    BY <2>1 DEF ReplyInv, Sent
<1>7. CASE Answer
  BY <1>7, AnswerKeeps
<1>8. CASE UNCHANGED requestVars
  BY <1>8 DEF requestVars, ReplyInv, Sent
<1> QED
  BY <1>1, <1>2, <1>3, <1>4, <1>5, <1>6, <1>7, <1>8 DEF RequestNext, Provider, Looks

-----------------------------------------------------------------------------

LEMMA RequestsBegin == RequestInit => TypeInv /\ OnceInv /\ WalkInv /\ ReplyInv
<1> SUFFICES ASSUME RequestInit PROVE TypeInv /\ OnceInv /\ WalkInv /\ ReplyInv
  OBVIOUS
<1>1. Idle \in CallTypes /\ Idle.state = "idle"
  BY DEF Idle, CallTypes, Reply, Replies, Errors
<1>2. \A S : <<>> \in Seq(S)
  OBVIOUS
<1>3. TypeInv
  <2>1. there \subseteq Nodes /\ readable \subseteq Dirs /\ steady \subseteq Nodes
    BY DEF RequestInit
  <2>2. inbox \in Seq(Requests) /\ outbox \in Seq(MessageTypes)
    BY ONLY <1>2, RequestInit DEF RequestInit
  <2>3. call \in [Requests -> CallTypes] /\ owed \in [Requests -> OwedTypes]
    BY <1>1 DEF RequestInit, OwedTypes
  <2> QED
    BY <2>1, <2>2, <2>3, NoWalkFacts DEF RequestInit, TypeInv
<1>4. inbox = <<>> /\ outbox = <<>> /\ job = NoRequest /\ \A r \in Requests : call[r].state = "idle"
  BY <1>1 DEF RequestInit
<1>5. Queued = {} /\ Sent = {}
  BY <1>4 DEF Queued, Sent
<1> QED
  BY <1>3, <1>4, <1>5 DEF OnceInv, WalkInv, ReplyInv

LEMMA RequestsAlone == HostSpec => RequestInit /\ [][RequestNext]_requestVars
<1>1. HostInit => RequestInit
  BY DEF HostInit, RequestAtRest
<1>2. [HostNext]_mcVars => [RequestNext]_requestVars
  BY DEF HostNext, mcVars
<1> QED
  BY <1>1, <1>2, PTL DEF HostSpec

LEMMA RequestInvariance == HostSpec => [](TypeInv /\ OnceInv /\ WalkInv /\ ReplyInv)
<1> DEFINE Inv == TypeInv /\ OnceInv /\ WalkInv /\ ReplyInv
<1>1. Inv /\ [RequestNext]_requestVars => Inv'
  BY TypeStep, OnceStep, WalkStep, ReplyStep
<1>2. RequestInit => Inv
  BY RequestsBegin
<1> HIDE DEF Inv
<1>3. HostSpec => []Inv
  BY <1>1, <1>2, RequestsAlone, PTL
<1> QED
  BY <1>3 DEF Inv

\* Calls, queues and the walk keep their types, whatever is stored as a log source
\* and however the host's files change (dispatch.py, regex_resolver.py).
THEOREM RequestsTypeCorrect == HostSpec => []RequestTypeOK
<1>1. TypeInv => RequestTypeOK
  <2> SUFFICES ASSUME TypeInv PROVE RequestTypeOK
    OBVIOUS
  <2>1. \A r \in Requests : call[r].state \in {"idle", "waiting", "done"}
    BY DEF TypeInv, CallTypes
  <2>2. walk.error \in Errors /\ walk.visited \in 0..MaxEntries
    BY DEF TypeInv, WalkTypes
  <2> QED
    BY <2>1, <2>2 DEF TypeInv, RequestTypeOK
<1> QED
  BY <1>1, RequestsBegin, RequestsAlone, TypeStep, PTL

\* For any tree, caps and requests, and files and permissions that change while the
\* walk looks: what a pattern is said to name is never more than the cap and, unless
\* marked as truncated, has every match that stayed within reach (regex_resolver.py
\* 33-66, glob_resolver.py 15-30).
THEOREM WalkFindsAllThatStayed == HostSpec => []FindsAllThatStayed
<1>1. ReplyInv => FindsAllThatStayed
  BY DEF ReplyInv, FindsAllThatStayed, Honest
<1> QED
  BY <1>1, RequestInvariance, PTL

-----------------------------------------------------------------------------
(* The lines of a sequence of bytes: where they end, and what a part of it has *)

\* The newlines of s up to c, and how many they are.
BreaksUpTo(s, c) == {b \in BreaksIn(s) : b <= c}
UpTo(s, c) == Cardinality(BreaksUpTo(s, c))

LEMMA LeastNat ==
    ASSUME NEW T \in SUBSET Nat, T # {}
    PROVE  \E n \in T : \A m \in T : n <= m
<1>1. IsWellFoundedOn(OpToRel(<, Nat), Nat)
  BY NatLessThanWellFounded
<1>2. PICK n \in T : \A m \in T : ~(<<m, n>> \in OpToRel(<, Nat))
  BY <1>1, WFMin, Zenon
<1>3. ASSUME NEW m \in T PROVE n <= m
  <2> DEFINE Less == {p \in Nat \X Nat : p[1] < p[2]}
  <2>1. Less = OpToRel(<, Nat)
    BY Zenon DEF OpToRel
  <2>2. <<m, n>> \notin Less
    BY <1>2, <2>1, Zenon
  <2> QED
    BY <2>2
<1> QED
  BY <1>3

LEMMA BreaksFinite ==
    ASSUME NEW s \in Seq(Nat)
    PROVE  /\ BreaksIn(s) \subseteq 1..Len(s) /\ IsFiniteSet(BreaksIn(s))
           /\ Newlines(s) \in Nat /\ Len(s) \in Nat
<1>1. BreaksIn(s) \subseteq 1..Len(s) /\ Len(s) \in Nat
  BY DEF BreaksIn
<1>2. IsFiniteSet(1..Len(s))
  BY <1>1, FS_Interval
<1>3. IsFiniteSet(BreaksIn(s))
  BY <1>1, <1>2, FS_Subset
<1> QED
  BY <1>1, <1>3, FS_CardinalityType DEF Newlines

LEMMA UpToFinite ==
    ASSUME NEW s \in Seq(Nat), NEW c \in Nat
    PROVE  /\ IsFiniteSet(BreaksUpTo(s, c)) /\ UpTo(s, c) \in Nat
           /\ \A b : b \in BreaksUpTo(s, c) <=> b \in BreaksIn(s) /\ b <= c
<1>1. BreaksUpTo(s, c) \in SUBSET BreaksIn(s) /\ IsFiniteSet(BreaksIn(s))
  BY BreaksFinite DEF BreaksUpTo
<1>2. IsFiniteSet(BreaksUpTo(s, c))
  BY <1>1, FS_Subset
<1>3. UpTo(s, c) \in Nat
  BY <1>2, FS_CardinalityType DEF UpTo
<1> QED
  BY <1>2, <1>3 DEF BreaksUpTo

\* The count grows at every newline, and only there.
LEMMA UpToGrows ==
    ASSUME NEW s \in Seq(Nat), NEW c \in Nat, NEW d \in Nat, c <= d
    PROVE  /\ UpTo(s, c) <= UpTo(s, d)
           /\ \A b \in BreaksIn(s) : c < b /\ b <= d => UpTo(s, c) < UpTo(s, d)
<1> DEFINE C == BreaksUpTo(s, c)
           D == BreaksUpTo(s, d)
<1>0. BreaksIn(s) \subseteq Nat
  BY BreaksFinite
<1>1. /\ IsFiniteSet(D) /\ Cardinality(C) \in Nat /\ Cardinality(D) \in Nat
      /\ \A b : b \in C <=> b \in BreaksIn(s) /\ b <= c
      /\ \A b : b \in D <=> b \in BreaksIn(s) /\ b <= d
  BY UpToFinite DEF UpTo
<1>3. UpTo(s, c) = Cardinality(C) /\ UpTo(s, d) = Cardinality(D)
  BY DEF UpTo
<1> HIDE DEF C, D
<1>2. Cardinality(C) <= Cardinality(D) /\ (Cardinality(C) = Cardinality(D) => C = D)
  <2>1. C \in SUBSET D
    BY <1>0, <1>1
  <2> QED
    BY <1>1, <2>1, FS_Subset
<1>4. ASSUME NEW b \in BreaksIn(s), c < b, b <= d PROVE UpTo(s, c) < UpTo(s, d)
  <2>1. b \in D /\ b \notin C
    BY <1>0, <1>1, <1>4
  <2> QED
    BY <2>1, <1>1, <1>2, <1>3
<1> QED
  BY <1>2, <1>3, <1>4

LEMMA UpToStep ==
    ASSUME NEW s \in Seq(Nat), NEW c \in Nat
    PROVE  UpTo(s, c + 1) = IF c + 1 \in BreaksIn(s) THEN UpTo(s, c) + 1 ELSE UpTo(s, c)
<1> DEFINE C == BreaksUpTo(s, c)
           D == BreaksUpTo(s, c + 1)
<1>0. BreaksIn(s) \subseteq Nat /\ c + 1 \in Nat
  BY BreaksFinite
<1>1. /\ IsFiniteSet(C) /\ Cardinality(C) \in Nat
      /\ \A b : b \in C <=> b \in BreaksIn(s) /\ b <= c
      /\ \A b : b \in D <=> b \in BreaksIn(s) /\ b <= c + 1
  BY <1>0, UpToFinite DEF UpTo
<1>2. UpTo(s, c) = Cardinality(C) /\ UpTo(s, c + 1) = Cardinality(D)
  BY DEF UpTo
<1> HIDE DEF C, D
<1>3. CASE c + 1 \in BreaksIn(s)
  <2>1. D = C \cup {c + 1} /\ c + 1 \notin C
    BY <1>0, <1>1, <1>3
  <2>2. Cardinality(D) = Cardinality(C) + 1
    BY <2>1, <1>1, FS_AddElement
  <2> QED
    BY <2>2, <1>2, <1>3
<1>4. CASE c + 1 \notin BreaksIn(s)
  <2>1. ASSUME NEW b \in BreaksIn(s) PROVE b <= c + 1 <=> b <= c
    BY <1>0, <1>4
  <2>2. D = C
    BY <2>1, <1>1, Zenon
  <2> QED
    BY <2>2, <1>2, <1>4
<1> QED
  BY <1>3, <1>4

LEMMA UpToEnds ==
    ASSUME NEW s \in Seq(Nat)
    PROVE  UpTo(s, 0) = 0 /\ UpTo(s, Len(s)) = Newlines(s)
<1>1. BreaksUpTo(s, 0) = {} /\ BreaksUpTo(s, Len(s)) = BreaksIn(s)
  BY BreaksFinite DEF BreaksUpTo
<1> QED
  BY <1>1, FS_EmptySet DEF UpTo, Newlines

\* Every count up to the number of newlines is that of one cut.
LEMMA CutIsThere ==
    ASSUME NEW s \in Seq(Nat), NEW k \in 0..Newlines(s)
    PROVE  /\ Cut(s, k) \in {0} \cup BreaksIn(s) /\ Cut(s, k) \in 0..Len(s)
           /\ UpTo(s, Cut(s, k)) = k
<1>1. \E c \in {0} \cup BreaksIn(s) : UpTo(s, c) = k
  <2>1. CASE k = 0
    BY <2>1, UpToEnds
  <2>2. CASE k # 0
    <3> DEFINE T == {c \in Nat : UpTo(s, c) >= k}
    <3>1. Newlines(s) \in Nat /\ Len(s) \in Nat /\ UpTo(s, Len(s)) = Newlines(s)
      BY BreaksFinite, UpToEnds
    <3>2. Len(s) \in T
      BY <3>1
    <3>3. PICK c \in T : \A m \in T : c <= m
      BY <3>2, LeastNat
    <3>4. c # 0
      BY <3>3, <2>2, UpToEnds
    <3>5. c - 1 \in Nat /\ c - 1 \notin T /\ UpTo(s, c - 1) \in Nat /\ UpTo(s, c) \in Nat
      BY <3>3, <3>4, UpToFinite
    <3>6. UpTo(s, (c - 1) + 1) = IF (c - 1) + 1 \in BreaksIn(s) THEN UpTo(s, c - 1) + 1 ELSE UpTo(s, c - 1)
      BY <3>5, UpToStep
    <3>7. (c - 1) + 1 = c
      BY <3>3
    <3>8. c \in BreaksIn(s) /\ UpTo(s, c) = k
      BY <3>3, <3>5, <3>6, <3>7
    <3> QED
      BY <3>8
  <2> QED
    BY <2>1, <2>2
<1>2. Cut(s, k) \in {0} \cup BreaksIn(s) /\ UpTo(s, Cut(s, k)) = k
  BY <1>1 DEF Cut, UpTo, BreaksUpTo
<1> QED
  BY <1>2, BreaksFinite

LEMMA CutIsOne ==
    ASSUME NEW s \in Seq(Nat), NEW k \in 0..Newlines(s),
           NEW c \in {0} \cup BreaksIn(s), UpTo(s, c) = k
    PROVE  Cut(s, k) = c
<1> DEFINE d == Cut(s, k)
<1>1. d \in {0} \cup BreaksIn(s) /\ UpTo(s, d) = k /\ d \in Nat
  BY CutIsThere
<1>2. c \in Nat /\ (c > 0 => c \in BreaksIn(s)) /\ (d > 0 => d \in BreaksIn(s)) /\ k \in Nat
  BY <1>1, BreaksFinite
<1> HIDE DEF d
<1>3. ~(c < d)
  BY <1>1, <1>2, UpToGrows
<1>4. ~(d < c)
  BY <1>1, <1>2, UpToGrows
<1> QED
  BY <1>1, <1>2, <1>3, <1>4 DEF d

\* Cuts follow each other with no newline between them.
LEMMA CutsFollow ==
    ASSUME NEW s \in Seq(Nat), NEW k \in 1..Newlines(s)
    PROVE  /\ Cut(s, k - 1) < Cut(s, k) /\ Cut(s, k) \in BreaksIn(s)
           /\ \A b \in BreaksIn(s) : ~(Cut(s, k - 1) < b /\ b < Cut(s, k))
<1> DEFINE c == Cut(s, k - 1)
           d == Cut(s, k)
<1>0. k \in 0..Newlines(s) /\ k - 1 \in 0..Newlines(s) /\ Newlines(s) \in Nat
  BY BreaksFinite
<1>1. /\ c \in {0} \cup BreaksIn(s) /\ UpTo(s, c) = k - 1 /\ c \in Nat
      /\ d \in {0} \cup BreaksIn(s) /\ UpTo(s, d) = k /\ d \in Nat
  BY <1>0, CutIsThere
<1> HIDE DEF c, d
<1>2. c < d
  BY <1>0, <1>1, UpToGrows
<1>3. ASSUME NEW b \in BreaksIn(s), c < b, b < d PROVE FALSE
  <2>1. b \in Nat /\ d \in BreaksIn(s)
    BY <1>1, <1>3, BreaksFinite
  <2>2. UpTo(s, c) < UpTo(s, b) /\ UpTo(s, b) < UpTo(s, d) /\ UpTo(s, b) \in Nat
    BY <2>1, <1>1, <1>3, UpToGrows, UpToFinite
  <2> QED
    BY <2>2, <1>0, <1>1
<1> QED
  BY <1>1, <1>2, <1>3 DEF c, d

LEMMA LastCut ==
    ASSUME NEW s \in Seq(Nat), NEW b \in BreaksIn(s)
    PROVE  b <= Cut(s, Newlines(s))
<1> DEFINE c == Cut(s, Newlines(s))
<1>1. c \in Nat /\ UpTo(s, c) = Newlines(s) /\ Newlines(s) \in Nat /\ b \in 1..Len(s) /\ c <= Len(s)
  BY CutIsThere, BreaksFinite
<1>2. UpTo(s, Len(s)) = Newlines(s)
  BY UpToEnds
<1> HIDE DEF c
<1>3. ~(c < b)
  BY <1>1, <1>2, UpToGrows
<1> QED
  BY <1>1, <1>3 DEF c

LEMMA CutsGrow ==
    ASSUME NEW s \in Seq(Nat), NEW k \in 0..Newlines(s), NEW m \in 0..Newlines(s), k < m
    PROVE  Cut(s, k) < Cut(s, m)
<1> DEFINE c == Cut(s, k)
           d == Cut(s, m)
<1>1. c \in Nat /\ UpTo(s, c) = k /\ d \in Nat /\ UpTo(s, d) = m /\ Newlines(s) \in Nat
  BY CutIsThere, BreaksFinite
<1> HIDE DEF c, d
<1>2. ~(d <= c)
  BY <1>1, UpToGrows
<1> QED
  BY <1>1, <1>2 DEF c, d

\* What is behind the place o of s.
Behind(s, o) == SubSeq(s, o + 1, Len(s))

LEMMA SuffixFacts ==
    ASSUME NEW s \in Seq(Nat), NEW o \in 0..Len(s)
    PROVE  /\ Behind(s, o) \in Seq(Nat) /\ Len(Behind(s, o)) = Len(s) - o
           /\ \A i \in 1..Len(s) - o : Behind(s, o)[i] = s[o + i]
           /\ \A b \in 1..Len(s) - o : b \in BreaksIn(Behind(s, o)) <=> o + b \in BreaksIn(s)
<1> DEFINE d == SubSeq(s, o + 1, Len(s))
<1>1. Len(s) \in Nat /\ o \in Nat /\ \A i \in o + 1..Len(s) : s[i] \in Nat
  OBVIOUS
<1>2. /\ d \in Seq(Nat) /\ Len(d) = Len(s) - o
      /\ \A i \in 1..Len(s) - (o + 1) + 1 : d[i] = s[(o + 1) + i - 1]
  BY <1>1, SubSeqProperties
<1> HIDE DEF d
<1>3. ASSUME NEW i \in 1..Len(s) - o PROVE d[i] = s[o + i]
  BY <1>1, <1>2
<1>4. ASSUME NEW b \in 1..Len(s) - o PROVE b \in BreaksIn(d) <=> o + b \in BreaksIn(s)
  BY <1>1, <1>2, <1>3 DEF BreaksIn
<1>5. Behind(s, o) = d
  BY DEF Behind, d
<1> QED
  BY <1>2, <1>3, <1>4, <1>5

\* The newlines of a log are those before a place and those of what is behind it.
LEMMA SuffixCounts ==
    ASSUME NEW s \in Seq(Nat), NEW o \in 0..Len(s),
           NEW c \in 0..Len(Behind(s, o))
    PROVE  UpTo(s, o + c) = UpTo(s, o) + UpTo(Behind(s, o), c)
<1> DEFINE d == Behind(s, o)
           T == {n \in 0..Len(d) : UpTo(s, o + n) # UpTo(s, o) + UpTo(d, n)}
<1>0. /\ d \in Seq(Nat) /\ Len(d) = Len(s) - o /\ Len(d) \in Nat /\ o \in Nat /\ Len(s) \in Nat
      /\ \A b \in 1..Len(d) : b \in BreaksIn(d) <=> o + b \in BreaksIn(s)
  BY SuffixFacts
<1> HIDE DEF d
<1>1. SUFFICES ASSUME T # {} PROVE FALSE
  BY DEF d
<1>2. PICK n \in T : \A m \in T : n <= m
  <2>1. T \in SUBSET Nat
    BY <1>0
  <2> QED
    BY <1>1, <2>1, LeastNat
<1>3. n # 0
  <2>1. UpTo(d, 0) = 0 /\ UpTo(s, o) \in Nat
    BY <1>0, UpToEnds, UpToFinite
  <2> QED
    BY <1>0, <2>1
<1>4. PICK p \in Nat : n = p + 1 /\ p \in 0..Len(d) /\ n \in 1..Len(d)
  <2>1. n - 1 \in Nat /\ n = (n - 1) + 1 /\ n - 1 \in 0..Len(d) /\ n \in 1..Len(d)
    BY <1>0, <1>3
  <2> QED
    BY <2>1
<1>5. p \notin T
  BY <1>2, <1>4
<1>6. UpTo(s, o + p) = UpTo(s, o) + UpTo(d, p)
  BY <1>4, <1>5
<1>7. UpTo(d, p + 1) = IF p + 1 \in BreaksIn(d) THEN UpTo(d, p) + 1 ELSE UpTo(d, p)
  BY <1>0, <1>4, UpToStep
<1>8. UpTo(s, (o + p) + 1) = IF (o + p) + 1 \in BreaksIn(s) THEN UpTo(s, o + p) + 1 ELSE UpTo(s, o + p)
  <2>1. o + p \in Nat
    BY <1>0
  <2> QED
    BY <2>1, UpToStep
<1>9. (o + p) + 1 = o + n /\ (n \in BreaksIn(d) <=> o + n \in BreaksIn(s))
  BY <1>0, <1>4
<1>10. UpTo(s, o) \in Nat /\ UpTo(d, p) \in Nat
  BY <1>0, UpToFinite
<1>11. UpTo(s, o + n) # UpTo(s, o) + UpTo(d, n)
  BY <1>2
<1> HIDE DEF T
<1> QED
  BY <1>4, <1>6, <1>7, <1>8, <1>9, <1>10, <1>11

LEMMA SuffixCuts ==
    ASSUME NEW s \in Seq(Nat), NEW o \in 0..Len(s)
    PROVE  /\ UpTo(s, o) \in Nat /\ Newlines(s) = UpTo(s, o) + Newlines(Behind(s, o))
           /\ \A k \in 1..Newlines(Behind(s, o)) :
                 /\ UpTo(s, o) + k \in 1..Newlines(s)
                 /\ Cut(s, UpTo(s, o) + k) = o + Cut(Behind(s, o), k)
                 /\ Cut(Behind(s, o), k) \in 1..Len(Behind(s, o))
<1> DEFINE d == Behind(s, o)
<1>0. /\ d \in Seq(Nat) /\ Len(d) = Len(s) - o /\ Len(d) \in Nat /\ o \in Nat
      /\ \A b \in 1..Len(d) : b \in BreaksIn(d) <=> o + b \in BreaksIn(s)
      /\ Newlines(d) \in Nat /\ Newlines(s) \in Nat /\ UpTo(s, o) \in Nat
  <2>1. /\ d \in Seq(Nat) /\ Len(d) = Len(s) - o
        /\ \A b \in 1..Len(s) - o : b \in BreaksIn(d) <=> o + b \in BreaksIn(s)
    BY SuffixFacts
  <2>2. o \in Nat
    OBVIOUS
  <2> HIDE DEF d
  <2> QED
    BY <2>1, <2>2, BreaksFinite, UpToFinite
<1>a. ASSUME NEW c \in 0..Len(d) PROVE UpTo(s, o + c) = UpTo(s, o) + UpTo(d, c)
  BY SuffixCounts
<1> HIDE DEF d
<1>1. UpTo(s, o + Len(d)) = UpTo(s, o) + UpTo(d, Len(d))
  <2>1. Len(d) \in 0..Len(d)
    BY <1>0
  <2> QED
    BY <2>1, <1>a
<1>2. o + Len(d) = Len(s)
  BY <1>0
<1>3. Newlines(s) = UpTo(s, o) + Newlines(d)
  BY <1>0, <1>1, <1>2, UpToEnds
<1>4. ASSUME NEW k \in 1..Newlines(d)
      PROVE  /\ UpTo(s, o) + k \in 1..Newlines(s)
             /\ Cut(s, UpTo(s, o) + k) = o + Cut(d, k)
             /\ Cut(d, k) \in 1..Len(d)
  <2>1. k \in 0..Newlines(d) /\ UpTo(s, o) + k \in 1..Newlines(s) /\ UpTo(s, o) + k \in 0..Newlines(s)
    BY <1>0, <1>3
  <2>2. Cut(d, k) \in BreaksIn(d) /\ UpTo(d, Cut(d, k)) = k
    BY <1>0, <2>1, CutIsThere, CutsFollow
  <2>3. Cut(d, k) \in 1..Len(d) /\ Cut(d, k) \in 0..Len(d)
    BY <1>0, <2>2, BreaksFinite
  <2>4. UpTo(s, o + Cut(d, k)) = UpTo(s, o) + k
    BY <2>2, <2>3, <1>a
  <2>5. o + Cut(d, k) \in {0} \cup BreaksIn(s)
    BY <1>0, <2>2, <2>3
  <2>6. Cut(s, UpTo(s, o) + k) = o + Cut(d, k)
    BY <2>1, <2>4, <2>5, CutIsOne
  <2> QED
    BY <2>1, <2>3, <2>6
<1> QED
  BY <1>0, <1>3, <1>4 DEF d

LEMMA SubSeqOfSuffix ==
    ASSUME NEW s \in Seq(Nat), NEW o \in 0..Len(s),
           NEW a \in Nat, a >= 1, NEW b \in 0..Len(Behind(s, o))
    PROVE  SubSeq(s, o + a, o + b) = SubSeq(Behind(s, o), a, b)
<1> DEFINE d == Behind(s, o)
           u == SubSeq(s, o + a, o + b)
           v == SubSeq(d, a, b)
<1>0. /\ d \in Seq(Nat) /\ Len(d) = Len(s) - o /\ Len(d) \in Nat /\ o \in Nat
      /\ \A i \in 1..Len(d) : d[i] = s[o + i]
  BY SuffixFacts
<1>b. b \in 0..Len(d)
  OBVIOUS
<1> HIDE DEF d
<1>c. /\ a \in Int /\ b \in Int /\ o + a \in Int /\ o + b \in Int /\ b <= Len(d) /\ a >= 1
      /\ o + b <= Len(s) /\ o + a >= 1 /\ o \in Nat /\ Len(s) \in Nat /\ Len(d) \in Nat
  BY <1>0, <1>b
<1>1. /\ \A i \in a..b : d[i] \in Nat
      /\ \A i \in o + a..o + b : s[i] \in Nat
  <2>1. ASSUME NEW i \in a..b PROVE d[i] \in Nat
    <3>1. i \in 1..Len(d)
      BY ONLY <1>c, i \in a..b
    <3> QED
      BY <3>1, <1>0
  <2>2. ASSUME NEW i \in o + a..o + b PROVE s[i] \in Nat
    <3>1. i \in 1..Len(s)
      BY ONLY <1>c, i \in o + a..o + b
    <3> QED
      BY <3>1
  <2> QED
    BY <2>1, <2>2
<1>2. /\ u \in Seq(Nat) /\ Len(u) = IF o + a <= o + b THEN (o + b) - (o + a) + 1 ELSE 0
      /\ \A i \in 1..(o + b) - (o + a) + 1 : u[i] = s[(o + a) + i - 1]
  BY <1>c, <1>1, SubSeqProperties
<1>3. /\ v \in Seq(Nat) /\ Len(v) = IF a <= b THEN b - a + 1 ELSE 0
      /\ \A i \in 1..b - a + 1 : v[i] = d[a + i - 1]
  <2>1. a \in Int /\ b \in Int /\ \A i \in a..b : d[i] \in Nat
    BY <1>c, <1>1
  <2> QED
    BY ONLY <2>1, SubSeqProperties
<1> HIDE DEF u, v
<1>4. Len(u) = Len(v)
  BY <1>0, <1>b, <1>2, <1>3
<1>5. ASSUME NEW i \in 1..Len(u) PROVE u[i] = v[i]
  <2>1. i \in 1..b - a + 1 /\ i \in 1..(o + b) - (o + a) + 1 /\ a + i - 1 \in 1..Len(d)
    BY <1>0, <1>b, <1>2
  <2>2. u[i] = s[(o + a) + i - 1] /\ v[i] = d[a + i - 1] /\ d[a + i - 1] = s[o + (a + i - 1)]
    BY <2>1, <1>0, <1>2, <1>3
  <2>3. (o + a) + i - 1 = o + (a + i - 1)
    BY <1>0, <2>1
  <2> QED
    BY <2>2, <2>3
<1>6. u = v
  BY <1>2, <1>3, <1>4, <1>5, SeqEqual
<1> QED
  BY <1>6 DEF u, v, d

\* What lines are made of.
LEMMA LinesFacts ==
    ASSUME NEW s \in Seq(Nat)
    PROVE  /\ Complete(s) \in Seq(Seq(Nat)) /\ Len(Complete(s)) = Newlines(s)
           /\ Rest(s) \in Seq(Nat)
           /\ Lines(s) \in Seq(Seq(Nat))
           /\ Len(Lines(s)) = Newlines(s) + IF Rest(s) = <<>> THEN 0 ELSE 1
           /\ \A k \in 1..Newlines(s) :
                 /\ Complete(s)[k] = SubSeq(s, Cut(s, k - 1) + 1, Cut(s, k))
                 /\ Lines(s)[k] = Complete(s)[k]
           /\ Rest(s) # <<>> => Lines(s)[Newlines(s) + 1] = Rest(s)
<1>0. Newlines(s) \in Nat /\ Len(s) \in Nat
  BY BreaksFinite
<1>1. ASSUME NEW k \in 1..Newlines(s) PROVE SubSeq(s, Cut(s, k - 1) + 1, Cut(s, k)) \in Seq(Nat)
  <2>1. k - 1 \in 0..Newlines(s) /\ k \in 0..Newlines(s)
    BY <1>0
  <2>2. Cut(s, k - 1) \in 0..Len(s) /\ Cut(s, k) \in 0..Len(s)
    BY <2>1, CutIsThere
  <2>3. \A i \in Cut(s, k - 1) + 1..Cut(s, k) : s[i] \in Nat
    BY <1>0, <2>2
  <2>4. Cut(s, k - 1) + 1 \in Int /\ Cut(s, k) \in Int
    BY <2>2
  <2> QED
    BY <2>3, <2>4, SubSeqProperties
<1>2. /\ Complete(s) \in Seq(Seq(Nat)) /\ Len(Complete(s)) = Newlines(s)
      /\ \A k \in 1..Newlines(s) : Complete(s)[k] = SubSeq(s, Cut(s, k - 1) + 1, Cut(s, k))
  <2> DEFINE e(k) == SubSeq(s, Cut(s, k - 1) + 1, Cut(s, k))
             n == Newlines(s)
             ls == [k \in 1..n |-> e(k)]
  <2>1. n \in Nat /\ \A k \in 1..n : e(k) \in Seq(Nat)
    BY <1>0, <1>1
  <2>2. Complete(s) = ls
    BY DEF Complete
  <2> HIDE DEF e, n
  <2>3. ls \in Seq(Seq(Nat)) /\ Len(ls) = n /\ \A k \in 1..n : ls[k] = e(k)
    BY <2>1
  <2> QED
    BY <2>2, <2>3 DEF e, n
<1>3. Rest(s) \in Seq(Nat)
  <2>1. Newlines(s) \in 0..Newlines(s)
    BY <1>0
  <2>2. Cut(s, Newlines(s)) \in 0..Len(s)
    BY <2>1, CutIsThere
  <2>3. \A i \in Cut(s, Newlines(s)) + 1..Len(s) : s[i] \in Nat
    BY <1>0, <2>2
  <2>4. Cut(s, Newlines(s)) + 1 \in Int /\ Len(s) \in Int
    BY <2>2, <1>0
  <2> QED
    BY <2>3, <2>4, SubSeqProperties DEF Rest
<1>4. CASE Rest(s) = <<>>
  <2>1. Lines(s) = Complete(s) \o <<>>
    BY <1>4 DEF Lines
  <2>2. Lines(s) = Complete(s)
    BY <2>1, <1>2, ConcatEmptySeq
  <2> QED
    BY <1>0, <1>2, <1>3, <1>4, <2>2
<1>5. CASE Rest(s) # <<>>
  <2>1. Lines(s) = Complete(s) \o <<Rest(s)>>
    BY <1>5 DEF Lines
  <2>2. <<Rest(s)>> \in Seq(Seq(Nat)) /\ Len(<<Rest(s)>>) = 1 /\ <<Rest(s)>>[1] = Rest(s)
    BY <1>3
  <2>3. /\ Lines(s) \in Seq(Seq(Nat)) /\ Len(Lines(s)) = Newlines(s) + 1
        /\ \A i \in 1..Newlines(s) + 1 : Lines(s)[i] =
              IF i <= Newlines(s) THEN Complete(s)[i] ELSE <<Rest(s)>>[i - Newlines(s)]
    BY <2>1, <2>2, <1>2, ConcatProperties
  <2>4. Lines(s)[Newlines(s) + 1] = Rest(s)
    <3>1. Newlines(s) + 1 \in 1..Newlines(s) + 1 /\ ~(Newlines(s) + 1 <= Newlines(s)) /\ (Newlines(s) + 1) - Newlines(s) = 1
      BY <1>0
    <3> QED
      BY <3>1, <2>2, <2>3
  <2>5. \A i \in 1..Newlines(s) : Lines(s)[i] = Complete(s)[i]
    BY <1>0, <2>3
  <2> QED
    BY <1>2, <1>3, <1>5, <2>3, <2>4, <2>5
<1> QED
  BY <1>4, <1>5

\* Behind its first line, the end of a log has the log's lines.
LEMMA SuffixLines ==
    ASSUME NEW s \in Seq(Nat), NEW o \in 0..Len(s),
           Newlines(Behind(s, o)) >= 1
    PROVE  /\ Rest(s) = Rest(Behind(s, o))
           /\ Len(Lines(s)) = UpTo(s, o) + Len(Lines(Behind(s, o))) /\ UpTo(s, o) \in Nat
           /\ \A k \in 2..Len(Lines(Behind(s, o))) : Lines(s)[UpTo(s, o) + k] = Lines(Behind(s, o))[k]
<1> DEFINE d == Behind(s, o)
           m == UpTo(s, o)
           n == Newlines(d)
<1>0. /\ d \in Seq(Nat) /\ Len(d) = Len(s) - o /\ Len(d) \in Nat /\ o \in Nat /\ Len(s) \in Nat
      /\ n \in Nat /\ m \in Nat /\ Newlines(s) = m + n
      /\ \A k \in 1..n : m + k \in 1..Newlines(s) /\ Cut(s, m + k) = o + Cut(d, k) /\ Cut(d, k) \in 1..Len(d)
  <2>1. /\ d \in Seq(Nat) /\ Len(d) = Len(s) - o /\ Len(d) \in Nat /\ o \in Nat /\ Len(s) \in Nat
    BY SuffixFacts
  <2>2. /\ UpTo(s, o) \in Nat /\ Newlines(s) = UpTo(s, o) + Newlines(d)
        /\ \A k \in 1..Newlines(d) :
              /\ UpTo(s, o) + k \in 1..Newlines(s)
              /\ Cut(s, UpTo(s, o) + k) = o + Cut(d, k)
              /\ Cut(d, k) \in 1..Len(d)
    BY SuffixCuts
  <2> HIDE DEF d
  <2> QED
    BY <2>1, <2>2, BreaksFinite
<1>a. ASSUME NEW a \in Nat, a >= 1, NEW b \in 0..Len(d) PROVE SubSeq(s, o + a, o + b) = SubSeq(d, a, b)
  <2>1. b \in 0..Len(Behind(s, o))
    OBVIOUS
  <2>2. SubSeq(s, o + a, o + b) = SubSeq(Behind(s, o), a, b)
    BY <1>a, <2>1, SubSeqOfSuffix
  <2> QED
    BY <2>2
<1>b. n >= 1
  OBVIOUS
<1> HIDE DEF d, m, n
<1>1. Rest(s) = Rest(d)
  <2>1. n \in 1..n /\ Newlines(d) = n
    BY <1>0, <1>b DEF n
  <2>2. Cut(s, m + n) = o + Cut(d, n) /\ Cut(d, n) \in 1..Len(d)
    BY <1>0, <2>1
  <2>3. Rest(s) = SubSeq(s, o + (Cut(d, n) + 1), o + Len(d))
    <3>1. (o + Cut(d, n)) + 1 = o + (Cut(d, n) + 1) /\ Len(s) = o + Len(d)
      BY <1>0, <2>2
    <3> QED
      BY <1>0, <2>2, <3>1 DEF Rest
  <2>4. Cut(d, n) + 1 \in Nat /\ Cut(d, n) + 1 >= 1 /\ Len(d) \in 0..Len(d)
    <3>1. Len(d) \in Nat
      BY <1>0
    <3> QED
      BY ONLY <2>2, <3>1
  <2>5. Rest(s) = SubSeq(d, Cut(d, n) + 1, Len(d))
    BY <2>3, <2>4, <1>a
  <2> QED
    BY <2>5, <2>1 DEF Rest
<1>2. ASSUME NEW k \in 2..n PROVE Complete(s)[m + k] = Complete(d)[k]
  <2>1. k \in 1..n /\ k - 1 \in 1..n /\ m + k \in 1..Newlines(s) /\ m + (k - 1) = (m + k) - 1
    BY <1>0
  <2>2. /\ Cut(s, m + k) = o + Cut(d, k) /\ Cut(d, k) \in 1..Len(d)
        /\ Cut(s, m + (k - 1)) = o + Cut(d, k - 1) /\ Cut(d, k - 1) \in 1..Len(d)
    BY <1>0, <2>1
  <2>3. Complete(s)[m + k] = SubSeq(s, Cut(s, (m + k) - 1) + 1, Cut(s, m + k))
    BY <2>1, LinesFacts
  <2>4. Complete(s)[m + k] = SubSeq(s, o + (Cut(d, k - 1) + 1), o + Cut(d, k))
    <3>1. (o + Cut(d, k - 1)) + 1 = o + (Cut(d, k - 1) + 1)
      BY <1>0, <2>2
    <3> QED
      BY <2>1, <2>2, <2>3, <3>1
  <2>5. Cut(d, k - 1) + 1 \in Nat /\ Cut(d, k - 1) + 1 >= 1 /\ Cut(d, k) \in 0..Len(d)
    <3>1. Len(d) \in Nat
      BY <1>0
    <3> QED
      BY ONLY <2>2, <3>1
  <2>6. Complete(s)[m + k] = SubSeq(d, Cut(d, k - 1) + 1, Cut(d, k))
    BY <2>4, <2>5, <1>a
  <2>7. k \in 1..Newlines(d)
    BY <2>1 DEF n
  <2> QED
    BY <2>6, <2>7, <1>0, LinesFacts
<1>3. Len(Lines(s)) = m + Len(Lines(d))
  <2>1. Len(Lines(s)) = Newlines(s) + IF Rest(s) = <<>> THEN 0 ELSE 1
    BY LinesFacts
  <2>2. Len(Lines(d)) = n + IF Rest(d) = <<>> THEN 0 ELSE 1
    BY <1>0, LinesFacts DEF n
  <2> QED
    BY <1>0, <1>1, <2>1, <2>2
<1>4. ASSUME NEW k \in 2..Len(Lines(d)) PROVE Lines(s)[m + k] = Lines(d)[k]
  <2>0. Len(Lines(d)) = n + IF Rest(d) = <<>> THEN 0 ELSE 1
    BY <1>0, LinesFacts DEF n
  <2>1. CASE k <= n
    <3>1. k \in 1..Newlines(d) /\ m + k \in 1..Newlines(s) /\ k \in 2..n
      BY <1>0, <2>0, <2>1 DEF n
    <3>2. Lines(s)[m + k] = Complete(s)[m + k] /\ Lines(d)[k] = Complete(d)[k]
      BY <3>1, <1>0, LinesFacts
    <3> QED
      BY <3>1, <3>2, <1>2
  <2>2. CASE k > n
    <3>1. k = n + 1 /\ Rest(d) # <<>>
      BY <1>0, <2>0, <2>2
    <3>2. Lines(d)[n + 1] = Rest(d)
      BY <3>1, <1>0, LinesFacts DEF n
    <3>3. Lines(s)[Newlines(s) + 1] = Rest(s) /\ Newlines(s) + 1 = m + k
      <4>1. Rest(s) # <<>>
        BY <3>1, <1>1
      <4>2. Lines(s)[Newlines(s) + 1] = Rest(s)
        BY <4>1, LinesFacts
      <4> QED
        BY <3>1, <4>2, <1>0
    <3> QED
      BY <3>1, <3>2, <3>3, <1>1
  <2> QED
    BY <2>1, <2>2, <1>0, <2>0
<1> QED
  BY <1>0, <1>1, <1>3, <1>4 DEF m, d

-----------------------------------------------------------------------------
(* The backfill: the blocks read from the end have the last lines *)

\* The last elements of a sequence are those of any of its ends that has enough.
LEMMA LastOfFacts ==
    ASSUME NEW S, NEW t \in Seq(S), NEW n \in Nat
    PROVE  /\ LastOf(n, t) \in Seq(S)
           /\ Len(t) >= n =>
                 /\ Len(LastOf(n, t)) = n
                 /\ \A i \in 1..n : LastOf(n, t)[i] = t[Len(t) - n + i]
           /\ Len(t) <= n => LastOf(n, t) = t
<1> DEFINE b == (IF Len(t) > n THEN Len(t) - n ELSE 0)
           l == IF Len(t) > n THEN n ELSE Len(t)
<1>1. Len(t) \in Nat /\ b \in Nat /\ l \in Nat /\ b = Len(t) - l /\ l <= Len(t)
  OBVIOUS
<1>2. LastOf(n, t) = SubSeq(t, b + 1, Len(t))
  BY DEF LastOf
<1> HIDE DEF b, l
<1>3. \A i \in b + 1..Len(t) : t[i] \in S
  BY <1>1
<1>4. b + 1 \in Int /\ Len(t) \in Int
  BY <1>1
<1>5. /\ SubSeq(t, b + 1, Len(t)) \in Seq(S)
      /\ Len(SubSeq(t, b + 1, Len(t))) = IF b + 1 <= Len(t) THEN Len(t) - (b + 1) + 1 ELSE 0
      /\ \A i \in 1..Len(t) - (b + 1) + 1 : SubSeq(t, b + 1, Len(t))[i] = t[(b + 1) + i - 1]
  BY ONLY <1>3, <1>4, SubSeqProperties
<1>6. Len(SubSeq(t, b + 1, Len(t))) = l
  BY <1>1, <1>5
<1>7. ASSUME NEW i \in 1..l PROVE SubSeq(t, b + 1, Len(t))[i] = t[Len(t) - l + i]
  <2>1. i \in 1..Len(t) - (b + 1) + 1 /\ (b + 1) + i - 1 = Len(t) - l + i
    BY <1>1
  <2> QED
    BY <2>1, <1>5
<1>8. ASSUME Len(t) >= n PROVE l = n
  BY <1>1, <1>8 DEF l
<1>9. ASSUME Len(t) <= n PROVE SubSeq(t, b + 1, Len(t)) = t
  <2>1. b = 0
    BY <1>1, <1>9 DEF b
  <2>2. SubSeq(t, 1, Len(t)) = t
    BY SubSeqFull
  <2> QED
    BY <2>1, <2>2
<1> QED
  BY <1>2, <1>5, <1>6, <1>7, <1>8, <1>9

LEMMA LastOfSuffix ==
    ASSUME NEW S, NEW t \in Seq(S), NEW u \in Seq(S), NEW n \in Nat, NEW m \in Nat,
           Len(t) >= n, Len(u) = m + Len(t), \A i \in 1..Len(t) : u[m + i] = t[i]
    PROVE  LastOf(n, t) = LastOf(n, u)
<1>1. Len(t) \in Nat /\ Len(u) \in Nat
  OBVIOUS
<1>2. /\ LastOf(n, t) \in Seq(S) /\ Len(LastOf(n, t)) = n
      /\ \A i \in 1..n : LastOf(n, t)[i] = t[Len(t) - n + i]
  BY LastOfFacts
<1>3. /\ LastOf(n, u) \in Seq(S) /\ Len(LastOf(n, u)) = n
      /\ \A i \in 1..n : LastOf(n, u)[i] = u[Len(u) - n + i]
  <2>1. u \in Seq(S) /\ n \in Nat /\ Len(u) >= n
    BY <1>1
  <2> QED
    BY ONLY <2>1, LastOfFacts
<1>4. ASSUME NEW i \in 1..n PROVE LastOf(n, t)[i] = LastOf(n, u)[i]
  <2>1. Len(t) - n + i \in 1..Len(t) /\ m + (Len(t) - n + i) = Len(u) - n + i
    BY <1>1
  <2> QED
    BY <2>1, <1>2, <1>3
<1> QED
  BY <1>2, <1>3, <1>4, SeqEqual

LEMMA FrontFacts ==
    ASSUME NEW S, NEW w \in Seq(S), w # <<>>
    PROVE  /\ Front(w) \in Seq(S) /\ Len(Front(w)) = Len(w) - 1
           /\ \A i \in 1..Len(w) - 1 : Front(w)[i] = w[i]
<1> DEFINE n == Len(w) - 1
<1>1. Len(w) \in Nat /\ n \in Nat /\ \A i \in 1..n : w[i] \in S
  OBVIOUS
<1>2. Front(w) = SubSeq(w, 1, n)
  BY DEF Front
<1> HIDE DEF n
<1>3. 1 \in Int /\ n \in Int
  BY <1>1
<1>4. /\ SubSeq(w, 1, n) \in Seq(S)
      /\ Len(SubSeq(w, 1, n)) = IF 1 <= n THEN n - 1 + 1 ELSE 0
      /\ \A i \in 1..n - 1 + 1 : SubSeq(w, 1, n)[i] = w[1 + i - 1]
  BY ONLY <1>1, <1>3, SubSeqProperties
<1>5. Len(SubSeq(w, 1, n)) = n /\ \A i \in 1..n : SubSeq(w, 1, n)[i] = w[i]
  BY <1>1, <1>4
<1> QED
  BY <1>2, <1>4, <1>5 DEF n

\* What is loaded is the whole log, or an end of it with newlines enough.
LEMMA LoadedFacts ==
    ASSUME NEW s \in Seq(Nat)
    PROVE  \E o \in 0..Len(s) :
              /\ Loaded(s) = Behind(s, o)
              /\ o = 0 \/ Newlines(Behind(s, o)) > BackfillLines
<1> DEFINE Block(k) == LastOf(k * BlockSize, s)
           Enough(k) == Len(Block(k)) = Len(s) \/ Newlines(Block(k)) > BackfillLines
           T == {k \in 0..Len(s) : Enough(k)}
<1>0. BlockSize \in Nat /\ BlockSize >= 1 /\ BackfillLines \in Nat /\ Len(s) \in Nat
  BY SizesAssumption
<1>1. ASSUME NEW k \in Nat
      PROVE  \E o \in 0..Len(s) : Block(k) = Behind(s, o)
  <2> DEFINE n == k * BlockSize
             o == IF Len(s) > n THEN Len(s) - n ELSE 0
  <2>1. n \in Nat
    BY <1>0
  <2>2. Block(k) = SubSeq(s, o + 1, Len(s))
    BY DEF LastOf
  <2> HIDE DEF n
  <2>3. o \in 0..Len(s)
    BY <2>1, <1>0
  <2> QED
    BY <2>2, <2>3 DEF Behind
<1>2. Enough(Len(s))
  <2>1. Len(s) * BlockSize \in Nat /\ Len(s) * BlockSize >= Len(s)
    BY <1>0
  <2>2. LastOf(Len(s) * BlockSize, s) = s
    BY <2>1, <1>0, LastOfFacts
  <2> QED
    BY <2>2
<1> HIDE DEF Enough, Block
<1>3. PICK k \in T : \A m \in T : k <= m
  <2>1. T \in SUBSET Nat /\ Len(s) \in T
    BY <1>0, <1>2
  <2> QED
    BY <2>1, LeastNat
<1>4. k \in 0..Len(s) /\ Enough(k) /\ \A j \in 0..k - 1 : ~Enough(j)
  <2>1. ASSUME NEW j \in 0..k - 1 PROVE ~Enough(j)
    BY <1>0, <1>3
  <2> QED
    BY <1>3, <2>1
<1>5. \E c \in 0..Len(s) : Enough(c) /\ Loaded(s) = Block(c)
  <2> DEFINE c == CHOOSE k0 \in 0..Len(s) : Enough(k0) /\ \A j \in 0..k0 - 1 : ~Enough(j)
  <2>1. c \in 0..Len(s) /\ Enough(c)
    BY <1>4
  <2>2. Loaded(s) = Block(c)
    BY DEF Loaded, Enough, Block
  <2> QED
    BY <2>1, <2>2
<1>6. PICK c \in 0..Len(s) : Enough(c) /\ Loaded(s) = Block(c)
  BY <1>5
<1>7. PICK o \in 0..Len(s) : Block(c) = Behind(s, o)
  BY <1>0, <1>1
<1>8. Len(Behind(s, o)) = Len(s) \/ Newlines(Behind(s, o)) > BackfillLines
  BY <1>6, <1>7 DEF Enough
<1>9. Len(Behind(s, o)) = Len(s) - o
  BY SuffixFacts
<1> QED
  BY <1>0, <1>6, <1>7, <1>8, <1>9

\* The backfill that is read block by block from the end is the last lines of the
\* log, for any sizes (_read_last_lines_sync, local.py 57-79).
THEOREM BackfillIsLastLines ==
    ASSUME NEW s \in Seq(Nat)
    PROVE  ReadLastLines(s) = LastOf(BackfillLines, Lines(s))
<1>1. PICK o \in 0..Len(s) : /\ Loaded(s) = Behind(s, o)
                             /\ o = 0 \/ Newlines(Behind(s, o)) > BackfillLines
  BY LoadedFacts
<1> DEFINE d == Behind(s, o)
           pieces == Complete(d) \o <<Rest(d)>>
           n == Newlines(d)
<1>0. BackfillLines \in Nat /\ BackfillLines >= 1 /\ Len(s) \in Nat /\ o \in Nat
  BY SizesAssumption
<1>2. d \in Seq(Nat) /\ Len(d) = Len(s) - o /\ Loaded(s) = d
  BY <1>1, SuffixFacts
<1>3. /\ Complete(d) \in Seq(Seq(Nat)) /\ Len(Complete(d)) = n /\ n \in Nat
      /\ Rest(d) \in Seq(Nat) /\ Lines(d) \in Seq(Seq(Nat))
      /\ Len(Lines(d)) = n + IF Rest(d) = <<>> THEN 0 ELSE 1
  BY <1>2, LinesFacts, BreaksFinite
<1>a. /\ Len(Lines(d)) \in Nat
      /\ Rest(d) = <<>> => Len(Lines(d)) = n
      /\ Rest(d) # <<>> => Len(Lines(d)) = n + 1
  <2> HIDE DEF d, n
  <2> QED
    BY <1>3
<1>4. /\ pieces \in Seq(Seq(Nat)) /\ Len(pieces) = n + 1
      /\ \A i \in 1..n : pieces[i] = Complete(d)[i]
      /\ pieces[n + 1] = Rest(d)
  <2> DEFINE r == <<Rest(d)>>
  <2>1. r \in Seq(Seq(Nat)) /\ Len(r) = 1 /\ r[1] = Rest(d)
    BY <1>3
  <2>2. /\ pieces \in Seq(Seq(Nat)) /\ Len(pieces) = n + 1
        /\ \A i \in 1..n + 1 : pieces[i] = IF i <= n THEN Complete(d)[i] ELSE r[i - n]
    <3> HIDE DEF r, d, n
    <3>1. Complete(d) \in Seq(Seq(Nat)) /\ r \in Seq(Seq(Nat))
      BY <1>3, <2>1
    <3>2. /\ Complete(d) \o r \in Seq(Seq(Nat))
          /\ Len(Complete(d) \o r) = Len(Complete(d)) + Len(r)
          /\ \A i \in 1..Len(Complete(d)) + Len(r) : (Complete(d) \o r)[i] =
                IF i <= Len(Complete(d)) THEN Complete(d)[i] ELSE r[i - Len(Complete(d))]
      BY ONLY <3>1, ConcatProperties
    <3> QED
      BY <3>2, <1>3, <2>1 DEF r
  <2> HIDE DEF r, d, n, pieces
  <2>3. n + 1 \in 1..n + 1 /\ (n + 1) - n = 1 /\ ~(n + 1 <= n) /\ \A i \in 1..n : i \in 1..n + 1 /\ i <= n
    BY <1>3
  <2> QED
    BY <2>1, <2>2, <2>3
<1> DEFINE whole == IF Len(d) < Len(s) THEN Tail(pieces) ELSE pieces
           Trim(w) == IF w # <<>> /\ Last(w) = <<>> THEN Front(w) ELSE w
           kept == Trim(whole)
<1>5. ReadLastLines(s) = LastOf(BackfillLines, kept)
  <2> DEFINE Kept(data) ==
               LET pcs == Complete(data) \o <<Rest(data)>>
                   whl == IF Len(data) < Len(s) THEN Tail(pcs) ELSE pcs
               IN  IF whl # <<>> /\ Last(whl) = <<>> THEN Front(whl) ELSE whl
  <2>1. ReadLastLines(s) = LastOf(BackfillLines, Kept(Loaded(s)))
    BY DEF ReadLastLines
  <2>2. Kept(d) = kept
    OBVIOUS
  <2> HIDE DEF Kept, kept, d
  <2> QED
    BY <1>2, <2>1, <2>2
<1>6. \A i \in 1..Len(Lines(d)) : Lines(d)[i] = pieces[i]
  <2>1. /\ \A k \in 1..n : Lines(d)[k] = Complete(d)[k]
        /\ Rest(d) # <<>> => Lines(d)[n + 1] = Rest(d)
    BY <1>2, LinesFacts
  <2> HIDE DEF d, n, pieces
  <2> TAKE i \in 1..Len(Lines(d))
  <2>2. i \in 1..n \/ (i = n + 1 /\ Rest(d) # <<>>)
    BY <1>3
  <2> QED
    BY <2>1, <2>2, <1>4
\* A sequence of lines without the empty piece behind a final newline.
<1>7. ASSUME NEW w \in Seq(Seq(Nat)), NEW m \in 0..n, Len(w) = n + 1 - m,
             \A i \in 1..Len(w) : w[i] = pieces[m + i]
      PROVE  /\ Trim(w) \in Seq(Seq(Nat)) /\ Len(Trim(w)) = Len(Lines(d)) - m
             /\ \A i \in 1..Len(Trim(w)) : Trim(w)[i] = Lines(d)[m + i]
  <2> HIDE DEF d, n, pieces
  <2> DEFINE v == Trim(w)
  <2>1. n \in Nat /\ Len(w) \in Nat /\ Len(w) >= 1 /\ Len(w) \in 1..Len(w) /\ m + Len(w) = n + 1 /\ m \in Nat
    BY <1>3, <1>7
  <2>2. w # <<>> /\ Last(w) = Rest(d)
    BY <2>1, <1>4, <1>7 DEF Last
  <2>3. CASE Rest(d) = <<>>
    <3>1. v = Front(w)
      BY <2>2, <2>3
    <3>4. /\ Front(w) \in Seq(Seq(Nat)) /\ Len(Front(w)) = Len(w) - 1
          /\ \A i \in 1..Len(w) - 1 : Front(w)[i] = w[i]
      BY <2>2, FrontFacts
    <3> HIDE DEF v
    <3>5. v \in Seq(Seq(Nat)) /\ Len(v) = Len(w) - 1
      BY <3>1, <3>4
    <3>6. Len(Lines(d)) = n
      BY <1>a, <2>3
    <3>7. ASSUME NEW i \in 1..Len(v) PROVE v[i] = Lines(d)[m + i]
      <4>1. i \in 1..Len(w) - 1 /\ i \in 1..Len(w) /\ m + i \in 1..n
        BY <3>5, <2>1
      <4>2. v[i] = w[i]
        BY <4>1, <3>1, <3>4
      <4> QED
        BY <4>1, <4>2, <1>6, <1>7, <3>6
    <3> QED
      BY <3>5, <3>6, <3>7, <2>1 DEF v
  <2>4. CASE Rest(d) # <<>>
    <3>1. v = w
      BY <2>2, <2>4
    <3>2. Len(Lines(d)) = n + 1
      BY <1>a, <2>4
    <3>3. ASSUME NEW i \in 1..Len(w) PROVE w[i] = Lines(d)[m + i]
      <4>1. m + i \in 1..n + 1
        BY <2>1, <1>3
      <4> QED
        BY <4>1, <1>6, <1>7, <3>2
    <3>4. Len(w) = Len(Lines(d)) - m
      BY <3>2, <2>1
    <3>5. w \in Seq(Seq(Nat))
      BY <1>7
    <3> HIDE DEF v
    <3>6. v \in Seq(Seq(Nat)) /\ Len(v) = Len(Lines(d)) - m /\ \A i \in 1..Len(v) : v[i] = Lines(d)[m + i]
      BY <3>1, <3>3, <3>4, <3>5
    <3> QED
      BY <3>6 DEF v
  <2> QED
    BY <2>3, <2>4
<1>8. CASE o = 0
  <2>1. d = s
    BY <1>8, SubSeqFull DEF Behind
  <2>2. whole = pieces
    BY <2>1
  <2>3. /\ kept \in Seq(Seq(Nat)) /\ Len(kept) = Len(Lines(d)) - 0
        /\ \A i \in 1..Len(kept) : kept[i] = Lines(d)[0 + i]
    <3>1. 0 \in 0..n /\ Len(pieces) = n + 1 - 0 /\ \A i \in 1..Len(pieces) : pieces[i] = pieces[0 + i]
      BY <1>3, <1>4
    <3>2. pieces \in Seq(Seq(Nat))
      BY <1>4
    <3> HIDE DEF pieces, n, Trim, d
    <3>3. /\ Trim(pieces) \in Seq(Seq(Nat)) /\ Len(Trim(pieces)) = Len(Lines(d)) - 0
          /\ \A i \in 1..Len(Trim(pieces)) : Trim(pieces)[i] = Lines(d)[0 + i]
      BY <3>1, <3>2, <1>7
    <3> HIDE DEF whole
    <3> QED
      BY <2>2, <3>3
  <2> HIDE DEF kept, d
  <2>4. kept = Lines(d)
    <3>1. Len(kept) = Len(Lines(d)) /\ \A i \in 1..Len(kept) : 0 + i = i /\ kept[i] = Lines(d)[i]
      BY <2>3, <1>3
    <3> QED
      BY <2>3, <3>1, <1>3, SeqEqual
  <2> QED
    BY <1>5, <2>1, <2>4
<1>9. CASE o # 0
  <2>1. n > BackfillLines /\ n >= 2 /\ Len(d) < Len(s)
    <3>1. n > BackfillLines
      BY <1>9, <1>1
    <3> HIDE DEF d, n
    <3> QED
      BY <3>1, <1>9, <1>0, <1>2, <1>3
  <2>2. whole = Tail(pieces)
    BY <2>1
  <2>3. /\ Tail(pieces) \in Seq(Seq(Nat)) /\ Len(Tail(pieces)) = n + 1 - 1
        /\ \A i \in 1..Len(Tail(pieces)) : Tail(pieces)[i] = pieces[1 + i]
    <3> HIDE DEF pieces, n
    <3>1. pieces # <<>>
      BY <1>3, <1>4
    <3> QED
      BY <1>3, <1>4, <3>1, HeadTailProperties
  <2>4. /\ kept \in Seq(Seq(Nat)) /\ Len(kept) = Len(Lines(d)) - 1
        /\ \A i \in 1..Len(kept) : kept[i] = Lines(d)[1 + i]
    <3>1. 1 \in 0..n
      BY <2>1, <1>3
    <3> HIDE DEF pieces, n, Trim, d
    <3>2. /\ Trim(Tail(pieces)) \in Seq(Seq(Nat)) /\ Len(Trim(Tail(pieces))) = Len(Lines(d)) - 1
          /\ \A i \in 1..Len(Trim(Tail(pieces))) : Trim(Tail(pieces))[i] = Lines(d)[1 + i]
      BY <2>3, <3>1, <1>7
    <3> HIDE DEF whole
    <3> QED
      BY <2>2, <3>2
  <2>5. /\ Len(Lines(s)) = UpTo(s, o) + Len(Lines(d)) /\ UpTo(s, o) \in Nat
        /\ \A k \in 2..Len(Lines(d)) : Lines(s)[UpTo(s, o) + k] = Lines(d)[k]
        /\ Lines(s) \in Seq(Seq(Nat))
    <3>1. Newlines(Behind(s, o)) >= 1
      BY <2>1, <1>3
    <3> QED
      BY <3>1, SuffixLines, LinesFacts
  <2> DEFINE m == UpTo(s, o) + 1
  <2> HIDE DEF kept, d, n, pieces
  <2>6. m \in Nat /\ Len(Lines(s)) = m + Len(kept) /\ Len(kept) >= BackfillLines
    <3>1. /\ Len(Lines(d)) \in Nat /\ (Len(Lines(d)) = n \/ Len(Lines(d)) = n + 1)
          /\ n \in Nat /\ BackfillLines \in Nat /\ n > BackfillLines
      BY <2>1, <1>0, <1>a, <1>3
    <3>2. /\ Len(kept) = Len(Lines(d)) - 1 /\ UpTo(s, o) \in Nat
          /\ Len(Lines(s)) = UpTo(s, o) + Len(Lines(d))
      BY <2>4, <2>5
    <3>3. m = UpTo(s, o) + 1
      OBVIOUS
    <3> HIDE DEF m
    <3>4. m \in Nat
      BY ONLY <3>2, <3>3
    <3>5. Len(Lines(s)) = m + Len(kept)
      BY ONLY <3>1, <3>2, <3>3
    <3>6. Len(kept) >= BackfillLines
      BY ONLY <3>1, <3>2
    <3> QED
      BY <3>4, <3>5, <3>6
  <2>7. ASSUME NEW i \in 1..Len(kept) PROVE Lines(s)[m + i] = kept[i]
    <3>1. 1 + i \in 2..Len(Lines(d)) /\ m + i = UpTo(s, o) + (1 + i)
      BY <2>4, <2>5, <1>a
    <3> QED
      BY <3>1, <2>4, <2>5
  <2> HIDE DEF m
  <2>8. LastOf(BackfillLines, kept) = LastOf(BackfillLines, Lines(s))
    BY <1>0, <2>4, <2>5, <2>6, <2>7, LastOfSuffix
  <2> QED
    BY <1>5, <2>8
<1> QED
  BY <1>8, <1>9

-----------------------------------------------------------------------------
(* The follower's inductive invariant *)

\* The lines the follower got, and all that its browser gets to see.
Yielded == lines \o ready
Shown == backfill \o Yielded

\* The bytes of s are written by now.
Old(s) == \A i \in 1..Len(s) : s[i] \in 1..written

\* The bytes of the lines are older than those of f from place n on.
OlderThan(ls, f, n) ==
    \A k \in 1..Len(ls) : \A i \in 1..Len(ls[k]) : \A j \in n..Len(f) : ls[k][i] < f[j]

FollowTypes ==
    /\ source \in {"file", "command"}
    /\ written \in Nat /\ breaks \subseteq 1..written /\ starts \subseteq 1..written
    /\ disk \in [Inodes -> Seq(Nat)]
    /\ path \in Inodes \cup {Nowhere} /\ writer \in Inodes
    /\ place \in Places
    /\ fd \in Inodes \cup {Nowhere} /\ pos \in Nat
    /\ pending \in Seq(Nat) /\ corpus \in Seq(Nat)
    /\ ready \in Seq(Seq(Nat)) /\ backfill \in Seq(Seq(Nat)) /\ lines \in Seq(Seq(Nat))

PlaceInv ==
    /\ place \in {"asked", "opening", "reopening"} => fd = Nowhere /\ pending = <<>>
    /\ place \in {"reading", "sending", "checking", "napping"} => fd # Nowhere
    /\ place \in {"asked", "opening"} => lines = <<>>
    /\ place = "asked" => backfill = <<>>
    /\ place \in Places \ {"sending", "closing", "closed"} => ready = <<>>
    /\ place = "sending" => ready # <<>>
    /\ proc = "running" => source = "command"

FollowBounds ==
    /\ \A f \in Inodes : Old(disk[f])
    /\ Old(pending) /\ Old(corpus) /\ BreaksIn(pending) = {}
    /\ \A k \in 1..Len(Shown) : Old(Shown[k])

\* A file has the bytes written since it was created or emptied, and the path
\* names the youngest.
DiskInv ==
    /\ \A f \in Inodes : \A j \in 1..Len(disk[f]) :
          disk[f][j] = disk[f][1] + j - 1 /\ (disk[f][j] \in starts <=> j = 1)
    /\ disk[writer] # <<>> => Last(disk[writer]) = written
    /\ path \notin {Nowhere, writer} => disk[path] = <<>>
    /\ path # Nowhere =>
          \A f \in Inodes \ {path} : \A i \in 1..Len(disk[f]), j \in 1..Len(disk[path]) :
              disk[f][i] < disk[path][j]

Following == place \in {"reading", "sending", "checking", "reopening", "napping"}

\* The file f was read up to n: the unfinished line q is what was read last, from
\* a line's beginning on unless it is the first, and all that was shown is older
\* than it. Of a file that was emptied everything is younger.
ReadTo(f, n, q, newlines, yielded, shown) ==
    /\ n <= Len(f) =>
          /\ n - Len(q) >= 0 /\ q = SubSeq(f, n - Len(q) + 1, n)
          /\ n - Len(q) = 0 \/ f[n - Len(q)] \in newlines \/ yielded = <<>>
          /\ OlderThan(shown, f, n - Len(q) + 1)
    /\ n > Len(f) => OlderThan(shown, f, 1)

FileInv ==
    Following /\ fd # Nowhere => ReadTo(disk[fd], pos, pending, breaks, Yielded, Shown)

NextInv == Following /\ path \notin {Nowhere, fd} => OlderThan(Shown, disk[path], 1)

LinesInv ==
    /\ \A k \in 1..Len(Yielded) : IsLine(Yielded[k], k = 1)
    /\ Increasing(Shown)

BackfillInv ==
    place \notin {"asked", "closed"} => backfill = LastOf(BackfillLines, Lines(corpus))

FollowTypeInv == FollowTypes /\ PlaceInv /\ FollowBounds
FollowInv == FollowTypeInv /\ DiskInv /\ FileInv /\ NextInv /\ LinesInv /\ BackfillInv

-----------------------------------------------------------------------------
(* What a chunk is cut into, and that lines come in order *)

Chunk(f, b, e) == SubSeq(f, b + 1, e)

\* The lines of s, the part of f from b to e, end where cut says.
CutAt(s, f, b, e, cut) ==
    /\ cut[0] = b
    /\ Rest(s) = SubSeq(f, cut[Len(Complete(s))] + 1, e)
    /\ \A k \in 1..Len(Complete(s)) :
          /\ cut[k - 1] < cut[k] /\ f[cut[k]] \in breaks
          /\ \A j \in cut[k - 1] + 1..cut[k] - 1 : f[j] \notin breaks
          /\ Len(Complete(s)[k]) = cut[k] - cut[k - 1]
          /\ \A i \in 1..cut[k] - cut[k - 1] : Complete(s)[k][i] = f[cut[k - 1] + i]
    /\ \A k \in 0..Len(Complete(s)), m \in 0..Len(Complete(s)) :
          k < m => cut[k] < cut[m]

\* What a chunk of a file is cut into.
LEMMA ChunkCuts ==
    ASSUME NEW f \in Seq(Nat), NEW b \in Nat, NEW e \in Nat, b <= e, e <= Len(f),
           NEW s, s = Chunk(f, b, e)
    PROVE  /\ s \in Seq(Nat) /\ Complete(s) \in Seq(Seq(Nat)) /\ Len(Complete(s)) \in Nat
           /\ BreaksIn(Rest(s)) = {}
           /\ \E cut \in [0..Len(Complete(s)) -> b..e] : CutAt(s, f, b, e, cut)
<1> DEFINE n == Newlines(s)
           cut == [k \in 0..n |-> b + Cut(s, k)]
<1>0. Len(f) \in Nat
  OBVIOUS
<1>1. s \in Seq(Nat) /\ Len(s) = e - b /\ \A i \in 1..e - b : s[i] = f[b + i]
  <2>1. \A i \in b + 1..e : f[i] \in Nat
    BY <1>0
  <2>2. b + 1 \in Int /\ e \in Int
    OBVIOUS
  <2>3. /\ SubSeq(f, b + 1, e) \in Seq(Nat)
        /\ Len(SubSeq(f, b + 1, e)) = IF b + 1 <= e THEN e - (b + 1) + 1 ELSE 0
        /\ \A i \in 1..e - (b + 1) + 1 : SubSeq(f, b + 1, e)[i] = f[(b + 1) + i - 1]
    BY ONLY <2>1, <2>2, SubSeqProperties
  <2>4. ASSUME NEW i \in 1..e - b PROVE s[i] = f[b + i]
    <3>1. i \in 1..e - (b + 1) + 1 /\ (b + 1) + i - 1 = b + i
      OBVIOUS
    <3> QED
      BY <3>1, <2>3 DEF Chunk
  <2> QED
    BY <2>3, <2>4 DEF Chunk
<1>2. /\ n \in Nat /\ Len(Complete(s)) = n /\ Complete(s) \in Seq(Seq(Nat)) /\ Rest(s) \in Seq(Nat)
      /\ \A k \in 1..n : Complete(s)[k] = SubSeq(s, Cut(s, k - 1) + 1, Cut(s, k))
  BY <1>1, BreaksFinite, LinesFacts
<1>3. \A k \in 0..n : Cut(s, k) \in 0..Len(s)
  BY <1>1, CutIsThere
<1>4. \A k \in 1..n : /\ Cut(s, k - 1) < Cut(s, k) /\ Cut(s, k) \in BreaksIn(s)
                      /\ \A j \in BreaksIn(s) : ~(Cut(s, k - 1) < j /\ j < Cut(s, k))
  BY <1>1, CutsFollow
<1>5. Cut(s, 0) = 0
  <2>1. UpTo(s, 0) = 0 /\ 0 \in 0..n
    BY <1>1, <1>2, UpToEnds
  <2>2. 0 \in 0..Newlines(s) /\ 0 \in {0} \cup BreaksIn(s)
    BY <2>1
  <2> QED
    BY <2>1, <2>2, <1>1, CutIsOne
<1>6. BreaksIn(s) \subseteq 1..Len(s) /\ \A j \in 1..Len(s) : j \in BreaksIn(s) <=> f[b + j] \in breaks
  BY <1>1 DEF BreaksIn
<1>7. Rest(s) = SubSeq(s, Cut(s, n) + 1, Len(s))
  BY DEF Rest
<1>8. \A j \in BreaksIn(s) : j <= Cut(s, n)
  BY <1>1, LastCut
<1>9. \A k \in 0..n, m \in 0..n : k < m => Cut(s, k) < Cut(s, m)
  BY <1>1, CutsGrow
<1> HIDE DEF n
<1>10. cut \in [0..n -> b..e] /\ \A k \in 0..n : cut[k] = b + Cut(s, k)
  <2>1. ASSUME NEW k \in 0..n PROVE b + Cut(s, k) \in b..e
    BY <1>1, <1>3
  <2> QED
    BY <2>1
<1>11. cut[0] = b
  BY <1>2, <1>5, <1>10
<1>12. Rest(s) = SubSeq(f, cut[n] + 1, e) /\ BreaksIn(Rest(s)) = {}
  <2> DEFINE c == Cut(s, n)
             u == SubSeq(s, c + 1, Len(s))
             v == SubSeq(f, (b + c) + 1, e)
  <2>1. c \in 0..Len(s) /\ n \in 0..n /\ Len(s) = e - b /\ cut[n] = b + c
    BY <1>1, <1>2, <1>3, <1>10
  <2> HIDE DEF c
  <2>2. /\ c + 1 \in Int /\ Len(s) \in Int /\ (b + c) + 1 \in Int /\ e \in Int
        /\ \A i \in c + 1..Len(s) : s[i] \in Nat
        /\ \A i \in (b + c) + 1..e : f[i] \in Nat
    <3>1. c \in Nat /\ Len(s) \in Nat /\ c <= Len(s) /\ s \in Seq(Nat)
      BY <1>1, <2>1
    <3>2. ASSUME NEW i \in c + 1..Len(s) PROVE s[i] \in Nat
      <4>1. i \in 1..Len(s)
        BY ONLY <3>1, i \in c + 1..Len(s)
      <4> QED
        BY <4>1, <3>1
    <3>3. ASSUME NEW i \in (b + c) + 1..e PROVE f[i] \in Nat
      <4>1. i \in 1..Len(f)
        BY <3>1, <1>0
      <4> QED
        BY <4>1
    <3> QED
      BY <3>1, <3>2, <3>3
  <2>3. /\ u \in Seq(Nat) /\ Len(u) = IF c + 1 <= Len(s) THEN Len(s) - (c + 1) + 1 ELSE 0
        /\ \A i \in 1..Len(s) - (c + 1) + 1 : u[i] = s[(c + 1) + i - 1]
    BY ONLY <2>2, SubSeqProperties
  <2>4. /\ v \in Seq(Nat) /\ Len(v) = IF (b + c) + 1 <= e THEN e - ((b + c) + 1) + 1 ELSE 0
        /\ \A i \in 1..e - ((b + c) + 1) + 1 : v[i] = f[((b + c) + 1) + i - 1]
    BY ONLY <2>2, SubSeqProperties
  <2>5. Len(u) = Len(v) /\ Len(u) = Len(s) - c
    BY <2>1, <2>3, <2>4
  <2>6. ASSUME NEW i \in 1..Len(u) PROVE u[i] = v[i] /\ u[i] = f[b + (c + i)] /\ c + i \in 1..Len(s) /\ c + i > c
    <3>1. /\ i \in 1..Len(s) - (c + 1) + 1 /\ (c + 1) + i - 1 = c + i
          /\ i \in 1..e - ((b + c) + 1) + 1 /\ ((b + c) + 1) + i - 1 = b + (c + i)
          /\ c + i \in 1..e - b
      BY <2>1, <2>5
    <3>2. u[i] = s[c + i] /\ v[i] = f[b + (c + i)]
      BY <3>1, <2>3, <2>4
    <3>3. s[c + i] = f[b + (c + i)]
      BY <3>1, <1>1
    <3> HIDE DEF u, v
    <3>4. c + i \in 1..Len(s) /\ c + i > c
      BY <3>1, <2>1
    <3> QED
      BY <3>2, <3>3, <3>4
  <2> HIDE DEF u, v
  <2>7. u = v
    BY <2>3, <2>4, <2>5, <2>6, SeqEqual
  <2>8. ASSUME NEW i \in 1..Len(u) PROVE u[i] \notin breaks
    <3>1. c + i \in 1..Len(s) /\ c + i > c /\ u[i] = f[b + (c + i)]
      BY <2>6
    <3>2. c + i \notin BreaksIn(s)
      BY <3>1, <2>1, <1>8 DEF c
    <3> QED
      BY <3>1, <3>2, <1>6
  <2>9. Rest(s) = u
    BY <1>7 DEF u, c
  <2>10. BreaksIn(u) = {}
    BY <2>8 DEF BreaksIn
  <2> QED
    BY <2>1, <2>7, <2>9, <2>10 DEF v
<1>13. ASSUME NEW k \in 1..n
       PROVE  /\ cut[k - 1] < cut[k] /\ f[cut[k]] \in breaks
              /\ \A j \in cut[k - 1] + 1..cut[k] - 1 : f[j] \notin breaks
              /\ Len(Complete(s)[k]) = cut[k] - cut[k - 1]
              /\ \A i \in 1..cut[k] - cut[k - 1] : Complete(s)[k][i] = f[cut[k - 1] + i]
  <2> DEFINE p == Cut(s, k - 1)
             q == Cut(s, k)
             l == SubSeq(s, p + 1, q)
  <2>1. /\ k - 1 \in 0..n /\ k \in 0..n /\ p \in 0..Len(s) /\ q \in 0..Len(s) /\ p < q
        /\ cut[k - 1] = b + p /\ cut[k] = b + q /\ q \in BreaksIn(s)
        /\ \A j \in BreaksIn(s) : ~(p < j /\ j < q)
        /\ Complete(s)[k] = l
    <3>1. k - 1 \in 0..n /\ k \in 0..n
      BY <1>2
    <3> HIDE DEF cut
    <3> QED
      BY <3>1, <1>2, <1>3, <1>4, <1>10
  <2> HIDE DEF p, q
  <2>2. Len(s) = e - b /\ Len(s) \in Nat /\ p \in Nat /\ q \in Nat
    BY <1>1, <2>1
  <2>3. p + 1 \in Int /\ q \in Int /\ \A i \in p + 1..q : s[i] \in Nat
    <3>1. ASSUME NEW i \in p + 1..q PROVE s[i] \in Nat
      <4>1. i \in 1..Len(s) /\ s \in Seq(Nat)
        BY <1>1, <2>1, <2>2
      <4> QED
        BY <4>1
    <3> QED
      BY <2>2, <3>1
  <2>4. /\ l \in Seq(Nat) /\ Len(l) = IF p + 1 <= q THEN q - (p + 1) + 1 ELSE 0
        /\ \A i \in 1..q - (p + 1) + 1 : l[i] = s[(p + 1) + i - 1]
    BY ONLY <2>3, SubSeqProperties
  <2> HIDE DEF l
  <2>5. f[b + q] \in breaks
    BY <2>1, <1>6
  <2>6. ASSUME NEW j \in (b + p) + 1..(b + q) - 1 PROVE f[j] \notin breaks
    <3>1. j - b \in 1..Len(s) /\ p < j - b /\ j - b < q /\ b + (j - b) = j
      BY <2>1, <2>2
    <3> QED
      BY <3>1, <2>1, <1>6
  <2>7. Len(l) = (b + q) - (b + p)
    BY <2>1, <2>2, <2>4
  <2>8. ASSUME NEW i \in 1..(b + q) - (b + p) PROVE l[i] = f[(b + p) + i]
    <3>1. i \in 1..q - (p + 1) + 1 /\ (p + 1) + i - 1 = p + i /\ p + i \in 1..e - b /\ b + (p + i) = (b + p) + i
      BY <2>1, <2>2
    <3> QED
      BY <3>1, <2>4, <1>1
  <2>9. b + p < b + q
    BY <2>1, <2>2
  <2> QED
    BY <2>1, <2>5, <2>6, <2>7, <2>8, <2>9
<1>14. ASSUME NEW k \in 0..n, NEW m \in 0..n, k < m PROVE cut[k] < cut[m]
  <2>1. Cut(s, k) < Cut(s, m) /\ Cut(s, k) \in 0..Len(s) /\ Cut(s, m) \in 0..Len(s) /\ Len(s) \in Nat
    BY <1>1, <1>3, <1>9, <1>14
  <2> QED
    BY <2>1, <1>10
<1> HIDE DEF cut
<1>15. CutAt(s, f, b, e, cut)
  BY <1>2, <1>11, <1>12, <1>13, <1>14 DEF CutAt
<1> QED
  BY <1>1, <1>2, <1>10, <1>12, <1>15

\* Pieces cut one after the other from a sequence that increases.
LEMMA PiecesInOrder ==
    ASSUME NEW f \in Seq(Nat), NEW ls \in Seq(Seq(Nat)), NEW cut \in [0..Len(ls) -> 0..Len(f)],
           \A k \in 1..Len(ls) : /\ cut[k - 1] + Len(ls[k]) <= cut[k]
                                 /\ \A i \in 1..Len(ls[k]) : ls[k][i] = f[cut[k - 1] + i],
           \A k \in 0..Len(ls), m \in 0..Len(ls) : k < m => cut[k] <= cut[m],
           \A i \in 1..Len(f), j \in 1..Len(f) : i < j => f[i] < f[j]
    PROVE  /\ Increasing(ls)
           /\ \A k \in 1..Len(ls) : \A i \in 1..Len(ls[k]) :
                 \E j \in 1..Len(f) : cut[0] < j /\ j <= cut[Len(ls)] /\ ls[k][i] = f[j]
<1>1. Len(f) \in Nat /\ Len(ls) \in Nat /\ \A k \in 1..Len(ls) : Len(ls[k]) \in Nat
  OBVIOUS
<1>2. ASSUME NEW k \in 1..Len(ls), NEW i \in 1..Len(ls[k])
      PROVE  /\ cut[k - 1] + i \in 1..Len(f) /\ ls[k][i] = f[cut[k - 1] + i]
             /\ cut[0] < cut[k - 1] + i /\ cut[k - 1] + i <= cut[k] /\ cut[k] <= cut[Len(ls)]
             /\ cut[k - 1] \in 0..Len(f) /\ cut[k] \in 0..Len(f)
  <2>1. k \in 0..Len(ls) /\ k - 1 \in 0..Len(ls) /\ 0 \in 0..Len(ls) /\ Len(ls) \in 0..Len(ls) /\ Len(ls[k]) \in Nat
    BY <1>1
  <2>2. /\ cut[k - 1] \in 0..Len(f) /\ cut[k] \in 0..Len(f) /\ cut[0] \in 0..Len(f)
        /\ cut[k - 1] + Len(ls[k]) <= cut[k] /\ cut[Len(ls)] \in 0..Len(f)
    BY <2>1
  <2>3. cut[0] <= cut[k - 1] /\ cut[k] <= cut[Len(ls)]
    <3>1. (0 < k - 1 \/ k - 1 = 0) /\ (k < Len(ls) \/ k = Len(ls))
      BY <1>1
    <3>2. k - 1 = 0 => cut[0] <= cut[k - 1]
      BY <2>2
    <3>3. k = Len(ls) => cut[k] <= cut[Len(ls)]
      BY <2>2
    <3>4. (0 < k - 1 => cut[0] <= cut[k - 1]) /\ (k < Len(ls) => cut[k] <= cut[Len(ls)])
      BY <2>1
    <3> QED
      BY <3>1, <3>2, <3>3, <3>4
  <2>4. cut[k - 1] + i \in 1..Len(f) /\ cut[0] < cut[k - 1] + i /\ cut[k - 1] + i <= cut[k]
    <3> DEFINE a == cut[k - 1]
               b == cut[k]
               l == Len(ls[k])
               z == cut[0]
               e == Len(f)
    <3>1. /\ a \in 0..e /\ b \in 0..e /\ z \in 0..e /\ l \in Nat /\ a + l <= b /\ z <= a
          /\ i \in 1..l /\ e \in Nat
      BY <1>1, <2>1, <2>2, <2>3
    <3> HIDE DEF a, b, l, z, e
    <3>2. a + i \in 1..e /\ z < a + i /\ a + i <= b
      BY ONLY <3>1
    <3> QED
      BY <3>2 DEF a, b, z, e
  <2> QED
    BY <2>2, <2>3, <2>4
<1>3. ASSUME NEW k \in 1..Len(ls), NEW i \in 1..Len(ls[k]) - 1
      PROVE  ls[k][i] < ls[k][i + 1]
  <2>1. i \in 1..Len(ls[k]) /\ i + 1 \in 1..Len(ls[k])
    <3> DEFINE l == Len(ls[k])
    <3>1. l \in Nat /\ i \in 1..l - 1
      BY <1>1
    <3> HIDE DEF l
    <3>2. i \in 1..l /\ i + 1 \in 1..l
      BY ONLY <3>1
    <3> QED
      BY <3>2 DEF l
  <2>2. /\ cut[k - 1] + i \in 1..Len(f) /\ ls[k][i] = f[cut[k - 1] + i]
        /\ cut[k - 1] + (i + 1) \in 1..Len(f) /\ ls[k][i + 1] = f[cut[k - 1] + (i + 1)]
        /\ cut[k - 1] \in 0..Len(f)
    BY <1>2, <2>1
  <2>3. cut[k - 1] + i < cut[k - 1] + (i + 1)
    <3>1. cut[k - 1] \in Int /\ i \in Int
      <4>1. cut[k - 1] \in Int
        BY <1>1, <2>2
      <4>2. i \in 1..Len(ls[k]) /\ Len(ls[k]) \in Nat
        BY <1>1, <2>1
      <4>3. i \in Int
        BY ONLY <4>2
      <4> QED
        BY <4>1, <4>3
    <3> QED
      BY ONLY <3>1
  <2> QED
    BY <2>2, <2>3
<1>4. ASSUME NEW k \in 1..Len(ls), NEW m \in 1..Len(ls), k < m,
             NEW i \in 1..Len(ls[k]), NEW j \in 1..Len(ls[m])
      PROVE  ls[k][i] < ls[m][j]
  <2>1. /\ cut[k - 1] + i \in 1..Len(f) /\ ls[k][i] = f[cut[k - 1] + i] /\ cut[k - 1] + i <= cut[k]
        /\ cut[k] \in 0..Len(f)
    BY <1>2
  <2>2. cut[m - 1] + j \in 1..Len(f) /\ ls[m][j] = f[cut[m - 1] + j] /\ cut[m - 1] \in 0..Len(f)
    BY <1>2
  <2>3. cut[k] <= cut[m - 1]
    <3>1. k \in 0..Len(ls) /\ m - 1 \in 0..Len(ls) /\ (k < m - 1 \/ k = m - 1)
      BY <1>1, <1>4
    <3> QED
      BY <2>1, <3>1
  <2>4. cut[k - 1] + i < cut[m - 1] + j
    <3> DEFINE a == cut[k - 1] + i
               b == cut[k]
               c == cut[m - 1]
    <3>1. a \in Nat /\ b \in Nat /\ c \in Nat /\ a <= b /\ b <= c /\ j >= 1 /\ j \in Nat
      BY <2>1, <2>2, <2>3
    <3> HIDE DEF a, b, c
    <3>2. a < c + j
      BY ONLY <3>1
    <3> QED
      BY <3>2 DEF a, c
  <2> QED
    BY <2>1, <2>2, <2>4
<1>5. Increasing(ls)
  BY <1>3, <1>4 DEF Increasing
<1>6. ASSUME NEW k \in 1..Len(ls), NEW i \in 1..Len(ls[k])
      PROVE  \E j \in 1..Len(f) : cut[0] < j /\ j <= cut[Len(ls)] /\ ls[k][i] = f[j]
  <2>1. /\ cut[k - 1] + i \in 1..Len(f) /\ ls[k][i] = f[cut[k - 1] + i]
        /\ cut[0] < cut[k - 1] + i /\ cut[k - 1] + i <= cut[k] /\ cut[k] <= cut[Len(ls)]
        /\ cut[k] \in 0..Len(f) /\ cut[Len(ls)] \in 0..Len(f)
    <3>1. Len(ls) \in 0..Len(ls)
      BY <1>1
    <3> QED
      BY <1>2, <3>1
  <2>2. cut[k - 1] + i <= cut[Len(ls)]
    BY <2>1
  <2> QED
    BY <2>1, <2>2
<1> QED
  BY <1>5, <1>6

LEMMA WholeCuts ==
    ASSUME NEW f \in Seq(Nat)
    PROVE  /\ Complete(f) \in Seq(Seq(Nat)) /\ Len(Complete(f)) \in Nat
           /\ BreaksIn(Rest(f)) = {}
           /\ \E cut \in [0..Len(Complete(f)) -> 0..Len(f)] : CutAt(f, f, 0, Len(f), cut)
<1>1. 0 \in Nat /\ Len(f) \in Nat /\ 0 <= Len(f) /\ Len(f) <= Len(f)
  OBVIOUS
<1>2. Chunk(f, 0, Len(f)) = f
  <2>1. SubSeq(f, 0 + 1, Len(f)) = f
    OBVIOUS
  <2> QED
    BY <2>1 DEF Chunk
<1> QED
  BY ONLY <1>1, <1>2, ChunkCuts, f \in Seq(Nat), Zenon

\* The bytes of the lines are bytes of the log; the lines are some of those.
MadeOf(ls, f) == \A k \in 1..Len(ls) : \A i \in 1..Len(ls[k]) : \E j \in 1..Len(f) : ls[k][i] = f[j]
SomeOf(us, ls) == \A k \in 1..Len(us) : \E m \in 1..Len(ls) : us[k] = ls[m]

\* The lines of a log, and the last of them, in order and made of its bytes.
LEMMA LinesInOrder ==
    ASSUME NEW f \in Seq(Nat),
           \A i \in 1..Len(f), j \in 1..Len(f) : i < j => f[i] < f[j]
    PROVE  Lines(f) \in Seq(Seq(Nat)) /\ Increasing(Lines(f)) /\ MadeOf(Lines(f), f)
<1> DEFINE ls == Lines(f)
<1> DEFINE C == Complete(f)
           r == Rest(f)
           e == Len(f)
<1>1. e \in Nat
  OBVIOUS
<1>2. /\ C \in Seq(Seq(Nat)) /\ Len(C) \in Nat
      /\ \E cut \in [0..Len(C) -> 0..e] : CutAt(f, f, 0, e, cut)
  BY WholeCuts
<1>3. ls = C \o (IF r = <<>> THEN <<>> ELSE <<r>>)
  BY DEF Lines
<1> HIDE DEF ls
<1>4. PICK cut \in [0..Len(C) -> 0..e] :
            /\ cut[0] = 0
            /\ r = SubSeq(f, cut[Len(C)] + 1, e)
            /\ \A k \in 1..Len(C) :
                  /\ cut[k - 1] < cut[k]
                  /\ Len(C[k]) = cut[k] - cut[k - 1]
                  /\ \A i \in 1..cut[k] - cut[k - 1] : C[k][i] = f[cut[k - 1] + i]
            /\ \A k \in 0..Len(C), m \in 0..Len(C) : k < m => cut[k] < cut[m]
  BY <1>2, Zenon DEF CutAt
<1> HIDE DEF C, r
<1> DEFINE n == Len(C)
           c == cut[n]
<1>5. n \in Nat /\ n \in 0..n /\ c \in 0..e
  BY <1>2
<1> HIDE DEF c, n
<1>6. /\ r \in Seq(Nat) /\ Len(r) = e - c /\ \A i \in 1..Len(r) : r[i] = f[c + i]
  <2>1. c + 1 \in Int /\ e \in Int /\ \A i \in c + 1..e : f[i] \in Nat
    <3>1. ASSUME NEW i \in c + 1..e PROVE f[i] \in Nat
      <4>1. i \in 1..Len(f)
        BY <1>1, <1>5
      <4> QED
        BY <4>1
    <3> QED
      BY <1>1, <1>5, <3>1
  <2>2. /\ SubSeq(f, c + 1, e) \in Seq(Nat)
        /\ Len(SubSeq(f, c + 1, e)) = IF c + 1 <= e THEN e - (c + 1) + 1 ELSE 0
        /\ \A i \in 1..e - (c + 1) + 1 : SubSeq(f, c + 1, e)[i] = f[(c + 1) + i - 1]
    BY ONLY <2>1, SubSeqProperties
  <2>3. r = SubSeq(f, c + 1, e)
    BY <1>4 DEF c, n
  <2> HIDE DEF e
  <2>4. Len(r) = e - c
    BY <1>1, <1>5, <2>2, <2>3
  <2>5. ASSUME NEW i \in 1..Len(r) PROVE r[i] = f[c + i]
    <3>1. i \in 1..e - (c + 1) + 1 /\ (c + 1) + i - 1 = c + i
      BY <1>1, <1>5, <2>4
    <3> QED
      BY <2>2, <2>3, <3>1
  <2> QED
    BY <2>2, <2>3, <2>4, <2>5
<1>7. ASSUME r = <<>>
      PROVE  /\ ls \in Seq(Seq(Nat)) /\ Increasing(ls)
             /\ \A k \in 1..Len(ls) : \A i \in 1..Len(ls[k]) : \E j \in 1..Len(f) : ls[k][i] = f[j]
  <2>1. ls = C
    BY <1>2, <1>3, <1>7
  <2>2. \A k \in 1..Len(C) : cut[k - 1] \in Int /\ cut[k] \in Int
    <3>1. \A k \in 1..Len(C) : k - 1 \in 0..Len(C) /\ k \in 0..Len(C)
      BY <1>2
    <3> QED
      BY <3>1
  <2>3. \A k \in 1..Len(C) : cut[k - 1] + Len(C[k]) <= cut[k] /\ \A i \in 1..Len(C[k]) : C[k][i] = f[cut[k - 1] + i]
    <3> TAKE k \in 1..Len(C)
    <3>1. cut[k - 1] + Len(C[k]) = cut[k]
      BY <1>4, <2>2
    <3>2. cut[k - 1] \in Int /\ cut[k] \in Int /\ Len(C[k]) = cut[k] - cut[k - 1]
      BY <1>4, <2>2
    <3>3. cut[k - 1] + Len(C[k]) <= cut[k]
      BY <3>1, <3>2
    <3>4. \A i \in 1..Len(C[k]) : C[k][i] = f[cut[k - 1] + i]
      <4>1. \A i \in 1..cut[k] - cut[k - 1] : C[k][i] = f[cut[k - 1] + i]
        BY <1>4
      <4> QED
        BY <3>2, <4>1, Zenon
    <3> QED
      BY <3>3, <3>4
  <2>4. \A k \in 0..Len(C), m \in 0..Len(C) : k < m => cut[k] <= cut[m]
    <3>1. TAKE k \in 0..Len(C), m \in 0..Len(C)
    <3>2. HAVE k < m
    <3>3. cut[k] < cut[m]
      BY <1>4, <3>2
    <3>4. cut[k] \in 0..e /\ cut[m] \in 0..e
      OBVIOUS
    <3>5. cut[k] \in Int /\ cut[m] \in Int
      BY ONLY <3>4, <1>1
    <3> QED
      BY ONLY <3>3, <3>5
  <2>5. cut \in [0..Len(C) -> 0..Len(f)]
    OBVIOUS
  <2>6. /\ Increasing(C)
        /\ \A k \in 1..Len(C) : \A i \in 1..Len(C[k]) :
              \E j \in 1..Len(f) : cut[0] < j /\ j <= cut[Len(C)] /\ C[k][i] = f[j]
    <3>1. C \in Seq(Seq(Nat))
      BY <1>2
    <3> HIDE DEF e
    <3> QED
      BY ONLY <2>3, <2>4, <2>5, <3>1, PiecesInOrder, f \in Seq(Nat),
              \A i \in 1..Len(f), j \in 1..Len(f) : i < j => f[i] < f[j]
  <2>7. C \in Seq(Seq(Nat)) /\ \A k \in 1..Len(C) : \A i \in 1..Len(C[k]) : \E j \in 1..Len(f) : C[k][i] = f[j]
    BY <1>2, <2>6
  <2> QED
    BY <2>1, <2>6, <2>7
<1>8. ASSUME r # <<>>
      PROVE  /\ ls \in Seq(Seq(Nat)) /\ Increasing(ls)
             /\ \A k \in 1..Len(ls) : \A i \in 1..Len(ls[k]) : \E j \in 1..Len(f) : ls[k][i] = f[j]
  <2> DEFINE dut == [k \in 0..n + 1 |-> IF k = n + 1 THEN e ELSE cut[k]]
  <2>1. C \in Seq(Seq(Nat)) /\ <<r>> \in Seq(Seq(Nat)) /\ Len(<<r>>) = 1 /\ <<r>>[1] = r
    BY <1>2, <1>6
  <2>2. /\ C \o <<r>> \in Seq(Seq(Nat)) /\ Len(C \o <<r>>) = Len(C) + 1
        /\ \A k \in 1..Len(C) + 1 : (C \o <<r>>)[k] = IF k <= Len(C) THEN C[k] ELSE <<r>>[k - Len(C)]
    <3>1. /\ C \o <<r>> \in Seq(Seq(Nat)) /\ Len(C \o <<r>>) = Len(C) + Len(<<r>>)
          /\ \A k \in 1..Len(C) + Len(<<r>>) : (C \o <<r>>)[k] = IF k <= Len(C) THEN C[k] ELSE <<r>>[k - Len(C)]
      BY ONLY <2>1, ConcatProperties
    <3> QED
      BY <2>1, <3>1
  <2>3. /\ ls \in Seq(Seq(Nat)) /\ Len(ls) = n + 1 /\ \A k \in 1..n : ls[k] = C[k]
        /\ ls[n + 1] = r
    BY <1>3, <1>5, <1>8, <2>1, <2>2 DEF n
  <2>4. /\ dut \in [0..n + 1 -> 0..e] /\ dut[n + 1] = e /\ \A k \in 0..n : dut[k] = cut[k]
    BY <1>1, <1>5 DEF n
  <2>5. \A k \in 0..n : cut[k] \in 0..e
    BY DEF n
  <2> HIDE DEF dut
  <2>6. ASSUME NEW k \in 1..n + 1
        PROVE  dut[k - 1] + Len(ls[k]) <= dut[k] /\ \A i \in 1..Len(ls[k]) : ls[k][i] = f[dut[k - 1] + i]
    <3>1. CASE k = n + 1
      <4>1. k - 1 = n /\ ls[k] = r /\ dut[k] = e /\ dut[k - 1] = c
        BY <1>5, <2>3, <2>4, <3>1 DEF c
      <4>2. c + Len(r) <= e
        BY <1>1, <1>5, <1>6
      <4> HIDE DEF e
      <4> QED
        BY <1>6, <4>1, <4>2
    <3>2. CASE k # n + 1
      <4>1. k \in 1..n /\ k \in 0..n /\ k - 1 \in 0..n
        BY <1>5, <3>2
      <4>2. ls[k] = C[k] /\ dut[k] = cut[k] /\ dut[k - 1] = cut[k - 1] /\ cut[k] \in 0..e /\ cut[k - 1] \in 0..e
        BY <2>3, <2>4, <2>5, <4>1
      <4>3. Len(C[k]) = cut[k] - cut[k - 1] /\ \A i \in 1..cut[k] - cut[k - 1] : C[k][i] = f[cut[k - 1] + i]
        BY <1>4, <4>1 DEF n
      <4> HIDE DEF e
      <4>4. cut[k - 1] + Len(C[k]) <= cut[k]
        BY <1>1, <4>2, <4>3
      <4> QED
        BY <4>2, <4>3, <4>4
    <3> QED
      BY <3>1, <3>2
  <2>7. ASSUME NEW k \in 0..n + 1, NEW m \in 0..n + 1, k < m PROVE dut[k] <= dut[m]
    <3>1. CASE m = n + 1
      <4>1. dut[k] \in 0..e /\ dut[m] = e
        BY <2>4, <3>1
      <4> QED
        BY <1>1, <4>1
    <3>2. CASE m # n + 1
      <4>1. k \in 0..n /\ m \in 0..n
        BY <1>5, <2>7, <3>2
      <4>2. cut[k] < cut[m] /\ cut[k] \in 0..e /\ cut[m] \in 0..e
        BY <1>4, <2>5, <2>7, <4>1 DEF n
      <4>3. dut[k] = cut[k] /\ dut[m] = cut[m]
        BY <2>4, <4>1
      <4> QED
        BY <1>1, <4>2, <4>3
    <3> QED
      BY <3>1, <3>2
  <2>8. dut \in [0..Len(ls) -> 0..Len(f)]
    BY <2>3, <2>4
  <2>9. /\ Increasing(ls)
        /\ \A k \in 1..Len(ls) : \A i \in 1..Len(ls[k]) :
              \E j \in 1..Len(f) : dut[0] < j /\ j <= dut[Len(ls)] /\ ls[k][i] = f[j]
    <3>1. \A k \in 1..Len(ls) : dut[k - 1] + Len(ls[k]) <= dut[k] /\ \A i \in 1..Len(ls[k]) : ls[k][i] = f[dut[k - 1] + i]
      BY <2>3, <2>6
    <3>2. \A k \in 0..Len(ls), m \in 0..Len(ls) : k < m => dut[k] <= dut[m]
      BY <2>3, <2>7
    <3> HIDE DEF e
    <3>3. ls \in Seq(Seq(Nat))
      BY <2>3
    <3> QED
      BY ONLY <2>8, <3>1, <3>2, <3>3, PiecesInOrder, f \in Seq(Nat),
              \A i \in 1..Len(f), j \in 1..Len(f) : i < j => f[i] < f[j]
  <2> QED
    BY <2>3, <2>9, Zenon
<1>9. ls \in Seq(Seq(Nat)) /\ Increasing(ls) /\ MadeOf(ls, f)
  BY <1>7, <1>8, Zenon DEF MadeOf
<1> QED
  BY <1>9 DEF ls

LEMMA LastInOrder ==
    ASSUME NEW n \in Nat, NEW ls \in Seq(Seq(Nat)), Increasing(ls)
    PROVE  /\ LastOf(n, ls) \in Seq(Seq(Nat)) /\ Increasing(LastOf(n, ls)) /\ SomeOf(LastOf(n, ls), ls)
<1> DEFINE us == LastOf(n, ls)
<1>1. /\ us \in Seq(Seq(Nat)) /\ Len(ls) \in Nat /\ Len(us) \in Nat
      /\ Len(ls) >= n => Len(us) = n /\ \A i \in 1..n : us[i] = ls[Len(ls) - n + i]
      /\ Len(ls) <= n => us = ls
  <2>1. /\ LastOf(n, ls) \in Seq(Seq(Nat))
        /\ Len(ls) >= n =>
              /\ Len(LastOf(n, ls)) = n
              /\ \A i \in 1..n : LastOf(n, ls)[i] = ls[Len(ls) - n + i]
        /\ Len(ls) <= n => LastOf(n, ls) = ls
    BY ONLY LastOfFacts, n \in Nat, ls \in Seq(Seq(Nat))
  <2>2. us \in Seq(Seq(Nat))
    BY <2>1
  <2>3. Len(ls) \in Nat /\ Len(us) \in Nat
    BY <2>2
  <2> QED
    BY <2>1, <2>2, <2>3, Zenon
<1> HIDE DEF us
<1>2. ASSUME Len(ls) <= n PROVE us \in Seq(Seq(Nat)) /\ Increasing(us) /\ SomeOf(us, ls)
  BY <1>1, <1>2 DEF SomeOf
<1>3. ASSUME n < Len(ls) PROVE us \in Seq(Seq(Nat)) /\ Increasing(us) /\ SomeOf(us, ls)
  <2> DEFINE d == Len(ls) - n
  <2>1. d \in Nat /\ Len(us) = n /\ Len(ls) = d + n /\ \A i \in 1..n : us[i] = ls[d + i] /\ d + i \in 1..Len(ls)
    BY <1>1, <1>3
  <2> HIDE DEF d
  <2>2. ASSUME NEW k \in 1..Len(us), NEW i \in 1..Len(us[k]) - 1 PROVE us[k][i] < us[k][i + 1]
    BY <2>1 DEF Increasing
  <2>3. ASSUME NEW k \in 1..Len(us), NEW m \in 1..Len(us), k < m, NEW i \in 1..Len(us[k]), NEW j \in 1..Len(us[m])
        PROVE  us[k][i] < us[m][j]
    <3>1. d + k \in 1..Len(ls) /\ d + m \in 1..Len(ls) /\ us[k] = ls[d + k] /\ us[m] = ls[d + m]
      BY <2>1
    <3>2. d + k < d + m
      BY <2>1, <2>3
    <3> QED
      BY <3>1, <3>2 DEF Increasing
  <2>4. Increasing(us)
    BY <2>2, <2>3 DEF Increasing
  <2>5. SomeOf(us, ls)
    BY <2>1 DEF SomeOf
  <2> QED
    BY <1>1, <2>4, <2>5
<1>4. us \in Seq(Seq(Nat)) /\ Increasing(us) /\ SomeOf(us, ls)
  BY <1>1, <1>2, <1>3
<1> QED
  BY <1>4 DEF us

-----------------------------------------------------------------------------
(* Steps of the host: the follower knows nothing of what is written later *)

LEMMA ShownTypes ==
    ASSUME FollowTypes
    PROVE  /\ Yielded \in Seq(Seq(Nat)) /\ Shown \in Seq(Seq(Nat))
           /\ Len(Yielded) = Len(lines) + Len(ready) /\ Len(Shown) = Len(backfill) + Len(Yielded)
           /\ Len(lines) \in Nat /\ Len(ready) \in Nat /\ Len(backfill) \in Nat
           /\ \A k \in 1..Len(backfill) + Len(Yielded) : Shown[k] =
                 IF k <= Len(backfill) THEN backfill[k] ELSE Yielded[k - Len(backfill)]
           /\ \A k \in 1..Len(lines) + Len(ready) : Yielded[k] =
                 IF k <= Len(lines) THEN lines[k] ELSE ready[k - Len(lines)]
<1>1. ready \in Seq(Seq(Nat)) /\ backfill \in Seq(Seq(Nat)) /\ lines \in Seq(Seq(Nat))
  BY DEF FollowTypes
<1>2. /\ lines \o ready \in Seq(Seq(Nat)) /\ Len(lines \o ready) = Len(lines) + Len(ready)
      /\ \A k \in 1..Len(lines) + Len(ready) : (lines \o ready)[k] =
            IF k <= Len(lines) THEN lines[k] ELSE ready[k - Len(lines)]
  BY ONLY <1>1, ConcatProperties
<1>3. Yielded \in Seq(Seq(Nat))
  BY <1>2 DEF Yielded
<1>4. /\ backfill \o Yielded \in Seq(Seq(Nat)) /\ Len(backfill \o Yielded) = Len(backfill) + Len(Yielded)
      /\ \A k \in 1..Len(backfill) + Len(Yielded) : (backfill \o Yielded)[k] =
            IF k <= Len(backfill) THEN backfill[k] ELSE Yielded[k - Len(backfill)]
  BY ONLY <1>1, <1>3, ConcatProperties
<1>5. Shown = backfill \o Yielded /\ Yielded = lines \o ready
  BY DEF Shown, Yielded
<1>6. Len(lines) \in Nat /\ Len(ready) \in Nat /\ Len(backfill) \in Nat
  BY <1>1
<1> HIDE DEF Shown, Yielded
<1> QED
  BY <1>2, <1>4, <1>5, <1>6

\* Everything that lines say of a sequence and the places of its newlines.
LinesAt(s, B) ==
    LET cut(k) == CHOOSE c \in {0} \cup B : Cardinality({b \in B : b <= c}) = k
        rest == SubSeq(s, cut(Cardinality(B)) + 1, Len(s))
    IN  [k \in 1..Cardinality(B) |-> SubSeq(s, cut(k - 1) + 1, cut(k))]
            \o (IF rest = <<>> THEN <<>> ELSE <<rest>>)

\* The follower knows nothing that was written later.
LEMMA NothingNewKnown ==
    ASSUME FollowTypeInv, UNCHANGED <<tailVars, source>>, written' \in Nat, written <= written',
           \A b \in 1..written : b \in breaks' <=> b \in breaks,
           \A b \in 1..written : b \in starts' <=> b \in starts
    PROVE  /\ PlaceInv' /\ (LinesInv => LinesInv') /\ (BackfillInv => BackfillInv')
           /\ Shown' = Shown /\ Yielded' = Yielded /\ (Following <=> Following')
           /\ Old(pending)' /\ Old(corpus)' /\ (BreaksIn(pending) = {})'
           /\ \A k \in 1..Len(Shown') : Old(Shown[k])'
<1> USE DEF FollowTypeInv
<1>1. /\ lines' = lines /\ ready' = ready /\ backfill' = backfill /\ pending' = pending
      /\ corpus' = corpus /\ place' = place /\ fd' = fd /\ pos' = pos /\ proc' = proc /\ source' = source
  BY DEF tailVars
<1>2. PlaceInv'
  BY <1>1 DEF PlaceInv
<1>3. Yielded' = Yielded /\ Shown' = Shown /\ (Following <=> Following')
  BY <1>1 DEF Yielded, Shown, Following
<1>4. written \in Nat
  BY DEF FollowTypes
<1>5. /\ Old(pending) /\ Old(corpus) /\ BreaksIn(pending) = {}
      /\ \A k \in 1..Len(Shown) : Old(Shown[k])
  BY DEF FollowBounds
<1>6. ASSUME NEW s, Old(s) PROVE \A i \in 1..Len(s) : s[i] \in 1..written'
  BY <1>4, <1>6 DEF Old
<1>7. Old(pending)' /\ Old(corpus)' /\ (\A k \in 1..Len(Shown') : Old(Shown[k])')
  BY <1>1, <1>3, <1>5, <1>6 DEF Old
<1>8. (BreaksIn(pending) = {})'
  <2>1. \A i \in 1..Len(pending) : pending[i] \notin breaks /\ pending[i] \in 1..written
    BY <1>5 DEF Old, BreaksIn
  <2>2. \A i \in 1..Len(pending) : pending[i] \notin breaks'
    BY <2>1
  <2> QED
    BY <1>1, <2>2 DEF BreaksIn
<1>11. /\ Len(Shown) = Len(backfill) + Len(Yielded) /\ Len(backfill) \in Nat /\ Len(Yielded) \in Nat
       /\ \A j \in 1..Len(backfill) + Len(Yielded) : Shown[j] =
             IF j <= Len(backfill) THEN backfill[j] ELSE Yielded[j - Len(backfill)]
  <2>1. FollowTypes
    OBVIOUS
  <2>2. Len(Yielded) = Len(lines) + Len(ready)
    BY <2>1, ShownTypes
  <2> QED
    BY <2>1, <2>2, ShownTypes
<1>9. ASSUME LinesInv PROVE LinesInv'
  <2>1. Increasing(Shown)'
    BY <1>3, <1>9 DEF LinesInv, Increasing
  <2>2. ASSUME NEW k \in 1..Len(Yielded) PROVE IsLine(Yielded[k], k = 1)'
    <3> DEFINE l == Yielded[k]
    <3>1. IsLine(l, k = 1)
      BY <1>9 DEF LinesInv
    <3>2. \A i \in 1..Len(l) : l[i] \in 1..written
      <4>1. /\ Len(Shown) = Len(backfill) + Len(Yielded) /\ Len(backfill) \in Nat /\ Len(Yielded) \in Nat
            /\ \A j \in 1..Len(backfill) + Len(Yielded) : Shown[j] =
                  IF j <= Len(backfill) THEN backfill[j] ELSE Yielded[j - Len(backfill)]
        BY <1>11
      <4>2. Len(backfill) + k \in 1..Len(Shown) /\ Shown[Len(backfill) + k] = l
        BY <4>1
      <4> QED
        BY <4>2, <1>5 DEF Old
    <3>3. breaks \subseteq breaks' /\ starts \subseteq starts'
      BY DEF FollowTypes
    <3>4. l' = l
      BY <1>3
    <3> HIDE DEF l
    <3>5. /\ \A i \in 1..Len(l) : l[i] = l[1] + i - 1 /\ (l[i] \in breaks' <=> i = Len(l))
          /\ \A i \in 2..Len(l) : l[i] \notin starts'
          /\ k = 1 \/ l[1] \in starts' \/ l[1] - 1 \in breaks'
      <4>1. \A i \in 2..Len(l) : i \in 1..Len(l)
        OBVIOUS
      <4> QED
        BY <3>1, <3>2, <3>3, <4>1 DEF IsLine
    <3>6. IsLine(l, k = 1)'
      BY <3>4, <3>5 DEF IsLine
    <3> QED
      BY <3>6 DEF l
  <2> QED
    BY <1>3, <2>1, <2>2 DEF LinesInv
<1>10. ASSUME BackfillInv PROVE BackfillInv'
  <2>1. BreaksIn(corpus)' = BreaksIn(corpus)
    <3>1. \A i \in 1..Len(corpus) : corpus[i] \in breaks' <=> corpus[i] \in breaks
      BY <1>5 DEF Old
    <3> QED
      BY <1>1, <3>1 DEF BreaksIn
  <2>2. Lines(corpus)' = LinesAt(corpus', BreaksIn(corpus)')
    BY DEF Lines, LinesAt, Complete, Rest, Newlines, Cut
  <2>3. Lines(corpus) = LinesAt(corpus, BreaksIn(corpus))
    BY DEF Lines, LinesAt, Complete, Rest, Newlines, Cut
  <2>4. Lines(corpus)' = Lines(corpus)
    BY <1>1, <2>1, <2>2, <2>3
  <2> QED
    BY <1>1, <1>10, <2>4 DEF BackfillInv
<1> QED
  BY <1>2, <1>3, <1>7, <1>8, <1>9, <1>10

\* What the host may have done when it made a step.
LEMMA HostOnlyAppends ==
    ASSUME FollowTypeInv, Host
    PROVE  /\ UNCHANGED <<tailVars, source>> /\ written' \in Nat /\ written <= written'
           /\ \A b \in 1..written : b \in breaks' <=> b \in breaks
           /\ \A b \in 1..written : b \in starts' <=> b \in starts
           /\ FollowTypes' /\ \A f \in Inodes : Old(disk[f])'
<1> USE DEF FollowTypeInv
<1>1. FollowTypes /\ \A f \in Inodes : Old(disk[f])
  BY DEF FollowBounds
<1>2. written \in Nat /\ breaks \subseteq 1..written /\ starts \subseteq 1..written /\ disk \in [Inodes -> Seq(Nat)]
  BY <1>1 DEF FollowTypes
<1>3. ASSUME NEW isBreak \in BOOLEAN, Write(isBreak)
      PROVE  /\ UNCHANGED <<tailVars, source>> /\ written' \in Nat /\ written <= written'
             /\ \A b \in 1..written : b \in breaks' <=> b \in breaks
             /\ \A b \in 1..written : b \in starts' <=> b \in starts
             /\ FollowTypes' /\ \A f \in Inodes : Old(disk[f])'
  <2>1. /\ UNCHANGED <<tailVars, source, path>> /\ UNCHANGED writer /\ written' = written + 1
        /\ disk' = [disk EXCEPT ![writer] = Append(disk[writer], written')]
        /\ breaks' = (IF isBreak THEN breaks \cup {written'} ELSE breaks)
        /\ starts' = (IF disk[writer] = <<>> THEN starts \cup {written'} ELSE starts)
    BY <1>3 DEF Write
  <2>2. written' \in Nat /\ breaks' \subseteq 1..written' /\ starts' \subseteq 1..written'
    BY <1>2, <2>1
  <2>3. \A b \in 1..written : (b \in breaks' <=> b \in breaks) /\ (b \in starts' <=> b \in starts)
    BY <1>2, <2>1
  <2>4. writer \in Inodes /\ disk[writer] \in Seq(Nat) /\ written' \in Nat
    BY <1>1, <1>2, <2>2 DEF FollowTypes
  <2>5. /\ Append(disk[writer], written') \in Seq(Nat) /\ Len(Append(disk[writer], written')) = Len(disk[writer]) + 1
        /\ \A i \in 1..Len(disk[writer]) : Append(disk[writer], written')[i] = disk[writer][i]
        /\ Append(disk[writer], written')[Len(disk[writer]) + 1] = written'
    BY <2>4, AppendProperties
  <2>6. disk' \in [Inodes -> Seq(Nat)]
    BY <1>2, <2>1, <2>5
  <2>7. FollowTypes'
    BY <1>1, <2>1, <2>2, <2>6 DEF FollowTypes, tailVars
  <2>8. ASSUME NEW f \in Inodes, NEW i \in 1..Len(disk'[f]) PROVE disk'[f][i] \in 1..written'
    <3>1. CASE f = writer
      <4>1. disk'[f] = Append(disk[writer], written') /\ Len(disk[writer]) \in Nat
        BY <1>2, <2>1, <2>4, <3>1
      <4>2. i \in 1..Len(disk[writer]) => disk[writer][i] \in 1..written
        BY <1>1, <2>4 DEF Old
      <4>3. i \in 1..Len(disk[writer]) \/ i = Len(disk[writer]) + 1
        BY <4>1, <2>5
      <4>4. CASE i \in 1..Len(disk[writer])
        <5>1. disk'[f][i] = disk[writer][i] /\ disk[writer][i] \in 1..written
          BY <2>5, <4>1, <4>2, <4>4
        <5> QED
          BY <5>1, <1>2, <2>1
      <4>5. CASE i = Len(disk[writer]) + 1
        <5>1. disk'[f][i] = written'
          BY <2>5, <4>1, <4>5
        <5> QED
          BY <5>1, <1>2, <2>1
      <4> QED
        BY <4>3, <4>4, <4>5
    <3>2. CASE f # writer
      <4>1. disk'[f] = disk[f]
        BY <1>2, <2>1, <3>2
      <4>2. disk[f][i] \in 1..written
        BY <1>1, <4>1 DEF Old
      <4> QED
        BY <1>2, <2>1, <4>1, <4>2
    <3> QED
      BY <3>1, <3>2
  <2> QED
    BY <1>2, <2>1, <2>2, <2>3, <2>7, <2>8 DEF Old
<1>4. CASE Rename \/ Reopen
  <2>1. /\ UNCHANGED <<tailVars, source, disk, written, breaks, starts>>
        /\ path' \in Inodes \cup {Nowhere} /\ writer' \in Inodes
    BY <1>1, <1>4 DEF Rename, Reopen, FollowTypes
  <2>2. FollowTypes'
    BY <1>1, <2>1 DEF FollowTypes, tailVars
  <2> QED
    BY <1>1, <1>2, <2>1, <2>2 DEF Old
<1>5. CASE Create \/ Truncate
  <2>1. /\ UNCHANGED <<tailVars, source, written, breaks, starts, writer>>
        /\ path' \in Inodes \cup {Nowhere} /\ path' \in Inodes
        /\ disk' = [disk EXCEPT ![path'] = <<>>]
    BY <1>1, <1>5 DEF Create, Truncate, FollowTypes
  <2>2. disk' \in [Inodes -> Seq(Nat)]
    BY <1>2, <2>1
  <2>3. FollowTypes'
    BY <1>1, <2>1, <2>2 DEF FollowTypes, tailVars
  <2>4. ASSUME NEW f \in Inodes, NEW i \in 1..Len(disk'[f]) PROVE disk'[f][i] \in 1..written'
    <3>1. disk'[f] = IF f = path' THEN <<>> ELSE disk[f]
      BY <1>2, <2>1
    <3> QED
      BY <1>1, <2>1, <3>1 DEF Old
  <2> QED
    BY <1>2, <2>1, <2>3, <2>4 DEF Old
<1> QED
  BY <1>3, <1>4, <1>5 DEF Host

LEMMA HostKeepsTypes ==
    ASSUME FollowTypeInv, Host
    PROVE  FollowTypeInv'
<1>1. PlaceInv'
  BY HostOnlyAppends, NothingNewKnown
<1>2. FollowBounds'
  BY HostOnlyAppends, NothingNewKnown DEF FollowBounds
<1> QED
  BY <1>1, <1>2, HostOnlyAppends DEF FollowTypeInv

\* What appending or emptying does to the contents of the files.
LEMMA WriteDisk ==
    ASSUME FollowTypeInv, NEW isBreak \in BOOLEAN, Write(isBreak)
    PROVE  /\ written \in Nat /\ written' = written + 1 /\ UNCHANGED <<path, tailVars>> /\ UNCHANGED writer
           /\ breaks \subseteq breaks'
           /\ starts' = (IF disk[writer] = <<>> THEN starts \cup {written'} ELSE starts)
           /\ writer \in Inodes /\ disk[writer] \in Seq(Nat) /\ disk'[writer] \in Seq(Nat)
           /\ Len(disk'[writer]) = Len(disk[writer]) + 1
           /\ disk'[writer][Len(disk[writer]) + 1] = written'
           /\ \A i \in 1..Len(disk[writer]) : disk'[writer][i] = disk[writer][i]
           /\ \A f \in Inodes : f # writer => disk'[f] = disk[f]
           /\ \A f \in Inodes : disk[f] \in Seq(Nat) /\ \A i \in 1..Len(disk[f]) : disk[f][i] \in 1..written
           /\ starts \subseteq 1..written
<1>1. FollowTypes /\ FollowBounds
  BY DEF FollowTypeInv
<1>2. /\ written \in Nat /\ disk \in [Inodes -> Seq(Nat)] /\ writer \in Inodes /\ starts \subseteq 1..written
  BY <1>1 DEF FollowTypes
<1>3. /\ UNCHANGED <<tailVars, path>> /\ UNCHANGED writer /\ written' = written + 1
      /\ disk' = [disk EXCEPT ![writer] = Append(disk[writer], written')]
      /\ breaks' = (IF isBreak THEN breaks \cup {written'} ELSE breaks)
      /\ starts' = (IF disk[writer] = <<>> THEN starts \cup {written'} ELSE starts)
  BY DEF Write
<1>4. disk[writer] \in Seq(Nat) /\ written' \in Nat
  BY <1>2, <1>3
<1>5. /\ Append(disk[writer], written') \in Seq(Nat) /\ Len(Append(disk[writer], written')) = Len(disk[writer]) + 1
      /\ \A i \in 1..Len(disk[writer]) : Append(disk[writer], written')[i] = disk[writer][i]
      /\ Append(disk[writer], written')[Len(disk[writer]) + 1] = written'
  BY <1>4, AppendProperties
<1>6. disk'[writer] = Append(disk[writer], written') /\ \A f \in Inodes : f # writer => disk'[f] = disk[f]
  BY <1>2, <1>3
<1>7. \A f \in Inodes : disk[f] \in Seq(Nat) /\ \A i \in 1..Len(disk[f]) : disk[f][i] \in 1..written
  BY <1>1, <1>2 DEF FollowBounds, Old
<1> QED
  BY <1>2, <1>3, <1>4, <1>5, <1>6, <1>7

LEMMA WriteKeepsDisk ==
    ASSUME FollowTypeInv, DiskInv, NEW isBreak \in BOOLEAN, Write(isBreak)
    PROVE  DiskInv'
<1> DEFINE w == disk[writer]
           v == disk'[writer]
<1>1. /\ written \in Nat /\ written' = written + 1 /\ UNCHANGED <<path>> /\ UNCHANGED writer
      /\ starts' = (IF w = <<>> THEN starts \cup {written'} ELSE starts)
      /\ writer \in Inodes /\ w \in Seq(Nat) /\ v \in Seq(Nat)
      /\ Len(v) = Len(w) + 1 /\ v[Len(w) + 1] = written'
      /\ \A i \in 1..Len(w) : v[i] = w[i]
      /\ \A f \in Inodes : f # writer => disk'[f] = disk[f]
      /\ \A f \in Inodes : disk[f] \in Seq(Nat) /\ \A i \in 1..Len(disk[f]) : disk[f][i] \in 1..written
      /\ starts \subseteq 1..written
  BY WriteDisk
<1>2. /\ \A f \in Inodes : \A j \in 1..Len(disk[f]) :
            disk[f][j] = disk[f][1] + j - 1 /\ (disk[f][j] \in starts <=> j = 1)
      /\ w # <<>> => w[Len(w)] = written
      /\ path \notin {Nowhere, writer} => disk[path] = <<>>
      /\ path # Nowhere =>
            \A f \in Inodes \ {path} : \A i \in 1..Len(disk[f]), j \in 1..Len(disk[path]) :
                disk[f][i] < disk[path][j]
  BY DEF DiskInv, Last
<1>3. path \in Inodes \cup {Nowhere}
  BY DEF FollowTypeInv, FollowTypes
<1> HIDE DEF w, v
<1>4. Len(w) \in Nat /\ (w = <<>> <=> Len(w) = 0) /\ Len(v) # 0
  BY <1>1
<1>5. \A b \in 1..written : b \in starts' <=> b \in starts
  BY <1>1
<1>6. ASSUME NEW f \in Inodes, NEW j \in 1..Len(disk'[f])
      PROVE  disk'[f][j] = disk'[f][1] + j - 1 /\ (disk'[f][j] \in starts' <=> j = 1)
  <2>1. CASE f # writer
    <3>1. disk'[f] = disk[f] /\ disk[f][j] \in 1..written
      BY <1>1, <2>1
    <3> QED
      BY <1>2, <1>5, <3>1
  <2>2. CASE f = writer
    <3>1. disk'[f] = v /\ disk[f] = w
      BY <2>2 DEF v, w
    <3>2. CASE j \in 1..Len(w)
      <4>1. 1 \in 1..Len(w) /\ v[j] = w[j] /\ v[1] = w[1] /\ w[j] \in 1..written
        BY <1>1, <1>4, <3>1, <3>2
      <4>2. w[j] = w[1] + j - 1 /\ (w[j] \in starts <=> j = 1)
        BY <1>2, <3>1, <3>2
      <4> QED
        BY <1>5, <3>1, <4>1, <4>2
    <3>3. CASE j = Len(w) + 1 /\ w = <<>>
      <4>1. j = 1 /\ v[j] = written' /\ written' \in starts'
        BY <1>1, <1>4, <3>3
      <4> QED
        BY <1>1, <3>1, <4>1
    <3>4. CASE j = Len(w) + 1 /\ w # <<>>
      <4>1. Len(w) \in 1..Len(w) /\ w[Len(w)] = written /\ 1 \in 1..Len(w)
        BY <1>2, <1>4, <3>4
      <4>2. w[Len(w)] = w[1] + Len(w) - 1 /\ v[1] = w[1] /\ w[1] \in 1..written
        BY <1>1, <1>2, <3>1, <4>1
      <4>3. v[j] = written + 1 /\ starts' = starts
        BY <1>1, <3>4
      <4>4. written + 1 \notin starts
        BY <1>1
      <4>5. written + 1 = w[1] + j - 1 /\ j # 1
        <5>1. w[1] + Len(w) - 1 = written /\ Len(w) \in Nat /\ Len(w) # 0 /\ w[1] \in Nat /\ j = Len(w) + 1
          BY <1>4, <3>4, <4>1, <4>2
        <5> QED
          BY ONLY <5>1
      <4> QED
        BY <3>1, <4>2, <4>3, <4>4, <4>5
    <3>5. j \in 1..Len(w) \/ j = Len(w) + 1
      BY <1>1, <1>4, <3>1
    <3> QED
      BY <3>2, <3>3, <3>4, <3>5
  <2> QED
    BY <2>1, <2>2
<1>7. disk'[writer'] # <<>> => Last(disk'[writer']) = written'
  <2>1. disk'[writer'] = v
    BY <1>1 DEF v
  <2> QED
    BY <1>1, <2>1 DEF Last
<1>8. path' \notin {Nowhere, writer'} => disk'[path'] = <<>>
  BY <1>1, <1>2, <1>3
<1>9. ASSUME path' # Nowhere, NEW f \in Inodes \ {path'}, NEW i \in 1..Len(disk'[f]), NEW j \in 1..Len(disk'[path'])
      PROVE  disk'[f][i] < disk'[path'][j]
  <2>1. CASE path # writer
    BY <1>1, <1>8, <1>9, <2>1
  <2>2. CASE path = writer
    <3>1. disk'[f] = disk[f] /\ disk[path] = w /\ disk'[path'] = v /\ f \in Inodes \ {path} /\ disk[f][i] \in 1..written
      BY <1>1, <1>9, <2>2 DEF v, w
    <3>2. CASE j \in 1..Len(w)
      BY <1>1, <1>2, <1>9, <3>1, <3>2
    <3>3. CASE j = Len(w) + 1
      BY <1>1, <3>1, <3>3
    <3> QED
      BY <1>1, <1>4, <3>1, <3>2, <3>3
  <2> QED
    BY <2>1, <2>2
<1> QED
  BY <1>6, <1>7, <1>8, <1>9 DEF DiskInv

LEMMA FaultKeepsDisk ==
    ASSUME FollowTypeInv, DiskInv, Rename \/ Create \/ Reopen \/ Truncate
    PROVE  DiskInv'
<1>1. /\ path \in Inodes \cup {Nowhere} /\ writer \in Inodes /\ disk \in [Inodes -> Seq(Nat)] /\ Nowhere \notin Inodes
  BY InodesAssumption DEF FollowTypeInv, FollowTypes
<1>2. /\ \A f \in Inodes : \A j \in 1..Len(disk[f]) :
            disk[f][j] = disk[f][1] + j - 1 /\ (disk[f][j] \in starts <=> j = 1)
      /\ disk[writer] # <<>> => Last(disk[writer]) = written
      /\ path \notin {Nowhere, writer} => disk[path] = <<>>
      /\ path # Nowhere =>
            \A f \in Inodes \ {path} : \A i \in 1..Len(disk[f]), j \in 1..Len(disk[path]) :
                disk[f][i] < disk[path][j]
  BY DEF DiskInv
<1>3. CASE Rename
  <2>1. path' = Nowhere /\ UNCHANGED <<disk, writer, written, starts>>
    BY <1>3 DEF Rename
  <2> QED
    BY <1>2, <2>1 DEF DiskInv
<1>4. CASE Reopen
  <2>1. writer' = path /\ path # Nowhere /\ path # writer /\ UNCHANGED <<disk, path, written, starts>>
    BY <1>4 DEF Reopen
  <2>2. disk'[writer'] = <<>> /\ path' \in {Nowhere, writer'}
    BY <1>2, <2>1
  <2> QED
    BY <1>2, <2>1, <2>2 DEF DiskInv
<1>5. CASE Create \/ Truncate
  <2>1. /\ path' \in Inodes /\ path' # Nowhere /\ disk' = [disk EXCEPT ![path'] = <<>>]
        /\ UNCHANGED <<writer, written, starts>>
    BY <1>1, <1>5 DEF Create, Truncate
  <2>2. /\ disk'[path'] = <<>> /\ Len(disk'[path']) = 0
        /\ \A f \in Inodes : f # path' => disk'[f] = disk[f]
    BY <1>1, <2>1
  <2>3. ASSUME NEW f \in Inodes, NEW j \in 1..Len(disk'[f])
        PROVE  disk'[f][j] = disk'[f][1] + j - 1 /\ (disk'[f][j] \in starts' <=> j = 1)
    <3>1. f # path'
      BY <2>2
    <3> QED
      BY <1>2, <2>1, <2>2, <3>1
  <2>4. disk'[writer'] # <<>> => Last(disk'[writer']) = written'
    BY <1>1, <1>2, <2>1, <2>2
  <2>5. \A f \in Inodes \ {path'} : \A i \in 1..Len(disk'[f]), j \in 1..Len(disk'[path']) : disk'[f][i] < disk'[path'][j]
    BY <2>2
  <2> QED
    BY <2>2, <2>3, <2>4, <2>5 DEF DiskInv
<1> QED
  BY <1>3, <1>4, <1>5

\* A file that grew and was long enough, or stays too short.
LEMMA ReadToGrows ==
    ASSUME NEW f \in Seq(Nat), NEW g \in Seq(Nat), NEW n \in Nat, NEW q \in Seq(Nat),
           NEW B, NEW C, B \subseteq C, NEW ys, NEW ss, NEW w \in Nat,
           Len(g) = Len(f) + 1, g[Len(f) + 1] = w + 1,
           \A i \in 1..Len(f) : g[i] = f[i],
           \A k \in 1..Len(ss) : \A i \in 1..Len(ss[k]) : ss[k][i] \in 1..w
    PROVE  /\ \A m \in Nat : m >= 1 /\ OlderThan(ss, f, m) => OlderThan(ss, g, m)
           /\ (Len(f) < n => Len(g) < n) /\ ReadTo(f, n, q, B, ys, ss) => ReadTo(g, n, q, C, ys, ss)
<1>1. Len(f) \in Nat /\ Len(g) \in Nat /\ Len(q) \in Nat
  OBVIOUS
<1>2. ASSUME NEW m \in Nat, m >= 1, OlderThan(ss, f, m) PROVE OlderThan(ss, g, m)
  <2>1. ASSUME NEW k \in 1..Len(ss), NEW i \in 1..Len(ss[k]), NEW j \in m..Len(g)
        PROVE  ss[k][i] < g[j]
    <3>1. CASE j = Len(f) + 1
      <4>1. g[j] = w + 1 /\ ss[k][i] \in 1..w
        BY <3>1
      <4> QED
        BY <4>1
    <3>2. CASE j # Len(f) + 1
      <4>1. j \in m..Len(f) /\ j \in 1..Len(f)
        BY <1>1, <1>2, <3>2
      <4>2. ss[k][i] < f[j] /\ g[j] = f[j]
        BY <1>2, <4>1 DEF OlderThan
      <4> QED
        BY <4>2
    <3> QED
      BY <3>1, <3>2
  <2> QED
    BY <2>1 DEF OlderThan
<1>3. ASSUME Len(f) < n => Len(g) < n, ReadTo(f, n, q, B, ys, ss) PROVE ReadTo(g, n, q, C, ys, ss)
  <2>1. CASE Len(f) < n
    <3>1. OlderThan(ss, g, 1)
      <4>1. n > Len(f)
        BY <1>1, <2>1
      <4>2. OlderThan(ss, f, 1)
        BY <1>3, <4>1 DEF ReadTo
      <4> QED
        BY <1>2, <4>2
    <3> QED
      BY <1>1, <1>3, <2>1, <3>1 DEF ReadTo
  <2>2. CASE n <= Len(f)
    <3> DEFINE b == n - Len(q)
    <3>1. /\ b >= 0 /\ q = SubSeq(f, b + 1, n)
          /\ b = 0 \/ f[b] \in B \/ ys = <<>>
          /\ OlderThan(ss, f, b + 1)
      BY <1>3, <2>2 DEF ReadTo
    <3>2. b \in Nat /\ b <= n /\ n <= Len(g) /\ ~(n > Len(g)) /\ b + 1 >= 1 /\ b + 1 \in Nat
      BY <1>1, <2>2, <3>1
    <3> HIDE DEF b
    <3>3. SubSeq(f, b + 1, n) = SubSeq(g, b + 1, n)
      <4>1. \A i \in b + 1..n : f[i] \in Nat /\ g[i] \in Nat /\ f[i] = g[i]
        <5>1. \A i \in b + 1..n : i \in 1..Len(f) /\ i \in 1..Len(g)
          BY <1>1, <2>2, <3>2
        <5> QED
          BY <5>1
      <4>2. b + 1 \in Int /\ n \in Int
        BY <3>2
      <4>3. /\ SubSeq(f, b + 1, n) \in Seq(Nat)
            /\ Len(SubSeq(f, b + 1, n)) = IF b + 1 <= n THEN n - (b + 1) + 1 ELSE 0
            /\ \A i \in 1..n - (b + 1) + 1 : SubSeq(f, b + 1, n)[i] = f[(b + 1) + i - 1]
        BY ONLY <4>1, <4>2, SubSeqProperties
      <4>4. /\ SubSeq(g, b + 1, n) \in Seq(Nat)
            /\ Len(SubSeq(g, b + 1, n)) = IF b + 1 <= n THEN n - (b + 1) + 1 ELSE 0
            /\ \A i \in 1..n - (b + 1) + 1 : SubSeq(g, b + 1, n)[i] = g[(b + 1) + i - 1]
        BY ONLY <4>1, <4>2, SubSeqProperties
      <4>5. ASSUME NEW i \in 1..Len(SubSeq(f, b + 1, n)) PROVE SubSeq(f, b + 1, n)[i] = SubSeq(g, b + 1, n)[i]
        <5> DEFINE l == Len(SubSeq(f, b + 1, n))
        <5>2. i \in 1..l /\ b \in Nat /\ n \in Nat /\ b <= n
          BY <3>2
        <5>3. l = IF b + 1 <= n THEN n - (b + 1) + 1 ELSE 0
          BY <4>3
        <5> HIDE DEF l
        <5>1. i \in 1..n - (b + 1) + 1 /\ (b + 1) + i - 1 \in b + 1..n
          BY ONLY <5>2, <5>3
        <5> QED
          BY <4>1, <4>3, <4>4, <5>1
      <4> QED
        BY <4>3, <4>4, <4>5, SeqEqual
    <3>4. b = 0 \/ g[b] \in C \/ ys = <<>>
      <4>1. b = 0 \/ b \in 1..Len(f)
        BY <1>1, <2>2, <3>2
      <4> QED
        BY <3>1, <4>1
    <3>5. OlderThan(ss, g, b + 1)
      BY <1>2, <3>1, <3>2
    <3> QED
      BY <3>1, <3>2, <3>3, <3>4, <3>5 DEF ReadTo, b
  <2> QED
    BY <1>1, <2>1, <2>2
<1> QED
  BY <1>2, <1>3

\* Appending to the file the follower reads; unless it regrows, an emptied file
\* stays shorter than what was read.
LEMMA WriteKeepsFile ==
    ASSUME FollowTypeInv, FileInv, NextInv, ~Regrows, NEW isBreak \in BOOLEAN, Write(isBreak)
    PROVE  FileInv' /\ NextInv'
<1> DEFINE w == disk[writer]
           v == disk'[writer]
<1>1. /\ written \in Nat /\ written' = written + 1 /\ UNCHANGED <<path, tailVars>> /\ UNCHANGED writer
      /\ breaks \subseteq breaks'
      /\ writer \in Inodes /\ w \in Seq(Nat) /\ v \in Seq(Nat)
      /\ Len(v) = Len(w) + 1 /\ v[Len(w) + 1] = written'
      /\ \A i \in 1..Len(w) : v[i] = w[i]
      /\ \A f \in Inodes : f # writer => disk'[f] = disk[f]
  BY WriteDisk
<1>2. /\ fd' = fd /\ pos' = pos /\ pending' = pending /\ Yielded' = Yielded /\ Shown' = Shown
      /\ Following' = Following
  BY <1>1 DEF tailVars, Yielded, Shown, Following
<1>3. /\ path \in Inodes \cup {Nowhere} /\ fd \in Inodes \cup {Nowhere} /\ pos \in Nat
      /\ pending \in Seq(Nat) /\ Len(w) \in Nat /\ Len(pending) \in Nat
  <2>1. pending \in Seq(Nat)
    BY DEF FollowTypeInv, FollowTypes
  <2> QED
    BY <1>1, <2>1 DEF FollowTypeInv, FollowTypes
<1>4. \A k \in 1..Len(Shown) : \A i \in 1..Len(Shown[k]) : Shown[k][i] \in 1..written
  BY DEF FollowTypeInv, FollowBounds, Old
<1>5. writer = fd /\ Len(w) < pos => Len(w) + 1 < pos
  BY DEF Write
<1>6. /\ \A m \in Nat : m >= 1 /\ OlderThan(Shown, w, m) => OlderThan(Shown, v, m)
      /\ (Len(w) < pos => Len(v) < pos) /\ ReadTo(w, pos, pending, breaks, Yielded, Shown)
            => ReadTo(v, pos, pending, breaks', Yielded, Shown)
  <2> HIDE DEF w, v
  <2> QED
    BY <1>1, <1>3, <1>4, ReadToGrows
<1>7. NextInv'
  <2> SUFFICES ASSUME Following, path # Nowhere, path # fd PROVE OlderThan(Shown, disk'[path], 1)
    BY <1>1, <1>2 DEF NextInv, OlderThan
  <2>1. OlderThan(Shown, disk[path], 1)
    BY DEF NextInv
  <2>2. CASE path = writer
    BY <1>6, <2>1, <2>2
  <2>3. CASE path # writer
    <3>1. disk'[path] = disk[path]
      BY <1>1, <1>3, <2>3
    <3> QED
      BY <2>1, <3>1
  <2> QED
    BY <2>2, <2>3
<1>8. FileInv'
  <2> SUFFICES ASSUME Following, fd # Nowhere PROVE ReadTo(disk'[fd], pos, pending, breaks', Yielded, Shown)
    BY <1>2 DEF FileInv, ReadTo, OlderThan
  <2>1. ReadTo(disk[fd], pos, pending, breaks, Yielded, Shown)
    BY DEF FileInv
  <2>2. CASE fd # writer
    <3>1. disk'[fd] = disk[fd]
      BY <1>1, <1>3, <2>2
    <3> QED
      BY <1>1, <2>1, <3>1 DEF ReadTo
  <2>3. CASE fd = writer
    <3>1. Len(w) < pos => Len(v) < pos
      BY <1>1, <1>5, <2>3
    <3> QED
      BY <1>6, <2>1, <2>3, <3>1
  <2> QED
    BY <2>2, <2>3
<1> QED
  BY <1>7, <1>8

LEMMA FaultKeepsFile ==
    ASSUME FollowTypeInv, FileInv, NextInv, Rename \/ Create \/ Reopen \/ Truncate
    PROVE  FileInv' /\ NextInv'
<1>1. /\ path \in Inodes \cup {Nowhere} /\ fd \in Inodes \cup {Nowhere} /\ pos \in Nat
      /\ pending \in Seq(Nat) /\ disk \in [Inodes -> Seq(Nat)] /\ Nowhere \notin Inodes
  BY InodesAssumption DEF FollowTypeInv, FollowTypes
<1>2. UNCHANGED <<tailVars, breaks>>
  BY DEF Rename, Create, Reopen, Truncate
<1>3. /\ fd' = fd /\ pos' = pos /\ pending' = pending /\ Yielded' = Yielded /\ Shown' = Shown
      /\ Following' = Following /\ breaks' = breaks
  BY <1>2 DEF tailVars, Yielded, Shown, Following
<1>4. CASE Rename \/ Reopen
  <2>1. disk' = disk /\ path' \in {path, Nowhere}
    BY <1>4 DEF Rename, Reopen
  <2>2. FileInv'
    BY <1>3, <2>1 DEF FileInv, ReadTo, OlderThan
  <2>3. NextInv'
    BY <1>3, <2>1 DEF NextInv, OlderThan
  <2> QED
    BY <2>2, <2>3
<1>5. CASE Create \/ Truncate
  <2>1. /\ path' \in Inodes /\ disk' = [disk EXCEPT ![path'] = <<>>]
        /\ path' = path \/ path' # fd
    BY <1>1, <1>5 DEF Create, Truncate
  <2>2. disk'[path'] = <<>> /\ \A f \in Inodes : f # path' => disk'[f] = disk[f]
    BY <1>1, <2>1
  <2>3. NextInv'
    BY <1>3, <2>2 DEF NextInv, OlderThan
  <2>4. FileInv'
    <3> SUFFICES ASSUME Following, fd # Nowhere PROVE ReadTo(disk'[fd], pos, pending, breaks, Yielded, Shown)
      BY <1>3 DEF FileInv, ReadTo, OlderThan
    <3>1. ReadTo(disk[fd], pos, pending, breaks, Yielded, Shown)
      BY DEF FileInv
    <3>2. CASE path' # fd
      <4>1. disk'[fd] = disk[fd]
        BY <1>1, <2>2, <3>2
      <4> QED
        BY <3>1, <4>1
    <3>3. CASE path' = fd
      <4>1. disk'[fd] = <<>> /\ Len(disk[fd]) \in Nat /\ Len(pending) \in Nat
        BY <1>1, <2>2, <3>3
      <4>2. CASE pos = 0
        <5>1. 0 - Len(pending) >= 0 /\ Len(pending) = 0
          BY <1>1, <3>1, <4>1, <4>2 DEF ReadTo
        <5>2. pending = <<>>
          BY <1>1, <5>1
        <5>3. SubSeq(<<>>, 1, 0) = <<>> /\ Len(<<>>) = 0
          OBVIOUS
        <5>4. pos - Len(pending) = 0 /\ (pos - Len(pending)) + 1 = 1 /\ OlderThan(Shown, <<>>, 1)
          BY <4>1, <4>2, <5>1, <5>3 DEF OlderThan
        <5> QED
          BY <4>1, <4>2, <5>2, <5>3, <5>4 DEF ReadTo
      <4>3. CASE pos > 0
        BY <1>1, <4>1, <4>3 DEF ReadTo, OlderThan
      <4> QED
        BY <1>1, <4>2, <4>3
    <3> QED
      BY <3>2, <3>3
  <2> QED
    BY <2>3, <2>4
<1> QED
  BY <1>4, <1>5

LEMMA HostKeeps ==
    ASSUME FollowInv, ~Regrows, Host
    PROVE  FollowInv'
<1> USE DEF FollowInv
<1>1. FollowTypeInv'
  BY HostKeepsTypes
<1>2. LinesInv' /\ BackfillInv'
  BY HostOnlyAppends, NothingNewKnown
<1>3. DiskInv' /\ FileInv' /\ NextInv'
  BY WriteKeepsDisk, FaultKeepsDisk, WriteKeepsFile, FaultKeepsFile DEF Host
<1> QED
  BY <1>1, <1>2, <1>3

-----------------------------------------------------------------------------
(* Steps of the follower *)

\* Cutting a chunk makes up no bytes.
LEMMA CutBytes ==
    ASSUME NEW s \in Seq(Nat), NEW B, \A i \in 1..Len(s) : s[i] \in B
    PROVE  /\ Complete(s) \in Seq(Seq(Nat)) /\ Rest(s) \in Seq(Nat) /\ BreaksIn(Rest(s)) = {}
           /\ \A k \in 1..Len(Complete(s)) : \A i \in 1..Len(Complete(s)[k]) : Complete(s)[k][i] \in B
           /\ \A i \in 1..Len(Rest(s)) : Rest(s)[i] \in B
<1> DEFINE C == Complete(s)
           r == Rest(s)
           n == Len(C)
           e == Len(s)
<1>1. C \in Seq(Seq(Nat)) /\ n \in Nat /\ e \in Nat /\ BreaksIn(r) = {}
  BY WholeCuts
<1>2. PICK cut \in [0..n -> 0..e] : CutAt(s, s, 0, e, cut)
  BY WholeCuts
<1>3. /\ r = SubSeq(s, cut[n] + 1, e)
      /\ \A k \in 1..n : /\ Len(C[k]) = cut[k] - cut[k - 1]
                         /\ \A i \in 1..cut[k] - cut[k - 1] : C[k][i] = s[cut[k - 1] + i]
  BY <1>2, Zenon DEF CutAt
<1>4. cut[n] \in 0..e
  BY <1>1
<1> HIDE DEF C, r
<1>5. ASSUME NEW k \in 1..n, NEW i \in 1..Len(C[k]) PROVE C[k][i] \in B
  <2>1. k \in 0..n /\ k - 1 \in 0..n
    BY <1>1
  <2>2. cut[k] \in 0..e /\ cut[k - 1] \in 0..e
    BY <2>1
  <2>3. Len(C[k]) = cut[k] - cut[k - 1] /\ \A j \in 1..cut[k] - cut[k - 1] : C[k][j] = s[cut[k - 1] + j]
    BY <1>3
  <2>4. i \in 1..cut[k] - cut[k - 1] /\ C[k][i] = s[cut[k - 1] + i]
    BY <2>3
  <2>5. cut[k - 1] + i \in 1..e
    <3> DEFINE a == cut[k - 1]
               b == cut[k]
    <3>1. a \in 0..e /\ b \in 0..e /\ i \in 1..b - a /\ e \in Nat
      BY <1>1, <2>2, <2>4
    <3> HIDE DEF a, b, e
    <3>2. a + i \in 1..e
      BY ONLY <3>1
    <3> QED
      BY <3>2 DEF a
  <2> QED
    BY <2>4, <2>5
<1>6. r \in Seq(Nat) /\ \A i \in 1..Len(r) : r[i] \in B
  <2> DEFINE c == cut[n]
  <2>1. c \in 0..e /\ e \in Nat
    BY <1>1, <1>4
  <2>2. r = SubSeq(s, c + 1, e)
    BY <1>3
  <2> HIDE DEF c
  <2>3. c + 1 \in Int /\ e \in Int /\ \A i \in c + 1..e : s[i] \in Nat
    BY <2>1
  <2>4. /\ SubSeq(s, c + 1, e) \in Seq(Nat)
        /\ Len(SubSeq(s, c + 1, e)) = IF c + 1 <= e THEN e - (c + 1) + 1 ELSE 0
        /\ \A i \in 1..e - (c + 1) + 1 : SubSeq(s, c + 1, e)[i] = s[(c + 1) + i - 1]
    <3> HIDE DEF e
    <3> QED
      BY ONLY <2>3, SubSeqProperties
  <2>5. ASSUME NEW i \in 1..Len(r) PROVE r[i] \in B
    <3>1. i \in 1..e - (c + 1) + 1 /\ (c + 1) + i - 1 \in 1..e
      BY <2>1, <2>2, <2>4
    <3> QED
      BY <2>2, <2>4, <3>1
  <2> QED
    BY <2>2, <2>4, <2>5
<1> QED
  BY <1>1, <1>5, <1>6 DEF C, r

\* The bytes of a log increase from one to the next.
LEMMA LogIncreases ==
    ASSUME FollowTypeInv, DiskInv, NEW f \in Inodes
    PROVE  /\ disk[f] \in Seq(Nat) /\ \A i \in 1..Len(disk[f]) : disk[f][i] \in 1..written
           /\ \A i \in 1..Len(disk[f]), j \in 1..Len(disk[f]) : i < j => disk[f][i] < disk[f][j]
<1>1. disk[f] \in Seq(Nat) /\ \A i \in 1..Len(disk[f]) : disk[f][i] \in 1..written
  BY DEF FollowTypeInv, FollowTypes, FollowBounds, Old
<1>2. \A j \in 1..Len(disk[f]) : disk[f][j] = disk[f][1] + j - 1
  BY DEF DiskInv
<1>3. ASSUME NEW i \in 1..Len(disk[f]), NEW j \in 1..Len(disk[f]), i < j PROVE disk[f][i] < disk[f][j]
  <2>1. 1 \in 1..Len(disk[f]) /\ disk[f][1] \in Nat
    BY <1>1
  <2>2. disk[f][i] = disk[f][1] + i - 1 /\ disk[f][j] = disk[f][1] + j - 1
    BY <1>2
  <2> QED
    BY <1>3, <2>1, <2>2
<1> QED
  BY <1>1, <1>3

\* What is in the backfill: the last lines of the log, in order.
LEMMA BackfillRead ==
    ASSUME FollowTypeInv, DiskInv, ReadTail
    PROVE  /\ path \in Inodes /\ corpus' = disk[path]
           /\ backfill' = LastOf(BackfillLines, Lines(disk[path]))
           /\ backfill' \in Seq(Seq(Nat)) /\ Increasing(backfill')
           /\ \A k \in 1..Len(backfill') : \A i \in 1..Len(backfill'[k]) : backfill'[k][i] \in 1..written
<1>1. /\ path \in Inodes /\ disk[path] \in Seq(Nat) /\ corpus' = disk[path]
      /\ backfill' = ReadLastLines(disk[path])
      /\ \A i \in 1..Len(disk[path]) : disk[path][i] \in 1..written
      /\ \A i \in 1..Len(disk[path]), j \in 1..Len(disk[path]) : i < j => disk[path][i] < disk[path][j]
  <2>1. path \in Inodes /\ corpus' = disk[path] /\ backfill' = ReadLastLines(disk[path])
    BY DEF FollowTypeInv, FollowTypes, ReadTail
  <2> QED
    BY <2>1, LogIncreases
<1>2. backfill' = LastOf(BackfillLines, Lines(disk[path]))
  BY <1>1, BackfillIsLastLines
<1> DEFINE f == disk[path]
           ls == Lines(f)
           us == LastOf(BackfillLines, ls)
<1>3. /\ f \in Seq(Nat) /\ \A i \in 1..Len(f) : f[i] \in 1..written
      /\ \A i \in 1..Len(f), j \in 1..Len(f) : i < j => f[i] < f[j]
  BY <1>1
<1>4. ls = Lines(f)
  OBVIOUS
<1> HIDE DEF f, ls
<1>5. ls \in Seq(Seq(Nat)) /\ Increasing(ls) /\ MadeOf(ls, f)
  BY <1>3, <1>4, LinesInOrder
<1>6. BackfillLines \in Nat
  BY SizesAssumption
<1>7. us = LastOf(BackfillLines, ls)
  OBVIOUS
<1> HIDE DEF us
<1>8. us \in Seq(Seq(Nat)) /\ Increasing(us) /\ SomeOf(us, ls)
  BY <1>5, <1>6, <1>7, LastInOrder
<1>9. ASSUME NEW k \in 1..Len(us), NEW i \in 1..Len(us[k]) PROVE us[k][i] \in 1..written
  <2>1. PICK m \in 1..Len(ls) : us[k] = ls[m]
    BY <1>8 DEF SomeOf
  <2>2. PICK j \in 1..Len(f) : ls[m][i] = f[j]
    BY <1>5, <2>1 DEF MadeOf
  <2> QED
    BY <1>3, <2>1, <2>2
<1>10. backfill' = us
  BY <1>2 DEF us, ls, f
<1> QED
  BY <1>1, <1>2, <1>8, <1>9, <1>10

\* A line that is sent was yielded before.
LEMMA SendMoves ==
    ASSUME FollowTypeInv, Send
    PROVE  /\ lines' \in Seq(Seq(Nat)) /\ ready' \in Seq(Seq(Nat))
           /\ Yielded' = Yielded /\ Shown' = Shown
<1>1. lines \in Seq(Seq(Nat)) /\ ready \in Seq(Seq(Nat)) /\ ready # <<>>
  BY DEF FollowTypeInv, FollowTypes, PlaceInv, Send
<1>2. lines' = Append(lines, Head(ready)) /\ ready' = Tail(ready) /\ backfill' = backfill
  BY DEF Send
<1>3. Head(ready) \in Seq(Nat) /\ Tail(ready) \in Seq(Seq(Nat)) /\ ready = <<Head(ready)>> \o Tail(ready)
  BY <1>1
<1>4. Append(lines, Head(ready)) = lines \o <<Head(ready)>> /\ Append(lines, Head(ready)) \in Seq(Seq(Nat))
  BY <1>1, <1>3
<1>5. <<Head(ready)>> \in Seq(Seq(Nat))
  BY <1>3
<1>6. (lines \o <<Head(ready)>>) \o Tail(ready) = lines \o (<<Head(ready)>> \o Tail(ready))
  BY ONLY <1>1, <1>3, <1>5, ConcatAssociative
<1>7. lines' \o ready' = lines \o ready
  BY <1>2, <1>3, <1>4, <1>6, Zenon
<1>8. Yielded' = Yielded
  BY <1>7, Zenon DEF Yielded
<1> QED
  BY <1>2, <1>3, <1>4, <1>8 DEF Shown

\* The other steps of the follower but the reads show nothing.
LEMMA OtherSteps ==
    ASSUME FollowTypeInv,
           \/ ReadTailFails \/ Open \/ OpenFails \/ ReadNothing \/ Rotated \/ ReopenNew
           \/ Truncated \/ Unchanged \/ Nap \/ Close \/ Exits \/ Stop
    PROVE  /\ UNCHANGED <<hostVars, lines, ready, backfill, corpus>>
           /\ Yielded' = Yielded /\ Shown' = Shown
           /\ pending' \in {pending, <<>>} /\ (pos' \in Nat) /\ place' \in Places
           /\ fd' \in Inodes \cup {Nowhere} /\ PlaceInv'
<1>1. /\ UNCHANGED <<hostVars, lines, ready, backfill, corpus>> /\ pending' \in {pending, <<>>}
  BY DEF ReadTailFails, Open, OpenFails, Fails, ReadNothing, Rotated, ReopenNew, Truncated, Unchanged,
         Nap, Close, Exits, Stop
<1>2. Yielded' = Yielded /\ Shown' = Shown
  BY <1>1 DEF Yielded, Shown
<1>3. /\ disk \in [Inodes -> Seq(Nat)] /\ path \in Inodes \cup {Nowhere} /\ Nowhere \notin Inodes
      /\ fd \in Inodes \cup {Nowhere} /\ pos \in Nat /\ place \in Places
      /\ source \in {"file", "command"}
  BY InodesAssumption DEF FollowTypeInv, FollowTypes
<1>4. \A f \in Inodes : Len(disk[f]) \in Nat
  BY <1>3
<1>5. /\ place \in {"asked", "opening", "reopening"} => fd = Nowhere /\ pending = <<>>
      /\ place \in {"reading", "sending", "checking", "napping"} => fd # Nowhere
      /\ place \in {"asked", "opening"} => lines = <<>>
      /\ place = "asked" => backfill = <<>>
      /\ place \in Places \ {"sending", "closing", "closed"} => ready = <<>>
      /\ place = "sending" => ready # <<>>
      /\ proc = "running" => source = "command"
  BY DEF FollowTypeInv, PlaceInv
<1>6. source' = source
  BY <1>1 DEF hostVars
<1>7. CASE ReadTailFails \/ OpenFails
  BY <1>1, <1>3, <1>5, <1>6, <1>7, <1>2 DEF ReadTailFails, OpenFails, Fails, PlaceInv, Places
<1>8. CASE Open
  <2>1. fd' = path /\ path \in Inodes /\ pos' = Len(disk[path]) /\ place' = "reading" /\ place = "opening"
    BY <1>3, <1>8 DEF Open
  <2>2. proc' = "running" => source = "command"
    BY <1>5, <1>8 DEF Open
  <2> QED
    BY <1>1, <1>2, <1>3, <1>4, <1>5, <1>6, <2>1, <2>2 DEF PlaceInv, Places
<1>9. CASE ReadNothing \/ Unchanged \/ Nap
  BY <1>1, <1>2, <1>3, <1>5, <1>6, <1>9 DEF ReadNothing, Unchanged, Nap, PlaceInv, Places
<1>10. CASE Rotated \/ Truncated
  BY <1>1, <1>2, <1>3, <1>5, <1>6, <1>10 DEF Rotated, Truncated, PlaceInv, Places
<1>11. CASE ReopenNew
  BY <1>1, <1>2, <1>3, <1>5, <1>6, <1>11 DEF ReopenNew, PlaceInv, Places
<1>12. CASE Close
  BY <1>1, <1>2, <1>3, <1>5, <1>6, <1>12 DEF Close, PlaceInv, Places
<1>13. CASE Exits
  BY <1>1, <1>2, <1>3, <1>5, <1>6, <1>13 DEF Exits, PlaceInv, Places
<1>14. CASE Stop
  BY <1>1, <1>2, <1>3, <1>5, <1>6, <1>14 DEF Stop, PlaceInv, Places
<1> QED
  BY <1>7, <1>8, <1>9, <1>10, <1>11, <1>12, <1>13, <1>14

\* The bytes that a read cuts into lines.
LEMMA ReadTypes ==
    ASSUME FollowTypeInv, Read
    PROVE  /\ UNCHANGED hostVars /\ FollowTypes' /\ PlaceInv' /\ Old(pending)' /\ (BreaksIn(pending) = {})'
           /\ \A k \in 1..Len(ready') : Old(ready[k])'
<1>1. /\ disk \in [Inodes -> Seq(Nat)] /\ fd \in Inodes /\ pos \in Nat /\ place = "reading"
      /\ pending \in Seq(Nat) /\ source \in {"file", "command"} /\ written \in Nat
  <2>1. place = "reading"
    BY DEF Read
  <2> QED
    BY <2>1 DEF FollowTypeInv, FollowTypes, PlaceInv
<1> DEFINE f == disk[fd]
           size == IF source = "command" THEN 1 ELSE ChunkSize
           end == IF pos + size < Len(f) THEN pos + size ELSE Len(f)
           bytes == pending \o SubSeq(f, pos + 1, end)
<1>2. /\ pos < Len(f) /\ pos' = end /\ ready' = Complete(bytes) /\ pending' = Rest(bytes)
      /\ place' = (IF ready' = <<>> THEN "reading" ELSE "sending")
      /\ UNCHANGED <<hostVars, fd, proc, corpus, backfill, lines>>
  BY DEF Read
<1>3. f \in Seq(Nat) /\ Len(f) \in Nat /\ \A i \in 1..Len(f) : f[i] \in 1..written
  BY <1>1 DEF FollowTypeInv, FollowBounds, Old
<1>4. size \in Nat /\ end \in Nat /\ pos <= end /\ end <= Len(f)
  <2>1. size \in Nat
    BY SizesAssumption
  <2> HIDE DEF size, f
  <2> QED
    BY <1>1, <1>2, <1>3, <2>1
<1>5. \A i \in 1..Len(pending) : pending[i] \in 1..written
  BY DEF FollowTypeInv, FollowBounds, Old
<1> HIDE DEF f, end
<1>6. SubSeq(f, pos + 1, end) \in Seq(1..written)
  <2>1. pos + 1 \in Int /\ end \in Int /\ \A i \in pos + 1..end : f[i] \in 1..written
    BY <1>1, <1>3, <1>4
  <2> QED
    BY ONLY <2>1, SubSeqProperties
<1>7. bytes \in Seq(Nat) /\ \A i \in 1..Len(bytes) : bytes[i] \in 1..written
  <2> DEFINE c == SubSeq(f, pos + 1, end)
  <2>1. pending \in Seq(1..written) /\ c \in Seq(1..written)
    <3>1. pending \in Seq(1..written)
      BY <1>1, <1>5
    <3>2. c \in Seq(1..written)
      BY <1>6
    <3> QED
      BY <3>1, <3>2
  <2> HIDE DEF c
  <2>2. pending \o c \in Seq(1..written)
    BY ONLY <2>1, ConcatProperties
  <2> QED
    BY <1>1, <2>2 DEF c
<1> HIDE DEF bytes
<1>8. /\ ready' \in Seq(Seq(Nat)) /\ pending' \in Seq(Nat) /\ BreaksIn(Rest(bytes)) = {}
      /\ \A k \in 1..Len(ready') : \A i \in 1..Len(ready'[k]) : ready'[k][i] \in 1..written
      /\ \A i \in 1..Len(pending') : pending'[i] \in 1..written
  BY <1>2, <1>7, CutBytes
<1>9. written' = written /\ breaks' = breaks /\ source' = source
  BY <1>2 DEF hostVars
<1>10. FollowTypes'
  <2>1. FollowTypes /\ place' \in Places /\ pos' \in Nat
    BY <1>2, <1>4 DEF FollowTypeInv, Places
  <2> QED
    BY <1>2, <1>8, <2>1 DEF FollowTypes, hostVars
<1>11. PlaceInv'
  <2>1. PlaceInv /\ place' \in {"reading", "sending"}
    BY <1>2 DEF FollowTypeInv
  <2> QED
    BY <1>1, <1>2, <1>9, <2>1 DEF PlaceInv
<1>12. (BreaksIn(pending) = {})'
  BY <1>2, <1>8, <1>9 DEF BreaksIn
<1> QED
  BY <1>2, <1>8, <1>9, <1>10, <1>11, <1>12 DEF Old

\* A read yields the lines it completed after all others.
LEMMA ReadShows ==
    ASSUME FollowTypeInv, Read
    PROVE  /\ ready' \in Seq(Seq(Nat)) /\ ready = <<>>
           /\ Yielded \in Seq(Seq(Nat)) /\ Len(Yielded) \in Nat /\ Len(Yielded') = Len(Yielded) + Len(ready')
           /\ Yielded' \in Seq(Seq(Nat))
           /\ \A j \in 1..Len(Yielded') :
                 Yielded'[j] = IF j <= Len(Yielded) THEN Yielded[j] ELSE ready'[j - Len(Yielded)]
           /\ Shown \in Seq(Seq(Nat)) /\ Len(Shown) \in Nat /\ Len(Shown') = Len(Shown) + Len(ready')
           /\ \A j \in 1..Len(Shown') :
                 Shown'[j] = IF j <= Len(Shown) THEN Shown[j] ELSE ready'[j - Len(Shown)]
<1>1. ready' \in Seq(Seq(Nat)) /\ lines' = lines /\ backfill' = backfill /\ place = "reading"
  <2>1. FollowTypes'
    BY ReadTypes
  <2> QED
    BY <2>1 DEF FollowTypes, Read
<1>2. /\ lines \in Seq(Seq(Nat)) /\ backfill \in Seq(Seq(Nat)) /\ ready = <<>>
  BY <1>1 DEF FollowTypeInv, FollowTypes, PlaceInv, Places
<1>3. Yielded = lines /\ Yielded' = lines \o ready' /\ Shown = backfill \o lines
  <2>1. lines \o <<>> = lines
    BY <1>2
  <2> QED
    BY <1>1, <1>2, <2>1 DEF Yielded, Shown
<1>4. /\ Len(lines \o ready') = Len(lines) + Len(ready') /\ lines \o ready' \in Seq(Seq(Nat))
      /\ \A j \in 1..Len(lines) + Len(ready') :
            (lines \o ready')[j] = IF j <= Len(lines) THEN lines[j] ELSE ready'[j - Len(lines)]
  BY ONLY <1>1, <1>2, ConcatProperties
<1>5. backfill \o lines \in Seq(Seq(Nat))
  BY ONLY <1>2, ConcatProperties
<1>6. Shown' = Shown \o ready'
  <2>1. (backfill \o lines) \o ready' = backfill \o (lines \o ready')
    BY ONLY <1>1, <1>2, ConcatAssociative
  <2>2. Shown' = backfill \o Yielded'
    BY <1>1 DEF Shown
  <2> QED
    BY <1>3, <2>1, <2>2, Zenon
<1>7. Shown \in Seq(Seq(Nat)) /\ Len(Shown) \in Nat /\ Len(lines) \in Nat
  BY <1>2, <1>3, <1>5
<1>8. /\ Len(Shown \o ready') = Len(Shown) + Len(ready')
      /\ \A j \in 1..Len(Shown) + Len(ready') :
            (Shown \o ready')[j] = IF j <= Len(Shown) THEN Shown[j] ELSE ready'[j - Len(Shown)]
  BY ONLY <1>1, <1>7, ConcatProperties
<1> HIDE DEF Yielded, Shown
<1> QED
  BY <1>1, <1>2, <1>3, <1>4, <1>6, <1>7, <1>8

LEMMA FollowerKeepsTypes ==
    ASSUME FollowTypeInv, DiskInv, Follower \/ Exits \/ Stop
    PROVE  UNCHANGED hostVars /\ FollowTypeInv' /\ DiskInv'
<1>0. UNCHANGED hostVars
  BY DEF Follower, Exits, Stop, ReadTail, ReadTailFails, Open, OpenFails, Fails, Read, Send, ReadNothing,
         Rotated, ReopenNew, Truncated, Unchanged, Nap, Close
<1>1. /\ written' = written /\ breaks' = breaks /\ source' = source /\ disk' = disk /\ path' = path
      /\ writer' = writer /\ starts' = starts
  BY <1>0 DEF hostVars
<1>2. DiskInv'
  BY <1>1 DEF DiskInv
<1>3. /\ FollowTypes /\ \A f \in Inodes : Old(disk[f])
      /\ Old(pending) /\ Old(corpus) /\ BreaksIn(pending) = {}
      /\ \A k \in 1..Len(Shown) : Old(Shown[k])
  BY DEF FollowTypeInv, FollowBounds
<1>4. \A f \in Inodes : Old(disk[f])'
  BY <1>1, <1>3 DEF Old
<1>5. ASSUME ReadTail PROVE FollowTypeInv'
  <2>1. /\ path \in Inodes /\ corpus' = disk[path] /\ backfill' \in Seq(Seq(Nat))
        /\ \A k \in 1..Len(backfill') : \A i \in 1..Len(backfill'[k]) : backfill'[k][i] \in 1..written
    BY <1>5, BackfillRead
  <2>2. place = "asked" /\ place' = "opening" /\ UNCHANGED <<fd, pos, proc, pending, ready, lines>>
    BY <1>5 DEF ReadTail
  <2>3. ready = <<>> /\ lines = <<>> /\ fd = Nowhere /\ pending = <<>> /\ (proc = "running" => source = "command")
    BY <2>2 DEF FollowTypeInv, PlaceInv, Places
  <2>4. disk[path] \in Seq(Nat)
    BY <1>3, <2>1 DEF FollowTypes
  <2>5. FollowTypes'
    BY <1>1, <1>3, <2>1, <2>2, <2>4 DEF FollowTypes, Places
  <2>6. PlaceInv'
    BY <1>1, <2>2, <2>3 DEF PlaceInv, Places
  <2>7. Shown' = backfill'
    <3>1. Yielded' = <<>>
      BY <2>2, <2>3 DEF Yielded
    <3> QED
      BY <2>1, <3>1 DEF Shown
  <2>8. Old(pending)' /\ Old(corpus)' /\ (BreaksIn(pending) = {})' /\ \A k \in 1..Len(Shown') : Old(Shown[k])'
    BY <1>1, <1>3, <2>1, <2>2, <2>7 DEF Old, BreaksIn
  <2> QED
    BY <1>4, <2>5, <2>6, <2>8 DEF FollowTypeInv, FollowBounds
<1>6. ASSUME Read PROVE FollowTypeInv'
  <2>1. /\ FollowTypes' /\ PlaceInv' /\ Old(pending)' /\ (BreaksIn(pending) = {})'
        /\ \A k \in 1..Len(ready') : Old(ready[k])'
    BY <1>6, ReadTypes
  <2>2. place = "reading" /\ UNCHANGED <<lines, backfill, corpus>>
    BY <1>6 DEF Read
  <2>3. ready = <<>>
    BY <2>2 DEF FollowTypeInv, PlaceInv, Places
  <2>4. Old(corpus)'
    BY <1>1, <1>3, <2>2 DEF Old
  <2>5. ASSUME NEW k \in 1..Len(Shown') PROVE Old(Shown[k])'
    <3>1. /\ Len(Shown) \in Nat /\ Len(Shown') = Len(Shown) + Len(ready') /\ ready' \in Seq(Seq(Nat))
          /\ \A j \in 1..Len(Shown') : Shown'[j] = IF j <= Len(Shown) THEN Shown[j] ELSE ready'[j - Len(Shown)]
      BY <1>6, ReadShows
    <3>2. CASE k <= Len(Shown)
      <4>1. k \in 1..Len(Shown) /\ Shown'[k] = Shown[k]
        BY <3>1, <3>2
      <4> QED
        BY <1>1, <1>3, <4>1 DEF Old
    <3>3. CASE ~(k <= Len(Shown))
      <4>1. k - Len(Shown) \in 1..Len(ready') /\ Shown'[k] = ready'[k - Len(Shown)]
        BY <3>1, <3>3
      <4> QED
        BY <2>1, <4>1 DEF Old
    <3> QED
      BY <3>2, <3>3
  <2> QED
    BY <1>4, <2>1, <2>4, <2>5 DEF FollowTypeInv, FollowBounds
<1>7. ASSUME Send PROVE FollowTypeInv'
  <2>1. /\ lines' \in Seq(Seq(Nat)) /\ ready' \in Seq(Seq(Nat)) /\ Yielded' = Yielded /\ Shown' = Shown
    BY <1>7, SendMoves
  <2>2. /\ place = "sending" /\ place' = (IF ready' = <<>> THEN "reading" ELSE "sending")
        /\ UNCHANGED <<fd, pos, proc, pending, corpus, backfill>>
    BY <1>7 DEF Send
  <2>3. FollowTypes'
    BY <1>1, <1>3, <2>1, <2>2 DEF FollowTypes, Places
  <2>4. PlaceInv'
    <3>1. fd # Nowhere /\ (proc = "running" => source = "command")
      BY <2>2 DEF FollowTypeInv, PlaceInv
    <3> QED
      BY <1>1, <2>2, <3>1 DEF PlaceInv, Places
  <2>5. Old(pending)' /\ Old(corpus)' /\ (BreaksIn(pending) = {})' /\ \A k \in 1..Len(Shown') : Old(Shown[k])'
    BY <1>1, <1>3, <2>1, <2>2 DEF Old, BreaksIn
  <2> QED
    BY <1>4, <2>3, <2>4, <2>5 DEF FollowTypeInv, FollowBounds
<1>8. ASSUME \/ ReadTailFails \/ Open \/ OpenFails \/ ReadNothing \/ Rotated \/ ReopenNew
             \/ Truncated \/ Unchanged \/ Nap \/ Close \/ Exits \/ Stop
      PROVE  FollowTypeInv'
  <2>1. /\ UNCHANGED <<hostVars, lines, ready, backfill, corpus>>
        /\ Yielded' = Yielded /\ Shown' = Shown
        /\ pending' \in {pending, <<>>} /\ (pos' \in Nat) /\ place' \in Places
        /\ fd' \in Inodes \cup {Nowhere} /\ PlaceInv'
    BY <1>8, OtherSteps
  <2>2. pending' \in Seq(Nat)
    <3>1. pending \in Seq(Nat) /\ <<>> \in Seq(Nat)
      BY <1>3 DEF FollowTypes
    <3> QED
      BY <2>1, <3>1
  <2>3. FollowTypes'
    BY <1>1, <1>3, <2>1, <2>2 DEF FollowTypes
  <2>4. Old(pending)' /\ (BreaksIn(pending) = {})'
    <3>1. CASE pending' = pending
      BY <1>1, <1>3, <3>1 DEF Old, BreaksIn
    <3>2. CASE pending' = <<>>
      BY <3>2 DEF Old, BreaksIn
    <3> QED
      BY <2>1, <3>1, <3>2
  <2>5. Old(corpus)' /\ \A k \in 1..Len(Shown') : Old(Shown[k])'
    BY <1>1, <1>3, <2>1 DEF Old
  <2> QED
    BY <1>4, <2>1, <2>3, <2>4, <2>5 DEF FollowTypeInv, FollowBounds
<1> QED
  BY <1>0, <1>2, <1>5, <1>6, <1>7, <1>8 DEF Follower

\* What a read cuts: the part of the file that starts where the unfinished line does.
LEMMA ReadChunk ==
    ASSUME FollowTypeInv, FileInv, Read
    PROVE  /\ fd \in Inodes /\ UNCHANGED <<fd, backfill, corpus, hostVars>>
           /\ \E b \in Nat, e \in Nat :
                 /\ b <= e /\ e <= Len(disk[fd]) /\ pos' = e
                 /\ ready' = Complete(Chunk(disk[fd], b, e)) /\ pending' = Rest(Chunk(disk[fd], b, e))
                 /\ b = 0 \/ disk[fd][b] \in breaks \/ Yielded = <<>>
                 /\ OlderThan(Shown, disk[fd], b + 1)
<1> DEFINE f == disk[fd]
           size == IF source = "command" THEN 1 ELSE ChunkSize
           e == IF pos + size < Len(f) THEN pos + size ELSE Len(f)
           b == pos - Len(pending)
<1>1. /\ place = "reading" /\ pos < Len(f) /\ pos' = e
      /\ ready' = Complete(pending \o SubSeq(f, pos + 1, e)) /\ pending' = Rest(pending \o SubSeq(f, pos + 1, e))
      /\ UNCHANGED <<fd, backfill, corpus, hostVars>>
  BY DEF Read
<1>2. fd \in Inodes /\ f \in Seq(Nat) /\ Len(f) \in Nat /\ pos \in Nat /\ pending \in Seq(Nat) /\ Len(pending) \in Nat
  <2>1. pending \in Seq(Nat)
    BY DEF FollowTypeInv, FollowTypes
  <2> QED
    BY <1>1, <2>1 DEF FollowTypeInv, FollowTypes, PlaceInv
<1>3. ReadTo(f, pos, pending, breaks, Yielded, Shown)
  BY <1>1, <1>2, InodesAssumption DEF FileInv, Following
<1>4. size \in Nat
  BY SizesAssumption
<1> HIDE DEF f, size
<1>5. e \in Nat /\ pos <= e /\ e <= Len(f) /\ pos <= Len(f)
  BY <1>1, <1>2, <1>4
<1>6. /\ b \in Nat /\ b <= pos /\ pending = SubSeq(f, b + 1, pos)
      /\ b = 0 \/ f[b] \in breaks \/ Yielded = <<>>
      /\ OlderThan(Shown, f, b + 1)
  BY <1>2, <1>3, <1>5 DEF ReadTo
<1> HIDE DEF b, e
<1>7. pending \o SubSeq(f, pos + 1, e) = Chunk(f, b, e)
  <2>1. SubSeq(f, b + 1, pos) \o SubSeq(f, pos + 1, e) = SubSeq(f, b + 1, e)
    <3>1. /\ b + 1 \in 1..Len(f) + 1 /\ pos \in (b + 1) - 1..Len(f) /\ e \in pos..Len(f)
      BY <1>2, <1>5, <1>6
    <3>2. f \in Seq(Nat)
      BY <1>2
    <3> QED
      BY ONLY <3>1, <3>2, ConcatAdjacentSubSeq
  <2> QED
    BY <1>6, <2>1, Zenon DEF Chunk
<1>8. b <= e
  BY <1>2, <1>5, <1>6
<1> QED
  BY <1>1, <1>2, <1>5, <1>6, <1>7, <1>8 DEF f

\* A line cut from a file is a line as it was written.
LEMMA CutLines ==
    ASSUME FollowTypeInv, DiskInv, NEW n \in Inodes, NEW b \in Nat, NEW e \in Nat, b <= e, e <= Len(disk[n]),
           NEW s, NEW cut \in [0..Len(Complete(s)) -> b..e], CutAt(s, disk[n], b, e, cut),
           Complete(s) \in Seq(Seq(Nat)), NEW k \in 1..Len(Complete(s)), NEW first \in BOOLEAN,
           k = 1 /\ b > 0 /\ disk[n][b] \notin breaks => first
    PROVE  IsLine(Complete(s)[k], first)
<1> DEFINE f == disk[n]
           C == Complete(s)
           l == C[k]
           p == cut[k - 1]
           q == cut[k]
<1>1. f \in Seq(Nat) /\ Len(f) \in Nat /\ Len(C) \in Nat
  BY LogIncreases
<1>2. \A j \in 1..Len(f) : f[j] \in Nat /\ f[j] = f[1] + j - 1 /\ (f[j] \in starts <=> j = 1)
  <2>1. \A j \in 1..Len(f) : f[j] = f[1] + j - 1 /\ (f[j] \in starts <=> j = 1)
    BY DEF DiskInv
  <2>2. \A j \in 1..Len(f) : f[j] \in Nat
    <3> HIDE DEF f
    <3> QED
      BY <1>1
  <2> QED
    BY <2>1, <2>2
<1>3. /\ cut[0] = b /\ p < q /\ f[q] \in breaks /\ \A j \in p + 1..q - 1 : f[j] \notin breaks
      /\ Len(l) = q - p /\ \A i \in 1..q - p : l[i] = f[p + i]
  BY Zenon DEF CutAt
<1>4. /\ p \in b..e /\ q \in b..e
  <2>1. k \in 0..Len(C) /\ k - 1 \in 0..Len(C)
    BY <1>1
  <2> QED
    BY <2>1
<1>5. (p = b /\ k = 1) \/ f[p] \in breaks
  <2>1. CASE k = 1
    BY <1>3, <2>1
  <2>2. CASE k # 1
    <3>1. k - 1 \in 1..Len(C)
      BY <1>1, <2>2
    <3>2. f[cut[k - 1]] \in breaks
      BY <3>1, Zenon DEF CutAt
    <3> QED
      BY <3>2
  <2> QED
    BY <2>1, <2>2
<1> HIDE DEF f, C, l, p, q
<1>6. /\ p \in Nat /\ q \in Nat /\ p < q /\ q <= Len(f) /\ b <= p /\ 1 \in 1..q - p
  <2>1. e <= Len(f)
    BY DEF f
  <2> QED
    BY <1>1, <1>3, <1>4, <2>1
<1>7. /\ p + 1 \in 1..Len(f) /\ l[1] = f[p + 1] /\ f[p + 1] = f[1] + p /\ f[1] \in Nat
  <2>1. p + 1 \in 1..Len(f) /\ 1 \in 1..Len(f)
    BY <1>1, <1>6
  <2> QED
    BY <1>2, <1>3, <1>6, <2>1
<1>8. ASSUME NEW i \in 1..Len(l)
      PROVE  /\ l[i] = l[1] + i - 1 /\ (l[i] \in breaks <=> i = Len(l))
             /\ i # 1 => l[i] \notin starts
  <2> DEFINE m == Len(f)
  <2>0. i \in 1..q - p /\ p \in Nat /\ q \in Nat /\ q <= m /\ m \in Nat
    BY <1>1, <1>3, <1>6
  <2> HIDE DEF m
  <2>9. p + i \in 1..m /\ i \in Int /\ p + i \in Nat /\ i >= 1 /\ i <= q - p
    BY ONLY <2>0
  <2>1. p + i \in 1..Len(f) /\ i \in 1..q - p /\ l[i] = f[p + i]
    BY <1>3, <2>0, <2>9 DEF m
  <2>2. f[p + i] = f[1] + (p + i) - 1 /\ (f[p + i] \in starts <=> p + i = 1)
    BY <1>2, <2>1
  <2>3. l[i] = l[1] + i - 1
    <3> DEFINE x == f[1]
               y == l[1]
               z == l[i]
    <3>1. x \in Nat /\ y = x + p /\ z = x + (p + i) - 1 /\ i \in Int /\ p \in Nat
      BY <1>7, <2>0, <2>1, <2>2
    <3> HIDE DEF x, y, z
    <3>2. z = y + i - 1
      BY ONLY <3>1
    <3> QED
      BY <3>2 DEF y, z
  <2>10. i = q - p \/ p + i \in p + 1..q - 1
    BY ONLY <2>0
  <2>11. (i = q - p => p + i = q) /\ (p + i \in p + 1..q - 1 => i # q - p)
    BY ONLY <2>0
  <2>4. i = Len(l) \/ p + i \in p + 1..q - 1
    BY <1>3, <2>10
  <2>5. i = Len(l) => p + i = q
    BY <1>3, <2>11
  <2>6. p + i \in p + 1..q - 1 => i # Len(l)
    BY <1>3, <2>11
  <2>7. i # 1 => p + i # 1
    BY <1>6, <2>1
  <2> QED
    BY <1>3, <2>1, <2>2, <2>3, <2>4, <2>5, <2>6, <2>7
<1>9. first \/ l[1] \in starts \/ l[1] - 1 \in breaks
  <2>1. CASE p = 0
    <3>1. f[p + 1] \in starts
      BY <1>2, <1>7, <2>1
    <3> QED
      BY <1>7, <3>1
  <2>2. CASE p # 0 /\ f[p] \in breaks
    <3>1. p \in 1..Len(f)
      BY <1>1, <1>6, <2>2
    <3>2. f[p] = f[1] + p - 1
      BY <1>2, <3>1
    <3>3. l[1] - 1 = f[p]
      BY <1>6, <1>7, <3>2
    <3> QED
      BY <2>2, <3>3
  <2>3. CASE p # 0 /\ f[p] \notin breaks
    <3>1. p = b /\ k = 1 /\ b > 0
      BY <1>5, <1>6, <2>3
    <3> QED
      BY <2>3, <3>1 DEF f
  <2> QED
    BY <2>1, <2>2, <2>3
<1>10. IsLine(l, first)
  <2>1. \A i \in 2..Len(l) : i \in 1..Len(l) /\ i # 1
    BY <1>3, <1>6
  <2> QED
    BY <1>8, <1>9, <2>1 DEF IsLine
<1> QED
  BY <1>10 DEF l, C

\* What a read makes of the lines and of the unfinished line.
LEMMA ReadKeeps ==
    ASSUME FollowTypeInv, DiskInv, FileInv, NextInv, LinesInv, Read
    PROVE  FileInv' /\ NextInv' /\ LinesInv'
<1> DEFINE f == disk[fd]
           C == ready'
<1>1. /\ fd \in Inodes /\ fd' = fd /\ UNCHANGED hostVars
      /\ disk' = disk /\ path' = path /\ breaks' = breaks /\ starts' = starts
      /\ \E b \in Nat, e \in Nat :
            /\ b <= e /\ e <= Len(disk[fd]) /\ pos' = e
            /\ ready' = Complete(Chunk(disk[fd], b, e)) /\ pending' = Rest(Chunk(disk[fd], b, e))
            /\ b = 0 \/ disk[fd][b] \in breaks \/ Yielded = <<>>
            /\ OlderThan(Shown, disk[fd], b + 1)
  BY ReadChunk DEF hostVars
<1>2. PICK b \in Nat, e \in Nat :
            /\ b <= e /\ e <= Len(disk[fd]) /\ pos' = e
            /\ ready' = Complete(Chunk(disk[fd], b, e)) /\ pending' = Rest(Chunk(disk[fd], b, e))
            /\ b = 0 \/ disk[fd][b] \in breaks \/ Yielded = <<>>
            /\ OlderThan(Shown, disk[fd], b + 1)
  BY <1>1, Zenon
<1> DEFINE s == Chunk(f, b, e)
<1>3. /\ f \in Seq(Nat) /\ Len(f) \in Nat
      /\ \A i \in 1..Len(f), j \in 1..Len(f) : i < j => f[i] < f[j]
  BY <1>1, LogIncreases
<1>4. /\ Complete(s) \in Seq(Seq(Nat)) /\ Len(Complete(s)) \in Nat
      /\ \E cut \in [0..Len(Complete(s)) -> b..e] : CutAt(s, f, b, e, cut)
  <2> HIDE DEF f
  <2>1. s = Chunk(f, b, e) /\ e <= Len(f)
    BY <1>2 DEF f
  <2> HIDE DEF s
  <2> QED
    BY <1>2, <1>3, <2>1, ChunkCuts
<1>5. C = Complete(s) /\ pending' = Rest(s)
  BY <1>2
<1> HIDE DEF C, s
<1> DEFINE n == Len(C)
<1>6. PICK cut \in [0..n -> b..e] : CutAt(s, f, b, e, cut)
  BY <1>4, <1>5
<1>7. C \in Seq(Seq(Nat)) /\ n \in Nat /\ e <= Len(f)
  BY <1>2, <1>4, <1>5
<1>8. /\ cut[0] = b /\ pending' = SubSeq(f, cut[n] + 1, e)
      /\ \A k \in 1..n :
            /\ cut[k - 1] < cut[k] /\ f[cut[k]] \in breaks
            /\ Len(C[k]) = cut[k] - cut[k - 1]
            /\ \A i \in 1..cut[k] - cut[k - 1] : C[k][i] = f[cut[k - 1] + i]
      /\ \A k \in 0..n, m \in 0..n : k < m => cut[k] < cut[m]
  BY <1>5, <1>6, Zenon DEF CutAt
<1>9. \A k \in 0..n : cut[k] \in b..e /\ cut[k] \in 0..Len(f)
  <2> SUFFICES ASSUME NEW k \in 0..n PROVE cut[k] \in b..e /\ cut[k] \in 0..Len(f)
    OBVIOUS
  <2>1. cut[k] \in b..e
    OBVIOUS
  <2> HIDE DEF f
  <2> QED
    BY <1>3, <1>7, <2>1
<1>10. /\ Increasing(C)
       /\ \A k \in 1..Len(C) : \A i \in 1..Len(C[k]) :
             \E j \in 1..Len(f) : b < j /\ j <= cut[n] /\ C[k][i] = f[j]
  <2>1. cut \in [0..Len(C) -> 0..Len(f)]
    BY <1>9
  <2>2. ASSUME NEW k \in 1..Len(C)
        PROVE  /\ cut[k - 1] + Len(C[k]) <= cut[k]
               /\ \A i \in 1..Len(C[k]) : C[k][i] = f[cut[k - 1] + i]
    <3>1. k \in 0..n /\ k - 1 \in 0..n
      BY <1>7
    <3>2. cut[k - 1] \in Int /\ cut[k] \in Int /\ Len(C[k]) = cut[k] - cut[k - 1]
      BY <1>8, <1>9, <3>1
    <3>3. cut[k - 1] + Len(C[k]) <= cut[k]
      BY <3>2
    <3>4. \A i \in 1..cut[k] - cut[k - 1] : C[k][i] = f[cut[k - 1] + i]
      BY <1>8
    <3> QED
      BY <3>2, <3>3, <3>4
  <2>3. ASSUME NEW k \in 0..Len(C), NEW m \in 0..Len(C), k < m PROVE cut[k] <= cut[m]
    BY <1>8, <1>9, <2>3
  <2> HIDE DEF f
  <2>4. /\ Increasing(C)
        /\ \A k \in 1..Len(C) : \A i \in 1..Len(C[k]) :
              \E j \in 1..Len(f) : cut[0] < j /\ j <= cut[Len(C)] /\ C[k][i] = f[j]
    BY <1>3, <1>7, <2>1, <2>2, <2>3, PiecesInOrder
  <2> QED
    BY <1>8, <2>4
<1>11. /\ Yielded \in Seq(Seq(Nat)) /\ Len(Yielded) \in Nat /\ Len(Yielded') = Len(Yielded) + n
       /\ \A j \in 1..Len(Yielded') : Yielded'[j] = IF j <= Len(Yielded) THEN Yielded[j] ELSE C[j - Len(Yielded)]
       /\ Shown \in Seq(Seq(Nat)) /\ Len(Shown) \in Nat /\ Len(Shown') = Len(Shown) + n
       /\ \A j \in 1..Len(Shown') : Shown'[j] = IF j <= Len(Shown) THEN Shown[j] ELSE C[j - Len(Shown)]
       /\ Yielded' \in Seq(Seq(Nat))
  BY ReadShows DEF C
<1> HIDE DEF f
<1>12. \A k \in 1..Len(Shown) : \A i \in 1..Len(Shown[k]) : \A j \in b + 1..Len(f) : Shown[k][i] < f[j]
  BY <1>2 DEF OlderThan, f
<1>21. ASSUME NEW k \in 1..Len(Shown')
       PROVE  /\ k <= Len(Shown) => k \in 1..Len(Shown) /\ Shown'[k] = Shown[k]
              /\ ~(k <= Len(Shown)) => k - Len(Shown) \in 1..n /\ Shown'[k] = C[k - Len(Shown)]
  <2> DEFINE a == Len(Shown)
             z == Len(Shown')
  <2>1. a \in Nat /\ n \in Nat /\ z = a + n /\ k \in 1..z
    BY <1>7, <1>11
  <2>2. Shown'[k] = IF k <= a THEN Shown[k] ELSE C[k - a]
    BY <1>11
  <2> HIDE DEF a, z, n
  <2>3. (k <= a => k \in 1..a) /\ (~(k <= a) => k - a \in 1..n)
    BY ONLY <2>1
  <2> QED
    BY <2>2, <2>3 DEF a
<1>13. Increasing(Shown)'
  <2>1. ASSUME NEW k \in 1..Len(Shown'), NEW i \in 1..Len(Shown'[k]) - 1 PROVE Shown'[k][i] < Shown'[k][i + 1]
    <3>1. \/ k \in 1..Len(Shown) /\ Shown'[k] = Shown[k]
          \/ k - Len(Shown) \in 1..n /\ Shown'[k] = C[k - Len(Shown)]
      BY <1>21
    <3> QED
      BY <1>10, <3>1 DEF LinesInv, Increasing
  <2>2. ASSUME NEW k \in 1..Len(Shown'), NEW m \in 1..Len(Shown'), k < m,
               NEW i \in 1..Len(Shown'[k]), NEW j \in 1..Len(Shown'[m])
        PROVE  Shown'[k][i] < Shown'[m][j]
    <3>1. CASE m <= Len(Shown)
      <4>1. k \in 1..Len(Shown) /\ m \in 1..Len(Shown) /\ Shown'[k] = Shown[k] /\ Shown'[m] = Shown[m]
        BY <1>11, <2>2, <3>1
      <4> QED
        BY <2>2, <4>1 DEF LinesInv, Increasing
    <3>2. CASE k <= Len(Shown) /\ ~(m <= Len(Shown))
      <4>1. k \in 1..Len(Shown) /\ m - Len(Shown) \in 1..n /\ Shown'[k] = Shown[k] /\ Shown'[m] = C[m - Len(Shown)]
        BY <1>21, <3>2
      <4>2. PICK x \in 1..Len(f) : b < x /\ C[m - Len(Shown)][j] = f[x]
        BY <1>10, <4>1
      <4>3. x \in b + 1..Len(f)
        BY <4>2
      <4> QED
        BY <1>12, <4>1, <4>2, <4>3
    <3>3. CASE ~(k <= Len(Shown))
      <4>0. ~(m <= Len(Shown)) /\ k - Len(Shown) < m - Len(Shown)
        <5>1. Len(Shown) \in Nat /\ k \in Int /\ m \in Int /\ k < m /\ ~(k <= Len(Shown))
          BY <1>11, <2>2, <3>3
        <5> HIDE DEF n
        <5> QED
          BY ONLY <5>1
      <4>1. /\ k - Len(Shown) \in 1..n /\ m - Len(Shown) \in 1..n /\ k - Len(Shown) < m - Len(Shown)
            /\ Shown'[k] = C[k - Len(Shown)] /\ Shown'[m] = C[m - Len(Shown)]
        BY <1>21, <3>3, <4>0
      <4> QED
        BY <1>10, <4>1 DEF Increasing
    <3> QED
      BY <1>11, <3>1, <3>2, <3>3
  <2> QED
    BY <2>1, <2>2 DEF Increasing
<1>14. ASSUME NEW k \in 1..Len(Yielded') PROVE IsLine(Yielded[k], k = 1)'
  <2>1. CASE k <= Len(Yielded)
    <3>1. k \in 1..Len(Yielded) /\ Yielded'[k] = Yielded[k]
      BY <1>11, <2>1
    <3>2. IsLine(Yielded[k], k = 1)
      BY <3>1 DEF LinesInv
    <3> QED
      BY <1>1, <3>1, <3>2 DEF IsLine
  <2>2. CASE ~(k <= Len(Yielded))
    <3> DEFINE m == k - Len(Yielded)
    <3>0. m \in 1..n /\ (m = 1 /\ Len(Yielded) = 0 => k = 1)
      <4> DEFINE a == Len(Yielded)
                 z == Len(Yielded')
      <4>1. a \in Nat /\ n \in Nat /\ z = a + n /\ k \in 1..z /\ ~(k <= a)
        BY <1>7, <1>11, <2>2
      <4> HIDE DEF a, z, n
      <4>2. k - a \in 1..n /\ (k - a = 1 /\ a = 0 => k = 1)
        BY ONLY <4>1
      <4> QED
        BY <4>2 DEF a
    <3>1. m \in 1..Len(C) /\ Yielded'[k] = C[m] /\ (m = 1 /\ Yielded = <<>> => k = 1)
      <4>1. Yielded'[k] = C[m]
        BY <1>11, <2>2
      <4>2. Yielded = <<>> => Len(Yielded) = 0
        OBVIOUS
      <4> QED
        BY <3>0, <4>1, <4>2
    <3> HIDE DEF m
    <3>2. (k = 1) \in BOOLEAN /\ (m = 1 /\ b > 0 /\ disk[fd][b] \notin breaks => k = 1)
      BY <1>2, <3>1
    <3>3. IsLine(C[m], k = 1)
      BY <1>1, <1>2, <1>4, <1>5, <1>6, <3>1, <3>2, CutLines DEF f
    <3> QED
      BY <1>1, <3>1, <3>3 DEF IsLine
  <2> QED
    BY <2>1, <2>2
<1>15. LinesInv'
  BY <1>13, <1>14 DEF LinesInv
<1>16. ASSUME path # Nowhere, path # fd PROVE OlderThan(Shown', disk[path], 1)
  <2>1. OlderThan(Shown, disk[path], 1)
    <3>1. Following
      BY DEF Read, Following
    <3> QED
      BY <1>16, <3>1 DEF NextInv
  <2>2. \A i \in 1..Len(f), j \in 1..Len(disk[path]) : f[i] < disk[path][j]
    BY <1>1, <1>16 DEF DiskInv, f
  <2>3. ASSUME NEW k \in 1..Len(Shown'), NEW i \in 1..Len(Shown'[k]), NEW j \in 1..Len(disk[path])
        PROVE  Shown'[k][i] < disk[path][j]
    <3>1. CASE k <= Len(Shown)
      <4>1. k \in 1..Len(Shown) /\ Shown'[k] = Shown[k]
        BY <1>21, <3>1
      <4> QED
        BY <2>1, <4>1 DEF OlderThan
    <3>2. CASE ~(k <= Len(Shown))
      <4>1. k - Len(Shown) \in 1..n /\ Shown'[k] = C[k - Len(Shown)]
        BY <1>21, <3>2
      <4>2. PICK x \in 1..Len(f) : C[k - Len(Shown)][i] = f[x]
        BY <1>10, <4>1
      <4> QED
        BY <2>2, <4>1, <4>2
    <3> QED
      BY <3>1, <3>2
  <2> QED
    BY <2>3 DEF OlderThan
<1>17. NextInv'
  BY <1>1, <1>16 DEF NextInv, OlderThan
<1>18. OlderThan(Shown', f, cut[n] + 1)
  <2> DEFINE c == cut[n]
  <2>1. c \in b..e /\ c \in Nat /\ e \in Nat /\ b \in Nat
    <3>1. n \in 0..n
      BY <1>7
    <3> QED
      BY <1>9, <3>1
  <2> HIDE DEF c
  <2>2. ASSUME NEW k \in 1..Len(Shown'), NEW i \in 1..Len(Shown'[k]), NEW j \in c + 1..Len(f)
        PROVE  Shown'[k][i] < f[j]
    <3>0. j \in b + 1..Len(f) /\ j \in 1..Len(f) /\ c < j
      BY <1>3, <2>1
    <3>1. CASE k <= Len(Shown)
      <4>1. k \in 1..Len(Shown) /\ Shown'[k] = Shown[k]
        BY <1>21, <3>1
      <4> QED
        BY <1>12, <3>0, <4>1
    <3>2. CASE ~(k <= Len(Shown))
      <4>1. k - Len(Shown) \in 1..n /\ Shown'[k] = C[k - Len(Shown)]
        BY <1>21, <3>2
      <4>2. PICK x \in 1..Len(f) : x <= c /\ C[k - Len(Shown)][i] = f[x]
        BY <1>10, <4>1 DEF c
      <4>3. x < j
        BY <2>1, <3>0, <4>2
      <4> QED
        BY <1>3, <3>0, <4>1, <4>2, <4>3
    <3> QED
      BY <3>1, <3>2
  <2> QED
    BY <2>2 DEF OlderThan, c
<1>19. ReadTo(f, e, pending', breaks, Yielded', Shown')
  <2> DEFINE c == cut[n]
             q == pending'
  <2>1. c \in b..e /\ c \in Nat /\ e \in Nat
    <3>1. n \in 0..n
      BY <1>7
    <3> QED
      BY <1>9, <3>1
  <2>2. q = SubSeq(f, c + 1, e) /\ OlderThan(Shown', f, c + 1)
    BY <1>8, <1>18
  <2>3. c = 0 \/ f[c] \in breaks \/ Yielded' = <<>>
    <3>1. CASE n = 0
      <4>1. c = b
        BY <1>8, <3>1
      <4>2. Yielded = <<>> => Yielded' = <<>>
        BY <1>11, <3>1
      <4> QED
        BY <1>2, <4>1, <4>2 DEF f
    <3>2. CASE n # 0
      <4>1. n \in 1..n
        BY <1>7, <3>2
      <4> QED
        BY <1>8, <4>1
    <3> QED
      BY <3>1, <3>2
  <2> HIDE DEF c, q
  <2>4. Len(q) = e - c
    <3>1. c + 1 \in Int /\ e \in Int /\ \A i \in c + 1..e : f[i] \in Nat
      BY <1>3, <1>7, <2>1
    <3>2. Len(SubSeq(f, c + 1, e)) = IF c + 1 <= e THEN e - (c + 1) + 1 ELSE 0
      BY ONLY <3>1, SubSeqProperties
    <3> QED
      BY <2>1, <2>2, <3>2
  <2>5. e - Len(q) = c /\ e <= Len(f) /\ ~(e > Len(f)) /\ c >= 0
    BY <1>3, <1>7, <2>1, <2>4
  <2>6. ReadTo(f, e, q, breaks, Yielded', Shown')
    BY <2>2, <2>3, <2>5 DEF ReadTo
  <2> QED
    BY <2>6 DEF q
<1>20. FileInv'
  BY <1>1, <1>2, <1>19 DEF FileInv, ReadTo, OlderThan, f
<1> QED
  BY <1>15, <1>17, <1>20

LEMMA BackfillStays ==
    ASSUME FollowTypeInv, BackfillInv, UNCHANGED <<hostVars, corpus, backfill>>,
           place \in {"asked", "closed"} => place' \in {"asked", "closed"}
    PROVE  BackfillInv'
<1>1. corpus' = corpus /\ backfill' = backfill /\ BreaksIn(corpus)' = BreaksIn(corpus)
  BY DEF hostVars, BreaksIn
<1>2. Lines(corpus)' = LinesAt(corpus', BreaksIn(corpus)')
  BY DEF Lines, LinesAt, Complete, Rest, Newlines, Cut
<1>3. Lines(corpus) = LinesAt(corpus, BreaksIn(corpus))
  BY DEF Lines, LinesAt, Complete, Rest, Newlines, Cut
<1>4. Lines(corpus)' = Lines(corpus)
  BY <1>1, <1>2, <1>3
<1> QED
  BY <1>1, <1>4 DEF BackfillInv

LEMMA ReadTailKeeps ==
    ASSUME FollowInv, ReadTail
    PROVE  FileInv' /\ NextInv' /\ LinesInv' /\ BackfillInv'
<1>1. /\ path \in Inodes /\ corpus' = disk[path]
      /\ backfill' = LastOf(BackfillLines, Lines(disk[path]))
      /\ backfill' \in Seq(Seq(Nat)) /\ Increasing(backfill')
  BY BackfillRead DEF FollowInv
<1>2. place = "asked" /\ place' = "opening" /\ UNCHANGED <<hostVars, ready, lines>>
  BY DEF ReadTail
<1>3. FileInv' /\ NextInv'
  BY <1>2 DEF FileInv, NextInv, Following
<1>4. ready' = <<>> /\ lines' = <<>>
  BY <1>2 DEF FollowInv, FollowTypeInv, PlaceInv, Places
<1>5. Yielded' = <<>> /\ Shown' = backfill'
  <2>1. Yielded' = <<>>
    BY <1>4 DEF Yielded
  <2> QED
    BY <1>1, <2>1 DEF Shown
<1>6. LinesInv'
  <2>1. Increasing(Shown')
    BY ONLY <1>1, <1>5
  <2>2. Increasing(Shown)'
    BY ONLY <2>1, Zenon DEF Increasing
  <2> QED
    BY <1>5, <2>2 DEF LinesInv
<1>7. BackfillInv'
  <2>1. BreaksIn(corpus)' = BreaksIn(disk[path])
    BY <1>1, <1>2 DEF BreaksIn, hostVars
  <2>2. Lines(corpus)' = LinesAt(corpus', BreaksIn(corpus)')
    BY DEF Lines, LinesAt, Complete, Rest, Newlines, Cut
  <2>3. Lines(disk[path]) = LinesAt(disk[path], BreaksIn(disk[path]))
    BY DEF Lines, LinesAt, Complete, Rest, Newlines, Cut
  <2>4. Lines(corpus)' = Lines(disk[path])
    BY <1>1, <2>1, <2>2, <2>3
  <2> QED
    BY <1>1, <2>4 DEF BackfillInv
<1> QED
  BY <1>3, <1>6, <1>7

\* The steps after which the same lines are shown.
LEMMA QuietSteps ==
    ASSUME FollowInv,
           \/ Send \/ ReadTailFails \/ Open \/ OpenFails \/ ReadNothing \/ Rotated \/ ReopenNew
           \/ Truncated \/ Unchanged \/ Nap \/ Close \/ Exits \/ Stop
    PROVE  FileInv' /\ NextInv' /\ LinesInv' /\ BackfillInv'
<1> USE DEF FollowInv
<1>1. UNCHANGED <<hostVars, backfill, corpus>> /\ Yielded' = Yielded /\ Shown' = Shown
  <2>1. CASE Send
    BY <2>1, SendMoves DEF Send
  <2> QED
    BY <2>1, OtherSteps
<1>2. /\ disk' = disk /\ path' = path /\ breaks' = breaks /\ starts' = starts
  BY <1>1 DEF hostVars
<1>3. LinesInv'
  BY <1>1, <1>2 DEF LinesInv, IsLine, Increasing
<1>4. place \in {"asked", "closed"} => place' \in {"asked", "closed"}
  BY DEF Send, ReadTailFails, Open, OpenFails, Fails, ReadNothing, Rotated, ReopenNew, Truncated, Unchanged,
         Nap, Close, Exits, Stop
<1>5. BackfillInv'
  BY <1>1, <1>4, BackfillStays
<1>6. /\ disk \in [Inodes -> Seq(Nat)] /\ path \in Inodes \cup {Nowhere} /\ Nowhere \notin Inodes
      /\ fd \in Inodes \cup {Nowhere} /\ pos \in Nat /\ pending \in Seq(Nat) /\ Len(pending) \in Nat
  <2>1. pending \in Seq(Nat)
    BY DEF FollowTypeInv, FollowTypes
  <2> QED
    BY <2>1, InodesAssumption DEF FollowTypeInv, FollowTypes
<1>7. /\ place \in {"asked", "opening", "reopening"} => fd = Nowhere /\ pending = <<>>
      /\ place \in {"asked", "opening"} => Yielded = <<>>
  <2>1. PlaceInv
    BY DEF FollowTypeInv
  <2>2. place \in {"asked", "opening"} => lines = <<>> /\ ready = <<>>
    BY <2>1 DEF PlaceInv, Places
  <2>3. <<>> \o <<>> = <<>>
    OBVIOUS
  <2> QED
    BY <2>1, <2>2, <2>3 DEF PlaceInv, Yielded
<1>8. /\ Following /\ fd # Nowhere => ReadTo(disk[fd], pos, pending, breaks, Yielded, Shown)
      /\ Following /\ path \notin {Nowhere, fd} => OlderThan(Shown, disk[path], 1)
  BY DEF FileInv, NextInv
<1>9. CASE Following /\ UNCHANGED <<fd, pos, pending>>
  <2>1. FileInv'
    BY <1>1, <1>2, <1>8, <1>9 DEF FileInv, ReadTo, OlderThan
  <2>2. NextInv'
    BY <1>1, <1>2, <1>8, <1>9 DEF NextInv, OlderThan
  <2> QED
    BY <1>3, <1>5, <2>1, <2>2
<1>10. CASE ~Following'
  <2>1. FileInv' /\ NextInv'
    BY <1>10 DEF FileInv, NextInv
  <2> QED
    BY <1>3, <1>5, <2>1
<1>11. CASE Send \/ ReadNothing \/ Unchanged \/ Nap
  <2>1. Following /\ UNCHANGED <<fd, pos, pending>>
    BY <1>11 DEF Send, ReadNothing, Unchanged, Nap, Following
  <2> QED
    BY <1>9, <2>1
<1>12. CASE ReadTailFails \/ OpenFails \/ Close \/ Stop
  <2>1. ~Following'
    BY <1>12 DEF ReadTailFails, OpenFails, Fails, Close, Stop, Following
  <2> QED
    BY <1>10, <2>1
<1>13. CASE Exits
  <2>1. UNCHANGED <<fd, pos, pending, place>>
    BY <1>13 DEF Exits
  <2>2. (Following /\ UNCHANGED <<fd, pos, pending>>) \/ ~Following'
    BY <2>1 DEF Following
  <2> QED
    BY <1>9, <1>10, <2>2
<1>14. CASE Open
  <2>1. /\ fd' = path /\ path \in Inodes /\ pos' = Len(disk[path]) /\ place = "opening"
        /\ pending' = pending
    BY <1>6, <1>14 DEF Open
  <2> DEFINE f == disk[path]
             n == Len(f)
  <2>2. n \in Nat /\ f \in Seq(Nat) /\ pending = <<>> /\ Yielded = <<>>
    BY <1>6, <1>7, <2>1
  <2>3. ReadTo(f, n, pending, breaks, Yielded, Shown)
    <3> HIDE DEF f
    <3>1. SubSeq(f, n + 1, n) = <<>>
      BY <2>2
    <3>2. n - Len(pending) = n /\ n <= Len(f) /\ ~(n > Len(f)) /\ n >= 0
      BY <2>2
    <3>3. OlderThan(Shown, f, n + 1)
      BY <2>2 DEF OlderThan
    <3> HIDE DEF n
    <3> QED
      BY <2>2, <3>1, <3>2, <3>3 DEF ReadTo
  <2>4. FileInv'
    BY <1>1, <1>2, <2>1, <2>3 DEF FileInv, ReadTo, OlderThan
  <2>5. NextInv'
    BY <1>2, <2>1 DEF NextInv
  <2> QED
    BY <1>3, <1>5, <2>4, <2>5
<1>15. CASE Rotated
  <2>1. fd' = Nowhere /\ place = "checking" /\ path \notin {Nowhere, fd}
    BY <1>15 DEF Rotated
  <2>2. OlderThan(Shown, disk[path], 1)
    BY <1>8, <2>1 DEF Following
  <2>3. FileInv' /\ NextInv'
    BY <1>1, <1>2, <2>1, <2>2 DEF FileInv, NextInv, OlderThan
  <2> QED
    BY <1>3, <1>5, <2>3
<1>16. CASE ReopenNew \/ Truncated
  <2>1. /\ fd' = path /\ path \in Inodes /\ pos' = 0 /\ pending' = <<>>
        /\ OlderThan(Shown, disk[path], 1)
    <3>1. CASE ReopenNew
      <4>1. /\ fd' = path /\ path \in Inodes /\ pos' = 0 /\ pending' = pending /\ place = "reopening"
        BY <1>6, <3>1 DEF ReopenNew
      <4>2. pending = <<>> /\ fd = Nowhere /\ Following
        BY <1>7, <4>1 DEF Following
      <4> QED
        BY <1>6, <1>8, <4>1, <4>2
    <3>2. CASE Truncated
      <4>1. /\ fd' = fd /\ path = fd /\ path \in Inodes /\ pos' = 0 /\ pending' = <<>> /\ Following
            /\ Len(disk[fd]) < pos
        <5>1. /\ fd' = fd /\ path = fd /\ pos' = 0 /\ pending' = <<>> /\ place = "checking"
              /\ Len(disk[fd]) < pos
          BY <3>2 DEF Truncated
        <5>2. fd # Nowhere
          BY <5>1 DEF FollowTypeInv, PlaceInv
        <5> QED
          BY <1>6, <5>1, <5>2 DEF Following
      <4>2. ReadTo(disk[fd], pos, pending, breaks, Yielded, Shown)
        BY <1>6, <1>8, <4>1
      <4> QED
        BY <4>1, <4>2 DEF ReadTo
    <3> QED
      BY <1>16, <3>1, <3>2
  <2> DEFINE f == disk[path]
  <2>2. f \in Seq(Nat) /\ Len(f) \in Nat
    BY <1>6, <2>1
  <2> DEFINE q == pending'
  <2>3. ReadTo(f, 0, q, breaks, Yielded, Shown)
    <3>1. OlderThan(Shown, f, 1)
      BY <2>1
    <3>2. Len(q) = 0 /\ q = SubSeq(f, 1, 0)
      BY <2>1
    <3> HIDE DEF f, q
    <3>3. 0 - Len(q) = 0 /\ 0 - Len(q) + 1 = 1 /\ 0 >= 0 /\ ~(0 > Len(f))
      BY <2>2, <3>2
    <3> QED
      BY <3>1, <3>2, <3>3 DEF ReadTo
  <2>4. FileInv'
    BY <1>1, <1>2, <2>1, <2>3 DEF FileInv, ReadTo, OlderThan
  <2>5. NextInv'
    BY <1>2, <2>1 DEF NextInv
  <2> QED
    BY <1>3, <1>5, <2>4, <2>5
<1> QED
  BY <1>11, <1>12, <1>13, <1>14, <1>15, <1>16

LEMMA FollowerKeeps ==
    ASSUME FollowInv, Follower \/ Exits \/ Stop
    PROVE  FollowInv'
<1>1. FollowTypeInv' /\ DiskInv' /\ UNCHANGED hostVars
  BY FollowerKeepsTypes DEF FollowInv
<1>2. CASE ReadTail
  BY <1>1, <1>2, ReadTailKeeps DEF FollowInv
<1>3. CASE Read
  <2>1. FileInv' /\ NextInv' /\ LinesInv'
    BY <1>3, ReadKeeps DEF FollowInv
  <2>2. BackfillInv'
    <3>1. UNCHANGED <<hostVars, corpus, backfill>> /\ place = "reading"
      BY <1>3 DEF Read
    <3> QED
      BY <3>1, BackfillStays DEF FollowInv
  <2> QED
    BY <1>1, <2>1, <2>2 DEF FollowInv
<1>4. CASE ~ReadTail /\ ~Read
  <2>1. FileInv' /\ NextInv' /\ LinesInv' /\ BackfillInv'
    BY <1>4, QuietSteps DEF Follower
  <2> QED
    BY <1>1, <2>1 DEF FollowInv
<1> QED
  BY <1>2, <1>3, <1>4

LEMMA FollowInvShows ==
    ASSUME FollowInv
    PROVE  ShownIsWritten
<1> USE DEF FollowInv
<1>0. FollowTypes
  BY DEF FollowTypeInv
<1>1. /\ Yielded \in Seq(Seq(Nat)) /\ Shown \in Seq(Seq(Nat))
      /\ Len(Yielded) = Len(lines) + Len(ready) /\ Len(Shown) = Len(backfill) + Len(Yielded)
      /\ Len(lines) \in Nat /\ Len(ready) \in Nat /\ Len(backfill) \in Nat
      /\ \A k \in 1..Len(backfill) + Len(Yielded) : Shown[k] =
            IF k <= Len(backfill) THEN backfill[k] ELSE Yielded[k - Len(backfill)]
      /\ \A k \in 1..Len(lines) + Len(ready) : Yielded[k] =
            IF k <= Len(lines) THEN lines[k] ELSE ready[k - Len(lines)]
  BY <1>0, ShownTypes
<1>2. \A k \in 1..Len(lines) : k \in 1..Len(Yielded) /\ Yielded[k] = lines[k]
  <2> SUFFICES ASSUME NEW k \in 1..Len(lines) PROVE k \in 1..Len(Yielded) /\ Yielded[k] = lines[k]
    OBVIOUS
  <2>1. k \in 1..Len(lines) + Len(ready) /\ k <= Len(lines)
    BY <1>1
  <2> QED
    BY <1>1, <2>1
<1>3. \A k \in 1..Len(lines) : IsLine(lines[k], k = 1)
  BY <1>2 DEF LinesInv
<1>4. backfill \in Seq(Seq(Nat)) /\ lines \in Seq(Seq(Nat))
  BY <1>0 DEF FollowTypes
<1> DEFINE B == backfill \o lines
           b == Len(backfill)
           l == Len(lines)
<1>5. /\ Len(B) = b + l /\ \A k \in 1..b + l : B[k] = IF k <= b THEN backfill[k] ELSE lines[k - b]
  BY ONLY <1>4, ConcatProperties
<1> HIDE DEF B
<1>6. \A k \in 1..Len(B) : k \in 1..Len(Shown) /\ Shown[k] = B[k]
  <2> SUFFICES ASSUME NEW k \in 1..b + l PROVE k \in 1..Len(Shown) /\ Shown[k] = B[k]
    BY <1>5
  <2>1. k \in 1..Len(backfill) + Len(Yielded) /\ (~(k <= b) => k - b \in 1..l)
    BY <1>1
  <2>2. CASE k <= b
    BY <1>1, <1>5, <2>1, <2>2
  <2>3. CASE ~(k <= b)
    <3>1. B[k] = lines[k - b] /\ Shown[k] = Yielded[k - b] /\ k - b \in 1..l
      BY <1>1, <1>5, <2>1, <2>3
    <3> QED
      BY <1>1, <1>2, <2>1, <3>1
  <2> QED
    BY <2>2, <2>3
<1>7. Increasing(B)
  BY <1>6 DEF LinesInv, Increasing
<1>8. place \notin {"asked", "closed"} => backfill = LastOf(BackfillLines, Lines(corpus))
  BY DEF BackfillInv
<1> QED
  BY <1>3, <1>7, <1>8 DEF ShownIsWritten, B

-----------------------------------------------------------------------------
(* The invariant holds, and what follows from it *)

LEMMA FollowBegins == FollowInit \/ FollowAtRest => FollowInv
<1> SUFFICES ASSUME FollowInit \/ FollowAtRest PROVE FollowInv
  OBVIOUS
<1>1. PICK n \in Nat :
         /\ written = n /\ breaks \subseteq 1..n /\ starts = 1..n \cap {1}
         /\ disk = [i \in Inodes |-> IF i = writer THEN [k \in 1..n |-> k] ELSE <<>>]
  <2>1. CASE FollowInit
    <3>1. PICK n \in 0..Begin :
             /\ written = n /\ starts = 1..n \cap {1}
             /\ disk = [i \in Inodes |-> IF i = writer THEN [k \in 1..n |-> k] ELSE <<>>]
             /\ breaks \in (IF source = "file" THEN SUBSET (1..n) ELSE {1..n})
      BY <2>1 DEF FollowInit
    <3>2. n \in Nat /\ breaks \subseteq 1..n
      BY <3>1, BytesAssumption
    <3> QED
      BY <3>1, <3>2
  <2>2. CASE FollowAtRest
    <3>1. written = 0 /\ breaks = {} /\ starts = {} /\ disk = [i \in Inodes |-> <<>>]
      BY <2>2 DEF FollowAtRest
    <3>2. [k \in 1..0 |-> k] = <<>>
      OBVIOUS
    <3>3. 0 \in Nat /\ starts = 1..0 \cap {1} /\ breaks \subseteq 1..0
      BY <3>1
    <3>4. disk = [i \in Inodes |-> IF i = writer THEN [k \in 1..0 |-> k] ELSE <<>>]
      BY <3>1, <3>2
    <3> QED
      BY <3>1, <3>3, <3>4
  <2> QED
    BY <2>1, <2>2
<1>2. /\ source \in {"file", "command"} /\ writer = (CHOOSE i \in Inodes : TRUE) /\ path \in {writer, Nowhere}
      /\ place \in {"asked", "closed"} /\ fd = Nowhere /\ pos = 0 /\ proc = "none"
      /\ pending = <<>> /\ ready = <<>> /\ corpus = <<>> /\ backfill = <<>> /\ lines = <<>>
  BY DEF FollowInit, FollowAtRest
<1>3. writer \in Inodes /\ Nowhere \notin Inodes
  BY <1>2, InodesAssumption
<1> DEFINE w == [k \in 1..n |-> k]
<1>4. w \in Seq(Nat) /\ Len(w) = n /\ \A k \in 1..n : w[k] = k
  OBVIOUS
<1>5. \A f \in Inodes : disk[f] = IF f = writer THEN w ELSE <<>>
  BY <1>1
<1> HIDE DEF w
<1>6. disk \in [Inodes -> Seq(Nat)]
  <2>1. <<>> \in Seq(Nat) /\ disk = [i \in Inodes |-> IF i = writer THEN w ELSE <<>>]
    BY <1>1 DEF w
  <2> QED
    BY <1>4, <2>1
<1>7. FollowTypes
  <2>1. <<>> \in Seq(Nat) /\ <<>> \in Seq(Seq(Nat)) /\ 0 \in Nat
    OBVIOUS
  <2> QED
    BY <1>1, <1>2, <1>3, <1>6, <2>1 DEF FollowTypes, Places
<1>8. PlaceInv
  BY <1>2 DEF PlaceInv, Places
<1>9. Yielded = <<>> /\ Shown = <<>>
  <2>1. <<>> \o <<>> = <<>>
    OBVIOUS
  <2> QED
    BY <1>2, <2>1 DEF Yielded, Shown
<1>10. FollowBounds
  <2>1. \A f \in Inodes : Old(disk[f])
    BY <1>1, <1>4, <1>5 DEF Old
  <2>2. Old(pending) /\ Old(corpus) /\ BreaksIn(pending) = {}
    BY <1>2 DEF Old, BreaksIn
  <2> QED
    BY <1>9, <2>1, <2>2 DEF FollowBounds
<1>11. DiskInv
  <2>1. ASSUME NEW f \in Inodes, NEW j \in 1..Len(disk[f])
        PROVE  disk[f][j] = disk[f][1] + j - 1 /\ (disk[f][j] \in starts <=> j = 1)
    <3>1. disk[f] = w /\ j \in 1..n /\ 1 \in 1..n
      BY <1>4, <1>5
    <3>2. w[j] = j /\ w[1] = 1
      BY <1>4, <3>1
    <3> QED
      BY <1>1, <3>1, <3>2
  <2>2. disk[writer] # <<>> => Last(disk[writer]) = written
    <3>1. disk[writer] = w /\ (w # <<>> => n \in 1..n)
      BY <1>3, <1>4, <1>5
    <3> QED
      BY <1>1, <1>4, <3>1 DEF Last
  <2>3. path \notin {Nowhere, writer} => disk[path] = <<>>
    BY <1>2
  <2>4. path # Nowhere =>
            \A f \in Inodes \ {path} : \A i \in 1..Len(disk[f]), j \in 1..Len(disk[path]) :
                disk[f][i] < disk[path][j]
    <3>1. \A f \in Inodes : f # writer => Len(disk[f]) = 0
      BY <1>5
    <3>2. path # Nowhere => path = writer
      BY <1>2
    <3> QED
      BY <3>1, <3>2
  <2> QED
    BY <2>1, <2>2, <2>3, <2>4 DEF DiskInv
<1>12. FileInv /\ NextInv
  BY <1>2 DEF FileInv, NextInv, Following
<1>13. LinesInv /\ BackfillInv
  BY <1>2, <1>9 DEF LinesInv, Increasing, BackfillInv
<1> QED
  BY <1>7, <1>8, <1>10, <1>11, <1>12, <1>13 DEF FollowInv, FollowTypeInv

LEMMA FollowTypesHold == FollowTypeInv => FollowTypeOK
<1> SUFFICES ASSUME FollowTypeInv PROVE FollowTypeOK
  OBVIOUS
<1>1. FollowTypes /\ PlaceInv /\ FollowBounds
  BY DEF FollowTypeInv
<1>2. disk \in [Inodes -> Seq(1..written)]
  <2>1. disk \in [Inodes -> Seq(Nat)] /\ \A f \in Inodes : \A i \in 1..Len(disk[f]) : disk[f][i] \in 1..written
    BY <1>1 DEF FollowTypes, FollowBounds, Old
  <2>2. ASSUME NEW f \in Inodes PROVE disk[f] \in Seq(1..written)
    <3> DEFINE s == disk[f]
    <3>1. s \in Seq(Nat) /\ \A i \in 1..Len(s) : s[i] \in 1..written
      BY <2>1
    <3> HIDE DEF s
    <3>2. s \in Seq(1..written)
      <4>1. 1 \in Int /\ Len(s) \in Int /\ \A i \in 1..Len(s) : s[i] \in 1..written
        BY <3>1
      <4>2. SubSeq(s, 1, Len(s)) \in Seq(1..written)
        BY ONLY <4>1, SubSeqProperties
      <4>3. SubSeq(s, 1, Len(s)) = s
        BY <3>1
      <4> QED
        BY <4>2, <4>3, Zenon
    <3> QED
      BY <3>2 DEF s
  <2> QED
    BY <2>1, <2>2
<1> QED
  BY <1>1, <1>2 DEF FollowTypeOK, FollowTypes, PlaceInv, FollowBounds

LEMMA FollowTypeStep ==
    FollowTypeInv /\ DiskInv /\ [FollowNext]_<<hostVars, tailVars>> => FollowTypeInv' /\ DiskInv'
<1> SUFFICES ASSUME FollowTypeInv, DiskInv, [FollowNext]_<<hostVars, tailVars>> PROVE FollowTypeInv' /\ DiskInv'
  OBVIOUS
<1>1. CASE Host
  <2>1. DiskInv'
    BY <1>1, WriteKeepsDisk, FaultKeepsDisk DEF Host
  <2> QED
    BY <1>1, <2>1, HostKeepsTypes
<1>2. CASE Follower \/ Exits \/ Stop
  BY <1>2, FollowerKeepsTypes
<1>3. CASE UNCHANGED <<hostVars, tailVars>>
  <2>1. Yielded' = Yielded /\ Shown' = Shown
    BY <1>3 DEF tailVars, Shown, Yielded
  <2>2. FollowTypes' /\ PlaceInv' /\ DiskInv'
    BY <1>3 DEF hostVars, tailVars, FollowTypeInv, FollowTypes, PlaceInv, DiskInv
  <2>3. FollowBounds'
    BY <1>3, <2>1 DEF hostVars, tailVars, FollowTypeInv, FollowBounds, Old, BreaksIn
  <2> QED
    BY <2>2, <2>3 DEF FollowTypeInv
<1> QED
  BY <1>1, <1>2, <1>3 DEF FollowNext

LEMMA FollowStep ==
    ASSUME ~Regrows
    PROVE  FollowInv /\ [FollowNext]_<<hostVars, tailVars>> => FollowInv'
<1> SUFFICES ASSUME FollowInv, [FollowNext]_<<hostVars, tailVars>> PROVE FollowInv'
  OBVIOUS
<1>1. CASE Host
  BY <1>1, HostKeeps
<1>2. CASE Follower \/ Exits \/ Stop
  BY <1>2, FollowerKeeps
<1>3. CASE UNCHANGED <<hostVars, tailVars>>
  <2>1. UNCHANGED <<hostVars, corpus, backfill, place, fd, pos, pending, lines, ready>>
    BY <1>3 DEF tailVars
  <2>2. BackfillInv'
    BY <2>1, BackfillStays DEF FollowInv
  <2>3. /\ Yielded' = Yielded /\ Shown' = Shown /\ breaks' = breaks /\ starts' = starts
        /\ disk' = disk /\ path' = path /\ Following' = Following
    BY <2>1 DEF Yielded, Shown, hostVars, Following
  <2>6. FileInv'
    BY <2>1, <2>3 DEF FollowInv, FileInv, ReadTo, OlderThan
  <2>7. NextInv'
    BY <2>1, <2>3 DEF FollowInv, NextInv, OlderThan
  <2>8. LinesInv'
    BY <2>3 DEF FollowInv, LinesInv, IsLine, Increasing
  <2>5. FollowTypeInv' /\ DiskInv'
    BY <1>3, FollowTypeStep DEF FollowInv
  <2> QED
    BY <2>2, <2>5, <2>6, <2>7, <2>8 DEF FollowInv
<1> QED
  BY <1>1, <1>2, <1>3 DEF FollowNext

LEMMA FollowerAlone ==
    HostSpec => (FollowInit \/ FollowAtRest) /\ [][FollowNext]_<<hostVars, tailVars>>
<1>1. HostInit => FollowInit \/ FollowAtRest
  BY DEF HostInit
<1>2. [HostNext]_mcVars => [FollowNext]_<<hostVars, tailVars>>
  BY DEF HostNext, mcVars
<1> QED
  BY <1>1, <1>2, PTL DEF HostSpec

\* Whatever is written, rotated, truncated and read, for any sizes of blocks and
\* chunks and even if a truncated file regrows unseen: the follower has a file open
\* while it reads, an unfinished line holds no newline, and a child process runs for
\* a command only; and the requests keep their types (local.py 192-239, 367-397).
THEOREM HostTypeCorrect == HostSpec => []HostTypeOK
<1> DEFINE Inv == FollowTypeInv /\ DiskInv
<1>1. FollowInit \/ FollowAtRest => Inv
  BY FollowBegins DEF FollowInv
<1>2. Inv /\ [FollowNext]_<<hostVars, tailVars>> => Inv'
  BY FollowTypeStep
<1>3. Inv => FollowTypeOK
  BY FollowTypesHold
<1> HIDE DEF Inv
<1>4. HostSpec => []FollowTypeOK
  BY <1>1, <1>2, <1>3, FollowerAlone, PTL
<1>5. FollowTypeOK /\ RequestTypeOK => HostTypeOK
  BY DEF HostTypeOK
<1> QED
  BY <1>4, <1>5, RequestsTypeCorrect, PTL

\* For any log, any sizes and any writes, rotations, removals and truncations among
\* the follower's steps, unless a truncated file outgrows what was read before the
\* follower looks: the backfill is the last lines of the log, and each line that
\* follows is one as it was written, once, in order and never the pieces of two
\* files (local.py 57-79, 367-397).
THEOREM FollowerShowsWhatIsWritten == ASSUME ~Regrows PROVE HostSpec => []ShownIsWritten
<1>1. FollowInit \/ FollowAtRest => FollowInv
  BY FollowBegins
<1>2. FollowInv /\ [FollowNext]_<<hostVars, tailVars>> => FollowInv'
  BY FollowStep
<1>3. FollowInv => ShownIsWritten
  BY FollowInvShows
<1> QED
  BY <1>1, <1>2, <1>3, FollowerAlone, PTL
=============================================================================
