CONSTANTS
    Conns = {c1, c2, c3}
    Requests = {r1}
    None = None
SPECIFICATION FairSpec
INVARIANTS TypeOK PendingExact NewestWins AnswerFindsRequest ReachableIsOnline SessionsClosedIfPresent
PROPERTIES SetOnce RequestsReturn
