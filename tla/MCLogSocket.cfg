CONSTANTS
    Panels = {p1, p2}
    Subs = {s1, s2, s3, s4}
    Filters = {f1}
    None = None
    Backlog = 2
    Faults = {"drop", "refuse", "expire"}
    Sockets = {w1, w2, w3}
SPECIFICATION TabFairSpec
INVARIANTS TypeOK Restored StreamsArrive NeverLeft
PROPERTIES Reconnects
