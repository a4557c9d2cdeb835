CONSTANTS
    Conns = {c1, c2}
    Requests = {r1}
    None = None
SPECIFICATION Spec
INVARIANT ConnectedIsShown
