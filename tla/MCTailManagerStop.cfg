CONSTANTS
    Browsers = {b1, b2}
    Sessions = {s1, s2}
    Conns = {c1, c2}
    None = None
SPECIFICATION Spec
PROPERTY StopAfterLastBrowser
