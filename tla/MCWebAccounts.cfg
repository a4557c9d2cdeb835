CONSTANTS
    Tabs = {t1}
    Calls = {c1, c2}
    Ephemeral = TRUE
    Domain = FALSE
    Faults = {"deactivate", "network"}
    Agents = {a1, a2}
    NoAgent = NoAgent
    Hands = {h1, h2}
    Ttl = 0
    MaxTokens = 2
    MaxCodes = 2
    MaxTime = 1
SPECIFICATION AccountsSpec
SYMMETRY Symmetry
CHECK_DEADLOCK FALSE
INVARIANTS AccountsTypeOK AsTheUserAsked HostIsItself
PROPERTIES GivesUpOnlyIfLapsed LinkServedOnce
