SPECIFICATION FairSpec
CONSTANTS
    Tabs = {t1, t2}
    t1 = t1
    Requests = {r1, r2}
    TabOf <- OneTab
    MaxPairs = 3
    Steps = 2
    Rotates = TRUE
    Outages = FALSE
    NoTab = NoTab
    None = None
INVARIANTS
    SessionInv
    DoneTwiceOnlyIfCut
PROPERTIES
    SessionIsKept
    WaitingEnds
