SPECIFICATION FairSpec
CONSTANTS
    Rows = {r1}
    Gifts = {g1, g2}
    People = {p1, p2}
    Handlers = {h1, h2}
    RecurringRows = {r1}
    NoRow = NoRow
    NoGift = NoGift
    NoPerson = NoPerson
    NoPayload = NoPayload
    MaxAttempts = 2
    MaxRequests = 3
    Operations = {"gift", "stage_only", "process", "mark_ready"}
    Contacts = {"email"}
    Faults <- Impatient
    Restarts = FALSE
PROPERTY EveryRequestAnswered

CHECK_DEADLOCK FALSE
