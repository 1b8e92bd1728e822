SPECIFICATION Spec
CONSTANTS
    Rows = {r1}
    Gifts = {g1, g2, g3}
    People = {p1, p2}
    Handlers = {h1, h2}
    RecurringRows = {r1}
    NoRow = NoRow
    NoGift = NoGift
    NoPerson = NoPerson
    NoPayload = NoPayload
    MaxAttempts = 2
    MaxRequests = 4
    Operations = {"stage_only", "process", "mark_ready"}
    Contacts = {"none", "email"}
    Faults <- Reliable
    Restarts = FALSE
INVARIANT ProcessingLockIsExclusive

CHECK_DEADLOCK FALSE
