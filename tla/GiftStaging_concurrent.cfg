SPECIFICATION Spec
CONSTANTS
    Rows = {r1}
    Gifts = {g1, g2, g3}
    People = {p1, p2}
    Handlers = {h1, h2}
    RecurringRows = {r1}
    NoRow = NoRow
    NoGift = NoGift
    NoPerson = NoPerson
    NoPayload = NoPayload
    MaxAttempts = 2
    MaxRequests = 4
    Operations = {"gift", "process", "mark_ready", "assign"}
    Contacts = {"email"}
    Faults <- Hostile
    Restarts = TRUE
SYMMETRY Ids
INVARIANTS
    ProcessedRowHasItsGift
    NoGiftWithoutApproval
    GiftHasDonor
    ProcessedReplyIsTrue
    AgreementFollowsGift
    FullInv
PROPERTY KeepsLedger

CHECK_DEADLOCK FALSE
