SPECIFICATION Spec
CONSTANTS
    Rows = {r1, r2}
    Gifts = {g1, g2, g3}
    People = {p1, p2}
    Handlers = {h1}
    RecurringRows = {r1, r2}
    NoRow = NoRow
    NoGift = NoGift
    NoPerson = NoPerson
    NoPayload = NoPayload
    MaxAttempts = 2
    MaxRequests = 5
    Operations = {"gift", "stage_only", "process", "mark_ready", "assign", "save", "import"}
    Contacts = {"none", "email"}
    Faults <- Survivable
    Restarts = TRUE
SYMMETRY Ids
INVARIANTS
    OneGiftPerApproval
    DonorShownIsDonorUsed
    OneContactOnePerson

CHECK_DEADLOCK FALSE
