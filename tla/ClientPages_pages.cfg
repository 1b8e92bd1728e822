SPECIFICATION FairSpec
CONSTANTS
    Slots = {s1, s2}
    Rows = {a, b}
    Noted = {a}
    NoRow = NoRow
    Blank = Blank
    Garbled = Garbled
    DrawerClicks = 4
    QueuedGifts = {m, n}
    Batches = {t}
    BatchOf <- OneInBatch
    QueueClicks = 3
    EntryContacts = {ann, bob}
    ShortContacts = {bob}
    EntryDetails = {blank, full}
    BlankDetails = blank
    IncompleteDetails = {blank}
    Donors = {d}
    Directory <- Changing
    LookupBound = 1
    Payouts = {x, y}
    Recorded = {x}
    Gifts = {g, h}
    PayoutClicks = 3
    People = {p, q}
    Households = {j, k, l}
    Known = {j}
    HouseholdClicks = 4
    Appealed = {c, e, i}
    Launched = {c, e}
    AppealClicks = 4
    None = None
INVARIANTS
    PagesInv
    ContentStaysPut
    SubmittedOnce
    HintsAreCurrent
    MessageIsTrue
PROPERTIES
    SavedIsTyped
    PagesSettle
CHECK_DEADLOCK FALSE
