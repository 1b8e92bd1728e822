SPECIFICATION Spec
CONSTANTS
    People = {p, q}
    NoPerson = NoPerson
    NoKey = NoKey
    NoGift = NoGift
    MaxEdits = 1
SYMMETRY Persons
INVARIANTS
    UnseenGiftsAreComplete
    NamesakesAreReviewed
    EligibleRowsAreValid
PROPERTIES
    ReceiptIsRight
    ChosenDonorGetsTheGift
CHECK_DEADLOCK FALSE
