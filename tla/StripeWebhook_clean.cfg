SPECIFICATION FairSpec
CONSTANTS
    email = email
    name = name
    nameless = nameless
    unlinked = unlinked
    agr = agr
    NoAgreement = NoAgreement
    NoSession = NoSession
    Agreements = {agr}
    Agreement <- MCAgreement
    Subscribed <- MCSubscribed
    Sessions = {email, name, nameless, unlinked}
    Named = {email, name, unlinked}
    Emailed = {email, unlinked}
    Handlers = {h1, h2}
    StagingModes = {TRUE}
    Faults <- CleanFaults
    Timeouts = FALSE
    Restarts = FALSE
INVARIANTS
    GivenOrHeldOnce
PROPERTY PaymentsIngested

\* When every session has been acknowledged nothing is left to do.
CHECK_DEADLOCK FALSE
