SPECIFICATION Spec
CONSTANTS
    email = email
    name = name
    nameless = nameless
    unlinked = unlinked
    agr = agr
    NoAgreement = NoAgreement
    NoSession = NoSession
    Agreements = {agr}
    Agreement <- MCAgreement
    Subscribed <- MCSubscribed
    Sessions = {email, name, nameless}
    Named = {email, name}
    Emailed = {email}
    Handlers = {h1, h2}
    StagingModes = {TRUE, FALSE}
    Faults <- AllFaults
    Timeouts = TRUE
    Restarts = TRUE
INVARIANTS
    IInv
    AcknowledgedIsIngested

\* When every session has been acknowledged nothing is left to do.
CHECK_DEADLOCK FALSE
