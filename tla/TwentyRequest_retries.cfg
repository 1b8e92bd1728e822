SPECIFICATION FairSpec
CONSTANT MaxAttempts = 3
INVARIANTS
    IInv
    ReturnedMeansApplied
    ResentOnlyInDoubt
PROPERTIES
    ImplementsCall
    CallEnds

\* The call ends.
CHECK_DEADLOCK FALSE
