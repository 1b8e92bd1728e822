SPECIFICATION FairSpec
CONSTANTS
    Plan <- Excerpt
    Core <- MCCore
    Installs <- MCInstalls
    Reserved <- MCReserved
    Runs = {r1, r2}
    MaxAttempts = 2
    MaxFaults = 2
INVARIANTS
    IInv
    CompleteLeavesNothingOut
    AsksOnlyForTheMissing
PROPERTY SetupCompletes
