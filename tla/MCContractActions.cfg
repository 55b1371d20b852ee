\* Two contracts through formation, final revision and resolution, with a
\* transient error and a restart. Deadlock is not checked: once every
\* action is mined the dispatcher has nothing to do until the next tick.
CONSTANTS
    c1 = c1
    c2 = c2
    c3 = c3
    o1 = o1
    o2 = o2
    o3 = o3
    o4 = o4
    WordBase = 4
    LeafSize = 2
    LeavesPerSector = 2
    SeedWords = {0, 1, 2, 3}
    Contracts <- MCContracts
    Utxos <- MCUtxos
    Roots <- MCRoots
    WindowStart <- MCWindowStart
    ContractSeed <- MCContractSeed
    Tip = 3
    MaxErrors = 1
    MaxCrashes = 1
SPECIFICATION FairSpec
INVARIANT ReservationsHeld
PROPERTY AllActionsConfirmed
CHECK_DEADLOCK FALSE
