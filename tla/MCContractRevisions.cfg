CONSTANTS
    rAddr = rAddr
    hAddr = hAddr
    vAddr = vAddr
    rKey = rKey
    hKey = hKey
    fKey = fKey
    RenterAddr <- rAddr
    HostAddr <- hAddr
    VoidAddr <- vAddr
    RenterKey <- rKey
    HostKey <- hKey
    ForeignKey <- fKey
    RenewValidLens = {1, 2}
    RenewMissedLens = {1, 2, 3}
    MaxRevision <- MCMaxRevision
    WindowSize = 1
    MaxDuration = 1
    ContractPrice = 0
    MaxCollateral = 2
    Values = {0, 1, 2}
    Payout = 2
    Payments = {0, 1, 3}
    Burns = {0, 1}
    ValidLens = {1, 2, 3}
    MissedLens = {1, 2, 3, 4}
    Files <- MCFiles
    Heights = {1, 2}
    CurrentHeight = 0
SPECIFICATION Spec
INVARIANT TypeOK
INVARIANT ConsensusValidUnlessCleared
INVARIANT HostPaidUnlessCleared
PROPERTY RevisionNumberMonotone
