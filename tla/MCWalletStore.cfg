\* The wallet store under errors and crashes at every point of an update.
\* Deadlock is not checked: once the store holds the last change the
\* subscriber waits for the next block, which this chain never delivers.
CONSTANTS
    u1 = u1
    u2 = u2
    u3 = u3
    t1 = t1
    t2 = t2
    UtxoIds <- MCUtxoIds
    TxnIds <- MCTxnIds
    TxnPos <- MCTxnPos
    Changes <- MCChanges
    MaxFaults = 2
SPECIFICATION FairSpec
PROPERTY WalletRefinesSync
PROPERTY WalletCatchesUp
CHECK_DEADLOCK FALSE
