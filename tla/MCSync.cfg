SPECIFICATION Spec
CONSTANTS
    t1 = t1  t2 = t2  t3 = t3  None = None
    Tx <- MCTx
    MaxBlockCountForRetrieving = 2
    MaxTransactionCountForRetrieving = 2
    MaxHeight = 4
    MaxEvents = 2
INVARIANTS SyncTypeOK CaughtUp RangeAccepted StaleInventoryOnly FoundInSameReply
PROPERTY SyncEnds
CHECK_DEADLOCK FALSE
