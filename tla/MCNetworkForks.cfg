CONSTANTS
    n1 = n1
    n2 = n2
    n3 = n3
    b1 = b1
    b2 = b2
    t1 = t1
    g = g
    Node = {n1, n2}
    Block = {b1, b2}
    Proposer <- TwoBlocks
    minApprovals = 1
    Tx = {t1}
    Genesis = g
    Stake <- SameStake
    Timestamp <- SameTime
    Faults = {}
SPECIFICATION NetSpec
SYMMETRY SwapMiners
INVARIANTS SubmitOnce VotersHoldParent StoredWasVoted 
