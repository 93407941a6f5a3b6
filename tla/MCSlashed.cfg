SPECIFICATION Spec
CONSTANTS
    n1 = n1  n2 = n2  n3 = n3  x = x  y = y  None = None
    Account <- MCAccount
    Proposer <- MCProposer
    MaxRequests = 1
    Answer <- MCAnswer
    Payload <- MCPayload
    Spare <- MCSpare
    Changing <- MCAccount
    Holding <- MCHolding
    Amount <- MCAmount
    minimumStake = 2
    minerReward = 2
    minStake = 1
    voteWindowTime = 1
    voteWindow = 1
    MAXIMUM_DELAY = 0
    MaxTime = 1
    MaxStored = 4
    MaxChanges = 0
INVARIANT SlashedSubmitted
CHECK_DEADLOCK FALSE
