SPECIFICATION Spec
CONSTANTS
    p = p  q = q  None = None
    Account <- MCAccount
    Holding <- MCHolding
    Spare <- MCSpare
    Amount <- MCAmount
    Round <- MCRound
    Draw <- MCDraw
    Data <- MCData
    proposer = p
    minimumStake = 2
    minerReward = 2
    MinMinerStake = 2
    MaxTime = 0
    MaxHeight = 2
    MaxMoves = 2
INVARIANTS ElectionTypeOK  AcceptedDecodes PanicNeedsNoStake DrawIsFair
PROPERTY ValidationEnds
CHECK_DEADLOCK FALSE
