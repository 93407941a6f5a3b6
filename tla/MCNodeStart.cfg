SPECIFICATION NodeSpec
CONSTANTS
    g = g  a1 = a1  a2 = a2  b1 = b1  b2 = b2  w1 = w1  w2 = w2  k1 = k1  k2 = k2
    Block = {g, a1, a2, b1, b2}
    Genesis = g
    Parent <- MCParent
    Height <- MCHeight
    Writer = {w1, w2}
    None = None
    Key = {k1, k2}
    Config <- MCConfig
INVARIANTS NodeTypeOK NoGaps AncestorsStored StoreSound StartsAgain VotesAreHeard
