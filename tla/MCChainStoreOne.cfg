CONSTANTS
    g = g
    a1 = a1
    a2 = a2
    a3 = a3
    b1 = b1
    b2 = b2
    w1 = w1
    w2 = w2
    Block = {g, a1, a2, a3, b1, b2}
    Genesis = g
    Parent <- MCParent
    Height <- MCHeight
    Writer = {w1}
    None = None
SPECIFICATION Spec
INVARIANTS Linked 
PROPERTY ImplementsLedger
