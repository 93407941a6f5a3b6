CONSTANTS
    n1 = n1
    n2 = n2
    n3 = n3
    b1 = b1
    Node = {n1, n2, n3}
    Block = {b1}
    Proposer <- OneBlock
    minApprovals = 2
SPECIFICATION Spec
SYMMETRY Voters
INVARIANTS TypeOK CommitCertificate PrepareCertificate CommitedHasBlock Evidence
PROPERTY NoRevival
