SPECIFICATION OneTableSpec
CONSTANTS
    d1 = d1
    d2 = d2
    t1 = t1
    notx = notx
    Daos = {d1, d2}
    Steady = {d1}
    Shapes <- MCShapes
    NoTx = notx
    Batch = 2
    MaxRows = 3
    MaxSwaps = 3
    MaxRewrites = 1
    MaxFaults = 1
INVARIANTS
    OneNoticePerProposal
    PassedRowsAreNoticed
    OpenSwapsStayAhead

    
