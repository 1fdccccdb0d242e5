SPECIFICATION DetectorSpec
CONSTANTS
    d1 = d1
    d2 = d2
    t1 = t1
    notx = notx
    Daos = {d1, d2}
    Steady = {d1}
    Shapes <- MCShapes
    NoTx = notx
    Batch = 2
    MaxRows = 0
    MaxSwaps = 2
    MaxRewrites = 0
    MaxFaults = 0
PROPERTIES
    FilledSwapsAreNoticed
