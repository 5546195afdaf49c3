SPECIFICATION FairSpec
CONSTANTS
    Inst = {a, b}
    Headless = {b}
    Tuis = {a}
    Viewers = {b}
    Kids = 2
    MaxAge = 0
    MaxRows = 5
    None = None
INVARIANTS
    RowsNameChildren
PROPERTIES
    NoGhostRows
    LiveFileReturns
    DeadFileGoes
    DeadLeavesRows
