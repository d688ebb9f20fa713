\* A chain with two branches (r a2 a3 / r b2 b3), one exception or kill.
SPECIFICATION FairSpec
CONSTANTS
    r = r
    a2 = a2
    a3 = a3
    b2 = b2
    b3 = b3
    b4 = b4
    None = None
    Block = {r, a2, a3, b2, b3}
    Height <- HeightDef
    Prev <- PrevDef
    InitialAmount = 1
    DiskInterval = 2
    MaxFailures = 1
PROPERTIES
    CatchesUp
    StaleMarksHeal
