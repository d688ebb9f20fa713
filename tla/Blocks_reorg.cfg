\* A chain with two branches (r a2 a3 / r b2 b3 b4), one exception or kill.
SPECIFICATION Spec
CONSTANTS
    r = r
    a2 = a2
    a3 = a3
    b2 = b2
    b3 = b3
    b4 = b4
    None = None
    Block = {r, a2, a3, b2, b3, b4}
    Height <- HeightDef
    Prev <- PrevDef
    InitialAmount = 1
    DiskInterval = 2
    MaxFailures = 1
INVARIANTS
    TypeOK
    ServedChain
    MemoryMatchesTable
    TableOnBestChain
