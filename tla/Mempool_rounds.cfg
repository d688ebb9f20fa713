\* Two compatible transactions and one that conflicts with both, one block,
\* failing slices, clear protection from two transactions on.
SPECIFICATION Spec
CONSTANTS
    a = a
    b = b
    c = c
    x = x
    y = y
    None = None
    Txid = {a, b, c}
    Outpoint = {x, y}
    Spends <- Fork
    Fee <- Rising
    Esplora = TRUE
    ProtectAbove = 1
    NaiveBelow = 50
    Depth = 2
    MaxBlocks = 1
INVARIANTS
    TypeOK
    SpendMapSound
    SpendMapComplete
    ConfirmedLeave
    RemovedWereDropped
    ReplacementsReported
