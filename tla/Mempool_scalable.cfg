\* A payment that is replaced twice within two updates, with enough deletions
\* for the lookup table.
SPECIFICATION Spec
CONSTANTS
    a = a
    b = b
    c = c
    x = x
    y = y
    None = None
    Txid = {a, b, c}
    Outpoint = {x, y}
    Spends <- Chain
    Fee <- Rising
    Esplora = FALSE
    ProtectAbove = 1
    NaiveBelow = 2
    Depth = 2
    MaxBlocks = 0
INVARIANTS
    ReplacementsReported
