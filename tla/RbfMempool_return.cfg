\* The same without blocks, failures and clear protection: the newer version
\* is dropped by the node and comes back.
SPECIFICATION CombinedFairSpec
CONSTANTS
    a = a
    b = b
    x = x
    None = None
    Txid = {a, b}
    Outpoint = {x}
    Spends <- Versions
    Fee <- Rising
    Esplora = FALSE
    ProtectAbove = 2
    NaiveBelow = 50
    Depth = 1
    MaxBlocks = 0
    Signals = {a, b}
PROPERTY
    NewerVersionsKeep
