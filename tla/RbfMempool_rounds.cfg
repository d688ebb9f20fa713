\* Two versions of a payment, one block that confirms either or neither,
\* failing requests, and clear protection from one transaction on.
SPECIFICATION CombinedFairSpec
CONSTANTS
    a = a
    b = b
    x = x
    None = None
    Txid = {a, b}
    Outpoint = {x}
    Spends <- Versions
    Fee <- Rising
    Esplora = TRUE
    ProtectAbove = 0
    NaiveBelow = 50
    Depth = 1
    MaxBlocks = 1
    Signals = {a, b}
INVARIANT
    ConflictsExcused
PROPERTIES
    CatchesUp
    EverythingExpires
