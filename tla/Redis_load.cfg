\* Replacements: three transactions (a chain of three versions, a merge of two,
\* separate trees); all signal, which only the full-RBF mark would tell apart.
\* Mempool: slices of one removal each, and two connections whose callbacks may
\* overlap.
SPECIFICATION KeptSpec
CONSTANTS
    a = a
    b = b
    c = c
    None = None
    Txid = {a, b, c}
    Signals = {a, b, c}
    Conflict <- AllConflict
    Tx = {1, 2}
    FlushLimit = 2
    BatchSize = 1
    Connections = {"connection", "next connection"}
    MaxQueue = 2
    MaxOutages = 2
SYMMETRY TxSymmetry
INVARIANTS
    InvariantsAfterRestart
    ServedTreesDisjoint
    StoredOrQueued
    LeftoversGo
PROPERTY
    RestartKeepsHistory
