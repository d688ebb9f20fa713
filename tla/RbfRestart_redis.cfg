\* Redis lost some tx entries or kept the entries of absorbed trees: the
\* import drops a node whose transaction is unknown but keeps its links.
SPECIFICATION RestartSpec
CONSTANTS
    a = a
    b = b
    c = c
    None = None
    Txid = {a, b, c}
    Signals = {a, b, c}
    Conflict <- AllConflict
SYMMETRY TxSymmetry
INVARIANT
    InvariantsUpheld
