\* Four transactions: a chain of four versions, a merge of three trees, two
\* separate histories. Two signal replaceability, two do not.
SPECIFICATION Spec
CONSTANTS
    a = a
    b = b
    c = c
    d = d
    None = None
    Txid = {a, b, c, d}
    Signals = {a, b}
SYMMETRY TxSymmetry
INVARIANTS
    TypeOK
    DocumentedInvariants
    ViewsAgree
    FullRbfExact
    ChangesAreDirty
PROPERTIES
    ForgetsWholeExpiredTrees
    ImplementsVersions
