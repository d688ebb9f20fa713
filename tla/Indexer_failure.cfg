\* A reindex request during a run leaves an hourly timer behind, and the
\* failure of the next run is not retried before it goes off.
SPECIFICATION FairSpec
CONSTANTS
    r1 = r1
    r2 = r2
    c1 = c1
    c2 = c2
    c3 = c3
    Runs = {r1, r2}
    Calls = {c1, c2, c3}
PROPERTY
    RetriesSoon
