\* The handle of a scheduled task is never reset, so a later request to
\* schedule it is ignored although nothing is scheduled.
SPECIFICATION Spec
CONSTANTS
    r1 = r1
    r2 = r2
    c1 = c1
    c2 = c2
    c3 = c3
    Runs = {r1, r2}
    Calls = {c1, c2, c3}
SYMMETRY CallSymmetry
INVARIANT
    RetryIsScheduled
