\* A download that is cancelled or timed out while it is being published.
SPECIFICATION Spec
CONSTANTS
    e1 = e1
    e2 = e2
    e3 = e3
    kept = kept
    None = None
    Entries <- MCEntries
    Kept = kept
    MaxRuns = 3
\* A transfer ends.
CHECK_DEADLOCK FALSE
SYMMETRY MCSymmetry
INVARIANT WholeOrNothing
