\* Uploads and downloads of files and directories over files, directories and links.
SPECIFICATION Spec
CONSTANTS
    e1 = e1
    e2 = e2
    e3 = e3
    kept = kept
    None = None
    Entries <- MCEntries
    Kept = kept
    MaxRuns = 3
\* A transfer ends.
CHECK_DEADLOCK FALSE
SYMMETRY MCSymmetry
INVARIANTS
    OkMeansWhole
    OldOrWhole
    NothingLeft
    RepeatSucceeds
