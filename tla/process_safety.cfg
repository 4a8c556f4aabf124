\* Termination, cleanup and two reads of one stream of a recovered job, in every order.
SPECIFICATION Spec
CONSTANTS
    p = p
    None = None
    Handles = {p}
    Recovered = {p}
    Ops = {"stop", "clean", "out", "outToo"}
    Captured = {"out"}
    Retain = FALSE
    MaxBytes = 1
    ChunkSize = 1
    CallsMayFail = TRUE
    BadText = TRUE
INVARIANTS
    TypeOK
    EofMeansAll
    NoGaps
    OwnReadsFindJob
    StoppedMeansOver
PROPERTY RemovesOnlyFinished
