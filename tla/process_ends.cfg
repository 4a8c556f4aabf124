\* Operations that compete for the status lock, and the background removal.
SPECIFICATION FairSpec
CONSTANTS
    p = p
    None = None
    Handles = {p}
    Recovered = {}
    Ops = {"wait", "stop", "out"}
    Captured = {"out"}
    Retain = FALSE
    MaxBytes = 1
    ChunkSize = 1
    CallsMayFail = FALSE
    BadText = TRUE
PROPERTIES
    CallsEnd
    AutoRemoved
