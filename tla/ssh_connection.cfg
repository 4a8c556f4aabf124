\* A run, with or without a deadline, an attached channel and a close() on one manager.
SPECIFICATION FairSpec
CONSTANTS
    r1 = r1
    a1 = a1
    x1 = x1
    c1 = c1
    c2 = c2
    c3 = c3
    None = None
    Runs = {r1}
    Attached = {a1}
    Closers = {x1}
    Conns = {c1, c2, c3}
    Budget = 2
    Deadline = 2
\* Everything may have ended.
CHECK_DEADLOCK FALSE
INVARIANTS
    NoTransportLeft
    ClosedForGood
PROPERTIES
    Undisturbed
    RunEnds
    CloseEndsAll
