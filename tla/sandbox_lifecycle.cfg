\* A create(), then a wait and a terminate() at once, on a Client that was given or not.
SPECIFICATION FairLifecycleSpec
CONSTANTS
    create = create
    w1 = w1
    t1 = t1
    None = None
    Creator = create
    Waiters = {w1}
    Terminators = {t1}
    Grace = 1
    Timed = {create, t1}
\* Everything may have ended.
CHECK_DEADLOCK FALSE
INVARIANTS NoOrphan ClientKept FallbackWarranted TerminateMeansStopped
PROPERTIES TimeoutEnds WaitEnds
