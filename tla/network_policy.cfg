\* An update, those of others, and a terminate() in between.
SPECIFICATION FairSpec
CONSTANTS
    create = create
    t1 = t1
    u1 = u1
    others = others
    None = None
    Creator = create
    Waiters = {}
    Terminators = {t1}
    Timed = {create}
    Grace = 1
    Updaters = {u1}
    Others = others
    MaxGeneration = 2
\* Everything may have ended.
CHECK_DEADLOCK FALSE
INVARIANTS
    TypeOK
    SuccessMeansInForce
    NeverReplayed
PROPERTY UpdateEnds
