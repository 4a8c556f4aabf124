\* Two submissions, a SIGTERM, a SIGKILL, wrappers that may be killed and a removal.
SPECIFICATION Spec
CONSTANTS
    s1 = s1
    s2 = s2
    t1 = t1
    t2 = t2
    k1 = k1
    d1 = d1
    d2 = d2
    None = None
    Submitters = {s1, s2}
    TermShells = {t1}
    KillShells = {k1}
    Descendants = {d1, d2}
    WrapperCrashes = TRUE
\* A job may stay where it is for good: nobody has to submit, signal or remove it.
CHECK_DEADLOCK FALSE
SYMMETRY MCSymmetry
\* A job that was published again stays so, and no property here is about it.
CONSTRAINT FirstLife
INVARIANTS
    AtMostOnce
    TermReachesPayload
    TerminalMeansOver
    AckMeansStarted
PROPERTIES
    StatusAdvances
    OnlyStragglersRevive
    ImplementsLifecycle
