\* One submission, repeated SIGTERM and a SIGKILL, under a fair guest.
SPECIFICATION FairSpec
CONSTANTS
    s1 = s1
    s2 = s2
    t1 = t1
    t2 = t2
    k1 = k1
    d1 = d1
    d2 = d2
    None = None
    Submitters = {s1}
    TermShells = {t1, t2}
    KillShells = {k1}
    Descendants = {d1}
    WrapperCrashes = FALSE
\* A job may stay where it is for good: nobody has to submit, signal or remove it.
CHECK_DEADLOCK FALSE
PROPERTIES
    KillRecorded
    ExitRecorded
