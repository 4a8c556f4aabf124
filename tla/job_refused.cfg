\* A retried submission is turned away by the running command.
SPECIFICATION Spec
CONSTANTS
    s1 = s1
    s2 = s2
    t1 = t1
    t2 = t2
    k1 = k1
    None = None
    Submitters = {s1, s2}
    TermShells = {}
    KillShells = {}
    d1 = d1
    d2 = d2
    Descendants = {d1, d2}
    WrapperCrashes = FALSE
\* A job may stay where it is for good: nobody has to submit, signal or remove it.
CHECK_DEADLOCK FALSE
PROPERTY RetryReconciles
