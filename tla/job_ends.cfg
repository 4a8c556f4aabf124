\* Two submissions of a job whose command may never end.
SPECIFICATION FairSpec
CONSTANTS
    s1 = s1
    s2 = s2
    t1 = t1
    t2 = t2
    k1 = k1
    d1 = d1
    d2 = d2
    None = None
    Submitters = {s1, s2}
    TermShells = {}
    KillShells = {}
    Descendants = {}
    WrapperCrashes = TRUE
\* A job may stay where it is for good: nobody has to submit, signal or remove it.
CHECK_DEADLOCK FALSE
\* Followed until the job is published again after its removal.
CONSTRAINT FirstLife
PROPERTY SubmissionEnds
