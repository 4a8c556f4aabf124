\* Refusals, expiry, rotation and crashes; two clients on one cache.
SPECIFICATION Spec
CONSTANTS
    o1 = o1
    o2 = o2
    o3 = o3
    c1 = c1
    c2 = c2
    w1 = w1
    k1 = k1
    k2 = k2
    None = None
    Openers = {o1, o2, o3}
    Home <- MCHome
    Space <- MCSpace
    Keys = {k1, k2}
    MaxMints = 3
    MaxChanges = 1
\* Connections need not be opened.
CHECK_DEADLOCK FALSE
SYMMETRY MCSymmetry
INVARIANTS
    TypeOK
    
    RefusedIsReplaced
