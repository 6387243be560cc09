CONSTANTS
    e1 = e1
    e2 = e2
    e3 = e3
    t1 = t1
    t2 = t2
    None = None
    Action = {e1, e2, e3}
    Target = {t1, t2}
    TargetOf <- MCTargetOf
    After <- MCAfter
    Limit = 1
    MaxTime = 4
    MaxFaults = 2
SPECIFICATION FairSpec
INVARIANT
    RevertSafety
PROPERTY
    RevertSettles
