CONSTANTS
    m1 = m1
    m2 = m2
    m3 = m3
    m4 = m4
    Message = {m1, m2, m3, m4}
    Refs <- MCRefs
    BatchMax = 2
    Budget = 2
    Visibility = 2
    MaxFaults = 2
SPECIFICATION FairSpec
INVARIANT
    FdrSafety
PROPERTIES
    RedeliveryNeedsFault
    NotificationsSettle
