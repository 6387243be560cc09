CONSTANTS
    u1 = u1
    u2 = u2
    u3 = u3
    f = f
    g = g
    stamped = stamped
    bare = bare
    noisy = noisy
    None = None
    Upload = {u1, u2, u3}
    File = {f, g}
    Line = {stamped, bare, noisy}
    FileOf <- MCFileOf
    LinesOf <- MCLinesOf
    Stamped = {stamped}
    Discarded = {noisy}
    Alerting = {stamped, bare, noisy}
    Muted = {bare}
    MaxCrashes = 1
SPECIFICATION FairSpec
INVARIANT
    UploadSafety
PROPERTY
    AlertsAreNotified
