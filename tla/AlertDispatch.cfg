CONSTANTS
    p1 = p1
    p2 = p2
    Sentinel = Sentinel
    Producer = {p1, p2}
    Raised <- MCRaised
    QueueMax <- MCQueueMax
    HandlerCount <- MCHandlerCount
    Wanted <- MCWanted
    Matching <- MCMatching
SPECIFICATION FairSpec
INVARIANT
    DispatchSafety
PROPERTY
    DispatchSettles
