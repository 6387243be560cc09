CONSTANTS
    i1 = i1
    i2 = i2
    i3 = i3
    s1 = s1
    s2 = s2
    e1 = e1
    e2 = e2
    e3 = e3
    e4 = e4
    Item = {i1, i2, i3}
    Source = {s1, s2}
    Event = {e1, e2, e3, e4}
    Worker = {w1, w2}
    SourceOf <- MCSourceOf
    EventsOf <- MCEventsOf
    MaxSize = 2
    FlushMax = 2
SPECIFICATION FairSpec
INVARIANTS
    QueueSafety
    WrittenBacked
PROPERTIES
    ImplementsDelivery
    QueueSettles
