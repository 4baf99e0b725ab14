SPECIFICATION Spec
CONSTANTS
    p1 = p1
    p2 = p2
    s1 = s1
    b1 = b1
    c1 = c1
    c2 = c2
    Packets = {p1}
    Searches = {s1}
    Browses = {b1}
    Callers = {c1}
    QueueLen = 2
    MaxCalls = 2
PROPERTY NewsDelivered
CHECK_DEADLOCK FALSE
