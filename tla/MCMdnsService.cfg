SPECIFICATION Spec
CONSTANTS
    p1 = p1
    p2 = p2
    s1 = s1
    b1 = b1
    c1 = c1
    c2 = c2
    Packets = {p1, p2}
    Searches = {s1}
    Browses = {b1}
    Callers = {c1, c2}
    QueueLen = 2
    MaxCalls = 3
INVARIANTS TypeOK QueuedHasAction PendingAlive FreedOnce
PROPERTIES SentWhenDue ReturnsWhenSet SearchEnds CallerGetsOn
CHECK_DEADLOCK FALSE
