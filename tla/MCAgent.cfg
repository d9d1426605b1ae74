SPECIFICATION Spec
CONSTANTS
    g1 = g1
    g2 = g2
    s1 = s1
    s2 = s2
    n1 = n1
    n2 = n2
    p1 = p1
    Starter = {g1, g2}
    Stopper = {s1, s2}
    Poller = {g1, g2}
    Node = {n1, n2}
    InitNodes = {n1}
    Pod = {p1}
    MaxEvents = 4
    MaxClock = 2
    Scenarios <- CallersAndChanges
INVARIANTS
    TypeOK
    OneCycleAtATime
    ClosedOnce
    TerminationsExact
    NothingInvented
    PendingSampledOnce
PROPERTIES
    LoopsEnd
    LockGranted
CHECK_DEADLOCK FALSE
