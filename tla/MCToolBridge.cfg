CONSTANTS
    s1 = s1
    s2 = s2
    c1 = c1
    c2 = c2
    w1 = w1
    w2 = w2
    r1 = r1
    r2 = r2
    None = None
    Sessions = {s1, s2}
    Calls = {c1, c2}
    SessionOf <- OneSession
    Workers = {w1, w2}
    Requests = {r1, r2}
    MaxHops = 1
    JournalCap = 2
SPECIFICATION FairSpec
INVARIANTS
    AtMostOnce
    
PROPERTIES
    JournalAdvances
    ImplementsContract
    QueuedServed
