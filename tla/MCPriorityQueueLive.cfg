SPECIFICATION Spec
CONSTANTS
    c1 = c1
    w1 = w1
    w2 = w2
    Items = {c1, w1}
    Severity <- MCSeverity
    Workers = {g1, g2}
    DrainWaiters = {d1}
    InflightWaiters = {n1}
    NoItem = NoItem
PROPERTIES NobodyWaitsForever ImplementsPool
