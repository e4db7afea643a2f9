SPECIFICATION SafeSpec
CONSTANTS
    c1 = c1
    w1 = w1
    w2 = w2
    Items = {c1, w1, w2}
    Severity <- MCSeverity
    Workers = {g1, g2}
    DrainWaiters = {d1}
    InflightWaiters = {n1}
    NoItem = NoItem
INVARIANTS ExactlyOnePlace NoLostWakeup SleepIsJustified DrainCoversAccepted
PROPERTIES SeverityThenAge
