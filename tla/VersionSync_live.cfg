SPECIFICATION ReadSpec
CONSTANTS
    p1 = p1
    p2 = p2
    b1 = b1
    b2 = b2
    t1 = t1
    t2 = t2
    Junk = Junk
    NoRow = NoRow
    Nobody = Nobody
    Procs = {p1, p2}
    Bodies = {b1}
    Titles = {t1}
    Kinds = {"web", "push", "merge", "read", "reproject"}
    JunkFrom = {"push"}
    Faults = {"crash", "db", "ack", "git", "tag"}
    PushedNumbers = {0}
    MaxVersion = 6
    MaxCalls = 2
    MaxFaults = 1
PROPERTIES
    EveryCallReturns
    TipBecomesVersion
