SPECIFICATION FairSpec
CONSTANTS
    i1 = i1
    w1 = w1
    w2 = w2
    c1 = c1
    g1 = g1
    g2 = g2
    None = None
    Insts = {i1}
    Workers = {w1, w2}
    Callers = {c1}
    Home <- OneHome
    Gates = {g1, g2}
    Writes = {"version", "ref"}
    Window = 1
    Faults = {"forge", "db", "drop", "untold", "crash"}
INVARIANTS
    PushesDoNotOverlap
    OutcomesInOrder
    ToldIsComing
    GateMapIsClean
    LagIsVisible
PROPERTIES
    EveryEventIsPushed
