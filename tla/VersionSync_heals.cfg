SPECIFICATION Spec
CONSTANTS
    p1 = p1
    p2 = p2
    b1 = b1
    b2 = b2
    t1 = t1
    t2 = t2
    Junk = Junk
    NoRow = NoRow
    Nobody = Nobody
    Procs = {p1, p2}
    Bodies = {b1, b2}
    Titles = {t1}
    Kinds = {"web", "push", "read"}
    JunkFrom = {"push", "merge"}
    Faults = {"crash", "db", "ack", "git", "tag", "loseMain", "loseTag", "loseDir"}
    PushedNumbers = {0}
    MaxVersion = 6
    MaxCalls = 3
    MaxFaults = 1
SYMMETRY Symmetry
INVARIANTS
    HealableAtRest
PROPERTIES
    TagsNeverMove
