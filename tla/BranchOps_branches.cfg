\* Every call on the references of a list, with one crash, git failure or dropped handler.
SPECIFICATION Spec
CONSTANTS
    p1 = p1
    p2 = p2
    A = A
    B = B
    nick = nick
    nobody = nobody
    Procs <- MCProcs
    Drafts <- MCDrafts
    People <- MCPeople
    Nick <- nick
    Nobody <- nobody
    Pushes <- MCPushes
    Kinds <- AllKinds
    Faults = {"crash", "git", "cancel"}
    MaxVersion = 5
    MaxCalls = 3
    MaxFaults = 1
SYMMETRY Symmetry
INVARIANTS
    CreditedIsOwn
    MagicIsTransient
    VersionTagsAreVersions
    EveryMoveIsVersioned
    PushedDraftIsKept
PROPERTIES
    MainKeepsWork
    StrictEditKeepsBranch
