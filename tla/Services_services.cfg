\* Births and sweeps, the rate limit, the write gate, the marks, the canon's text, the author's files.
SPECIFICATION Spec
CONSTANTS
    Lists = {"l1", "l2", "l3"}
    BirthFaults = {"git", "commit", "ack", "crash", "cancel"}
    MaxBirthFaults = 2
    MaxSweeps = 1
    Methods = {"light", "heavy"}
    LimitOf <- MCLimit
    Window = 2
    MaxNow = 6
    MaxCommit = 3
    Texts <- MCTexts
    SizeOf <- MCSize
    Banned = {2}
    MaxBytes = 3
    BlockIds = {"a", "b"}
    MaxBlocks = 2
    MaxRefs = 1
    MaxTextBlocks = 2
    Paths <- MCPaths
    ShapeOf <- MCShape
    NameSize <- MCName
    Contents <- MCContents
    MaxFiles = 2
    MaxTreeBytes = 6
INVARIANTS
    AuthoredFilesAreSafe
    LimitIsExact
    PushIsJudged
    MarksAgree
    StrictMeansLossless
PROPERTIES
    DirectoriesMatchLists
    MarkIsKept
CHECK_DEADLOCK FALSE
