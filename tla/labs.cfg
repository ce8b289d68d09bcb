SPECIFICATION LabsSpec
CONSTANTS
    Box = 2
    Boards <- MCBoards
    Oracles = {1, 2}
    Seeds = {5, 6}
    MaxDrawn = 3
    Clients = {"c1", "c2", "c3"}
    Backlog = 2
    Archives <- MCArchives
    Names = {"f1", "f2", "no/f"}
    SegLen = 2
    Unwritable = {"no/f"}
    Rate = 2
    Width = 64
    MaxTime = 5
INVARIANTS
    ProgramsTypeOK
    SentValid
    AllSent
    SecretKept
    NoChildLeft
    OnlyIntact
    Paced
PROPERTIES
    Served
CHECK_DEADLOCK FALSE
