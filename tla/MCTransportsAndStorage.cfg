CONSTANTS
    Part <- AllParts
    None = None
    Byte = {"NL", " ", "m", "v", "Lead", "Trail"}
    Newline = "NL"
    Space = " "
    Lead = "Lead"
    Trail = "Trail"
    Wide = "Wide"
    Broken = "Broken"
    Message <- MCMessage
    Invalid <- MCInvalid
    MaxBuffer = 6
    MaxChunk = 3
    MaxText = 7
    Socket = {k1}
    Exchange = {e1}
    SessionId = {i1, i2}
    Request <- MCRequest
    MaxRequests = 3
    MaxStreams = 1
    Project = {a, b}
    Flat = {b}
    First <- MCFirst
    Zero = Zero
    MaxRevision = 4
    Env <- MCEnv
    Call = {p1, p2, p3}
    Empty = Empty
    MaxFaults = 2
SYMMETRY Symmetry
SPECIFICATION MCSpec
INVARIANTS
    DecodesUntilInvalid
    AnswersInOrder
    NothingLeftBehind
    StreamsAreReachable
    StatementsFindTheTable
    WritesStay
PROPERTIES
    PageFollowsTheStream
CHECK_DEADLOCK FALSE
