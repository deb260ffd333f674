CONSTANTS
    Part <- RevisionsOnly
    Outline <- MCOutline
    Untracked = {u1, u2}
    Revision <- MCOutline
    Digest <- MCDigest
    RevisionLimit = 2
    MaxEntries = 3
    MaxBytes = 5
    MinEntries = 2
    Splice = 1
    FlushEvery = 2
    Interval = TRUE
    MaxSteps = 4
    Project = {p1, p2}
    Name = {"A", "B"}
    NoName = ""
    Density = {16}
    Payload <- MCPayload
    Discard = {TRUE, FALSE, None}
    None = None
    Stamp = Stamp
SYMMETRY Symmetry
SPECIFICATION MCSpec
INVARIANTS
    NoStaleWrite
CHECK_DEADLOCK FALSE
