CONSTANTS
    c1 = c1
    c2 = c2
    c3 = c3
    a = a
    b = b
    Outline <- MCOutline
    Untracked <- OneUntracked
    Revision = {0, 1, 2}
    Digest <- MCDigest
    RevisionLimit = 2
    Client = {a, b}
    Call = {c1, c2}
    NoRevision = NoRevision
    RequireRevision = TRUE
    AutoRetry = TRUE
    Kind = {"edit", "compound", "reuse", "check", "export", "read", "preview"}
    MaxUserEdits = 1
SPECIFICATION FairSpec
PROPERTIES
    Answered
    ImplementsSharedProject
CHECK_DEADLOCK FALSE
