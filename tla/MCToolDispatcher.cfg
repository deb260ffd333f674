CONSTANTS
    c1 = c1
    c2 = c2
    c3 = c3
    a = a
    b = b
    Outline <- MCOutline
    Untracked <- OneUntracked
    Revision = {0, 1, 2}
    Digest <- MCDigest
    RevisionLimit = 2
    Client = {a, b}
    Call = {c1, c2, c3}
    NoRevision = NoRevision
    RequireRevision = TRUE
    AutoRetry = TRUE
    Kind = {"edit", "compound", "export"}
    MaxUserEdits = 1
SYMMETRY CallSymmetry
SPECIFICATION Spec
INVARIANTS
    AppliedAtMostOnce
    GuardIsCurrent
    TraceFollowsEffects
    ReplyCoversEffect
CHECK_DEADLOCK FALSE
