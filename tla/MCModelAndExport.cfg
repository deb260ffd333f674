CONSTANTS
    None = None
    Node = {n1, n2, n3, n4}
    Name = {"root", "a", "b"}
    Top = Top
    MaxCubes = 2
    MaxUserEdits = 1
    MaxDrift = 1
    Shape <- MCShape
    Grain = 2
    KeyGrain = 4
    Codec <- MCCodec
    Request = {"json", "bedrock", "none"}
    MaxEdits = 1
SYMMETRY Symmetry
CONSTRAINT OneShapeGoesOn
SPECIFICATION Spec
INVARIANTS
    OutlinerIsTree
    SessionMirrorsEditor
    
    ReportedFilesMatch
PROPERTIES
    RepliesAreTrue
CHECK_DEADLOCK FALSE
