CONSTANTS
    Part = {"painting"}
    Clip = {c1, c2}
    ClipName = {walk, run}
    Bone = {body, arm, root}
    Root = root
    Grouped = {body}
    Time = {1, 2}
    Value = {v1, v2}
    MaxPose = 2
    MaxCalls = 6
    Texture = {c1, c2}
    TextureName = {walk, run}
    Side = {v1, v2}
    Face = {1, 2, 3, 4, 5}
    Units = 2
    Requests <- MCRequests
    Slot = {s1, s2}
    Ink = {red}
    Blank = Blank
    None = None
    MaxRetries = 2
    MaxAstray = 1
    Canvas <- MCCanvas
    Layout <- MCLayout
    Source <- MCSource
    Op <- MCOp
    MaxPaints = 2
    Turn = 12
    FrameCount = {1, 3, 6}
    MaxFrames = 4
    MaxTime = 1
SPECIFICATION MCSpec
INVARIANT LayersStay
CHECK_DEADLOCK FALSE
