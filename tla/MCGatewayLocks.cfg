CONSTANTS
    c1 = c1
    c2 = c2
    c3 = c3
    Call = {c1, c2, c3}
    NoCall = NoCall
    Text <- MCText
    Blank = ""
    Trim <- MCTrim
    Absent = Absent
    DefaultProject = "default-project"
    Payload <- MCPayload
    ToolName = {"add_bone", "get_project_state"}
    Registered = {"blockbench"}
    DefaultBackend = "blockbench"
SPECIFICATION FairSpec
INVARIANTS
    OneWriterPerKey
PROPERTIES
    WaitingCallStarts
    ImplementsFifoLock
CHECK_DEADLOCK FALSE
