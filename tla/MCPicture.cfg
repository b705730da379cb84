SPECIFICATION MCSpec
CONSTANTS
    Pid <- MCPid
    INITIAL_PID = 1
    INITIAL_NAME = "sh"
    CallName = {"clone", "mmap", "munmap"}
    Part = {"sh"}
    Path <- NoPaths
    Number <- MCNumber
    Args <- TheArgs
    Result <- MCResults
    None = None
    Event <- MCEvent
    SmallTree = 6
    Siblings = 11
    FewThreads = 4
    MaxThreads = 13
    MaxRegions = 65
INVARIANTS
    ChildBelowParent
    BoxesApart
    PanelsFit
