SPECIFICATION Spec
CONSTANTS
    Pid = {1, 2}
    Root = 1
    Call = {"read"}
    PIPE_LINES = 1
    Regimes <- OnlyWild
    None = None
PROPERTIES
    StopEndsAll
    CrashIsNoticed
