SPECIFICATION Spec
CONSTANTS
    Pid = {1, 2}
    Root = 1
    Call = {"read"}
    PIPE_LINES = 2
    Regimes <- OnlyUnordered
    None = None
INVARIANTS
    ExitCodeAlwaysMirrored
