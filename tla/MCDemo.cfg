SPECIFICATION Spec
CONSTANTS
    Pid <- MCPid
    INITIAL_PID = 1234
    INITIAL_NAME = "sh"
    CallName <- MCCallName
    Part <- MCPart
    Path <- MCPath
    Number <- MCNumber
    Args <- MCArgs
    Result <- MCNumber
    None = None
    STATUS_TTL = 90
    MaxRounds = 3
INVARIANTS
    RoundsAlike
    MomentsLegible
    StatusTold
