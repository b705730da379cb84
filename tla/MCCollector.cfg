SPECIFICATION Spec
CONSTANTS
    Pid = {1, 2, 3}
    Root = 1
    Call = {"read"}
    PIPE_LINES = 2
    Regimes <- WildOrTame
    None = None
INVARIANTS
    TypeOK
    StreamsWellFormed
    NoStopForgotten
    BirthsToldOnce
    ExitCodeMirrored
    StreamsEnd
PROPERTIES
    TracerEnds
