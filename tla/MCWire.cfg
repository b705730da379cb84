SPECIFICATION Spec
CONSTANTS
    Byte = {97, 37, 32}
    MaxPath = 4
    PAGE = 2
    BUF = 4
    OUT_CAP = 7
    PIPE_SIZE = 4
    MaxLines = 2
    Noise = {"line", "part"}
    OthersRun = TRUE
    None = None
INVARIANTS
    TypeOK
    PathComesBack
    LinesComeThrough
