SPECIFICATION MCSpec
CONSTANTS
    Pid = {1, 2}
    INITIAL_PID = 0
    INITIAL_NAME = "sh"
    CallName <- MCCallNames
    Part = {"sh", "etc", "a"}
    Path <- ThePaths
    Number = {0, 3, 65536}
    Args <- TheArgs
    Result <- Returns
    None = None
    Nr = {3, 56, 999}
    NAMES <- MCNames
    SysName <- MCSysName
    Wire <- MCWire
    MaxQueue = 2
INVARIANTS
    ObservationTypeOK
    WorldCatchesUp
    EveryNamedExitPairs
