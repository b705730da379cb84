SPECIFICATION Spec
CONSTANTS
    Pid = {1, 2}
    INITIAL_PID = 0
    INITIAL_NAME = "sh"
    CallName = {"openat", "close", "mmap", "munmap", "execve", "clone", "read", "?"}
    Part = {"sh", "etc", "a", "bin", "ls"}
    Number = {0, 1, 3, 256, 65792}
    Path <- CallPaths
    Args <- CallArgs
    Result <- SuccessOrFailure
    None = None
    Calls1 = {"open", "map", "unmap", "thread"}
    Calls2 = {"close", "exec"}
    SpawnPids = {2}
    Event <- AllEvents
INVARIANTS
    TypeOK
    TablesAgree
PROPERTIES
    NoCrossTalk
