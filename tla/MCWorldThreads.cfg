SPECIFICATION Spec
CONSTANTS
    Pid = {1, 2}
    INITIAL_PID = 1
    INITIAL_NAME = "sh"
    CallName = {"openat", "close", "mmap", "munmap", "execve", "clone", "read", "?"}
    Part = {"sh", "etc", "a", "bin", "ls"}
    Number = {0, 1, 3, 256, 65792}
    Path <- CallPaths
    Args <- CallArgs
    Result <- Success
    None = None
    Calls1 = {"thread"}
    Calls2 = {"other"}
    SpawnPids = {2}
    Event <- EntersAndSpawns
PROPERTIES
    ThreadsShareTheBox
