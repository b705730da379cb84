--------------------------- MODULE MCWorldEvents ----------------------------
\* WorldEvents on a small alphabet of calls.
EXTENDS WorldEvents, TLC

CONSTANTS
    Calls1,       \* the calls pid 1 makes, by the name given to them below
    Calls2,       \* and those of the other pids
    SpawnPids     \* the pids that may be created

\* One ENTER and its EXITs per call; the descriptor, address and return value
\* in use is 3, a failure is -2.
CallOf(c) ==
    CASE c = "open"   -> [name |-> "openat", path |-> <<"etc", "a">>, fd |-> None, args |-> <<0>>]
      [] c = "close"  -> [name |-> "close", path |-> None, fd |-> 3, args |-> <<3>>]
      [] c = "map"    -> [name |-> "mmap", path |-> None, fd |-> None, args |-> <<0, 1>>]
      [] c = "unmap"  -> [name |-> "munmap", path |-> None, fd |-> None, args |-> <<3>>]
      [] c = "exec"   -> [name |-> "execve", path |-> <<"bin", "ls">>, fd |-> None, args |-> <<0>>]
      [] c = "thread" -> [name |-> "clone", path |-> None, fd |-> None, args |-> <<CLONE_THREAD + 256>>]
      [] c = "fork"   -> [name |-> "clone", path |-> None, fd |-> None, args |-> <<256>>]
      [] c = "other"  -> [name |-> "read", path |-> None, fd |-> 0, args |-> <<0>>]

CallsOf(p) == IF p = 1 THEN Calls1 ELSE Calls2
Calls == Calls1 \cup Calls2

Enters == UNION {{[kind |-> "ENTER", pid |-> p, name |-> CallOf(c).name, path |-> CallOf(c).path,
            fd |-> CallOf(c).fd, args |-> CallOf(c).args] : c \in CallsOf(p)} : p \in Pid}
Exits == UNION {[kind : {"EXIT"}, pid : {p}, name : {CallOf(c).name : c \in CallsOf(p)} \cup {"?"},
                 result : Result \cup {None}] : p \in Pid}
Spawns == {e \in [kind : {"SPAWN"}, parent : Pid, child : SpawnPids] : e.parent # e.child}
Deaths == [kind : {"DEATH"}, pid : Pid]

Success == {3}
SuccessOrFailure == {3, -2}

CallPaths == {CallOf(c).path : c \in Calls} \ {None}
CallArgs == {CallOf(c).args : c \in Calls}

AllEvents == Enters \cup Exits \cup Spawns \cup Deaths
EntersAndSpawns == Enters \cup Spawns
=============================================================================
