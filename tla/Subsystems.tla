----------------------------- MODULE Subsystems -----------------------------
(***************************************************************************)
(* The screen and its kernel zones (render.py), and the zone a syscall's   *)
(* name belongs to (subsystems.py).                                        *)
(***************************************************************************)
EXTENDS Integers

WIDTH == 256
HEIGHT == 256
BOUNDARY_Y == 128
FD_BAR_Y == 232

FileCalls ==
    {"open", "openat", "openat2", "creat", "close", "read", "write", "pread64", "pwrite64",
     "readv", "writev", "lseek", "stat", "fstat", "lstat", "newfstatat", "statx", "access",
     "faccessat", "getdents64", "statfs", "fstatfs", "fadvise64", "fcntl", "dup", "dup2",
     "dup3", "pipe", "pipe2"}

MemoryCalls == {"mmap", "munmap", "mremap", "mprotect", "madvise", "brk", "mlock", "munlock"}

ProcessCalls ==
    {"clone", "clone3", "fork", "vfork", "execve", "execveat", "exit", "exit_group",
     "wait4", "waitid", "kill", "arch_prctl", "set_tid_address"}

NetCalls ==
    {"socket", "socketpair", "connect", "accept", "accept4", "bind", "listen", "sendto",
     "recvfrom", "sendmsg", "recvmsg", "shutdown", "getsockname", "getpeername",
     "setsockopt", "getsockopt"}

classify(name) ==
    CASE name \in FileCalls -> "FILE"
      [] name \in MemoryCalls -> "MEMORY"
      [] name \in ProcessCalls -> "PROCESS"
      [] name \in NetCalls -> "NET"
      [] OTHER -> "OTHER"

\* ZONE_ORDER, as each zone's index in it.
ZONE_ORDER == [FILE |-> 0, MEMORY |-> 1, PROCESS |-> 2, NET |-> 3]
ZONE_W == WIDTH \div 4

zone_bounds(sub) ==
    IF sub \in DOMAIN ZONE_ORDER THEN [x |-> ZONE_ORDER[sub] * ZONE_W, w |-> ZONE_W]
                                 ELSE [x |-> 0, w |-> WIDTH]

zone_center(sub) == zone_bounds(sub).x + zone_bounds(sub).w \div 2

\* The zones whose label is bright while a pulse heads for x (_draw_zones).
HotZones(x) ==
    {sub \in DOMAIN ZONE_ORDER : x \in zone_bounds(sub).x..(zone_bounds(sub).x + ZONE_W - 1)}
=============================================================================
