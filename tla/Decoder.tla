------------------------------ MODULE Decoder -------------------------------
(***************************************************************************)
(* The Decoder (decode.py): turns each parsed wire event into one event of *)
(* event.py, and remembers per pid the ENTER whose EXIT it has to name.    *)
(* A WireEvent is a record of wire.py without its timestamp; strings maps  *)
(* an argument's index to the path decoded behind it.                      *)
(***************************************************************************)
EXTENDS Events, Dict

CONSTANTS
    Nr,            \* syscall numbers
    NAMES,         \* the generated table: known number -> name
    SysName(_)     \* the name "sys_<nr>" of a number not in the table

\* _FD_FIRST: the names whose first argument is a descriptor.
FD_FIRST ==
    {"read", "write", "close", "pread64", "pwrite64", "readv", "writev", "lseek", "fstat",
     "fsync", "fdatasync", "ftruncate", "fcntl", "flock", "fchdir", "fchmod", "fchown",
     "fstatfs", "dup", "dup2", "dup3", "sendfile", "getdents", "getdents64", "ioctl",
     "recvfrom", "sendto", "recvmsg", "sendmsg", "accept", "accept4", "connect", "bind",
     "listen", "shutdown", "epoll_wait", "epoll_ctl"}

VARIABLE decoding  \* Decoder._pending: pid -> name of the ENTER to pair

DecoderInit == decoding = EmptyDict

\* Mutant of NameOf: no name for a number that is not in the table.
NameOrNone(nr) == IF nr \in DOMAIN NAMES THEN NAMES[nr] ELSE None

NameOf(nr) == IF nr \in DOMAIN NAMES THEN NAMES[nr] ELSE SysName(nr)

StringAt(w, k) == IF k \in DOMAIN w.strings THEN w.strings[k] ELSE None

PathOf(w) == CASE NameOf(w.nr) = "openat" -> StringAt(w, 1)
               [] NameOf(w.nr) = "execve" -> StringAt(w, 0)
               [] OTHER -> None

\* The event push(w) returns.
Decoded(w) ==
    CASE w.kind = "ENTER" ->
           [kind |-> "ENTER", pid |-> w.pid, name |-> NameOf(w.nr), path |-> PathOf(w),
            fd |-> IF NameOf(w.nr) \in FD_FIRST THEN w.args[1] ELSE None, args |-> w.args]
      [] w.kind = "EXIT" ->
           [kind |-> "EXIT", pid |-> w.pid, result |-> w.ret,
            name |-> IF w.pid \in DOMAIN decoding THEN decoding[w.pid] ELSE "?"]
      [] w.kind = "SPAWN" -> [kind |-> "SPAWN", parent |-> w.pid, child |-> w.child]
      [] OTHER -> [kind |-> "DEATH", pid |-> w.pid]  \* EXITED and SIGNALED

\* Mutants of Forgets: a death does not forget the ENTER; get for pop on EXIT.
DeathKept == {"EXIT"}
ExitKept == {"EXITED", "SIGNALED"}

\* The events whose push takes the pid out of _pending.
Forgets == {"EXIT", "EXITED", "SIGNALED"}

\* What push(w) remembers.
Push(w) ==
    decoding' = CASE w.kind = "ENTER" -> Put(decoding, w.pid, NameOf(w.nr))
                  [] w.kind \in Forgets -> Drop(decoding, w.pid)
                  [] OTHER -> decoding
=============================================================================
