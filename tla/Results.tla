------------------------------- MODULE Results ------------------------------
(***************************************************************************)
(* What a syscall's return value is said to be (results.py, errno_names.py). *)
(* A token is the value and what it stands for; its wording is left out.   *)
(***************************************************************************)
EXTENDS Integers

\* The numbers with a name in ERRNO_NAMES.
ERRNO_NAMES == ((1..40) \ {15, 26, 31, 33, 35, 37}) \cup {110, 111, 113}

FD_RESULT ==
    {"open", "openat", "openat2", "creat", "socket", "accept", "accept4", "dup", "dup2",
     "dup3", "epoll_create1", "eventfd2", "memfd_create", "timerfd_create", "signalfd4",
     "inotify_init1"}

BYTES_RESULT ==
    {"read", "write", "pread64", "pwrite64", "readv", "writev", "preadv", "pwritev",
     "sendto", "recvfrom", "sendmsg", "recvmsg", "sendfile", "copy_file_range",
     "getdents64", "getrandom"}

ADDR_RESULT == {"mmap", "mremap", "brk", "shmat"}

errno_name(result) == IF -result \in ERRNO_NAMES THEN "errno name" ELSE "errno number"

format_result(name, result) ==
    [value |-> result,
     as |-> CASE result < 0 -> errno_name(result)
              [] result >= 0 /\ name \in ADDR_RESULT -> "address"
              [] result >= 0 /\ name \in BYTES_RESULT -> "bytes"
              [] result >= 0 /\ name \in FD_RESULT -> "fd"
              [] OTHER -> "number"]
=============================================================================
