------------------------------- MODULE Events -------------------------------
(***************************************************************************)
(* The events of event.py, as the decoder makes them and the world takes   *)
(* them.  A path is the sequence of the parts its "/" separate.            *)
(***************************************************************************)
EXTENDS Integers, Sequences

CONSTANTS
    Pid,       \* the pids and tids the kernel hands out
    CallName,  \* syscall names, the "?" of an unnamed EXIT among them
    Part,      \* the parts of a path, and program names
    Path,      \* the paths that occur
    Number,    \* argument words, descriptors and addresses
    Args,      \* the argument tuples that occur
    Result,    \* return values
    None       \* Python's None

ASSUME PidAssumption == Pid \subseteq Nat \ {0}
ASSUME PathAssumption == Path \subseteq Seq(Part) \ {<<>>}
ASSUME NumberAssumption ==
    /\ Args \subseteq Seq(Number)
    /\ Number \subseteq Nat /\ 0 \in Number
    /\ Result \subseteq Int /\ \A r \in Result : r >= 0 => r \in Number
ASSUME NoneAssumption ==
    None \notin Int /\ None \notin CallName /\ None \notin Path

\* A SyscallEvent of each phase, with the fields that phase is given.
EnterEvent == [kind : {"ENTER"}, pid : Pid, name : CallName, path : Path \cup {None},
               fd : Number \cup {None}, args : Args]
ExitEvent  == [kind : {"EXIT"}, pid : Pid, name : CallName, result : Result \cup {None}]
SpawnEvent == [kind : {"SPAWN"}, parent : Pid, child : Pid]
DeathEvent == [kind : {"DEATH"}, pid : Pid]  \* class ExitEvent: a process ended
=============================================================================
