------------------------------- MODULE World --------------------------------
(***************************************************************************)
(* The semantic state of the observed system (model.py): what World.apply  *)
(* does with each kind of event.  A process is the dataclass Process; a    *)
(* FD or a MemoryRegion carries its own key, so fds maps a number to the   *)
(* target and regions a start to the length.  The basename of a path is    *)
(* the last of its parts.                                                  *)
(***************************************************************************)
EXTENDS Events, Dict

CONSTANTS
    INITIAL_PID,  \* the pid the world starts with, 0 for "unknown"
    INITIAL_NAME  \* and its name

ASSUME InitialAssumption == INITIAL_PID \in Pid \cup {0} /\ INITIAL_NAME \in Part

CLONE_THREAD == 65536

\* The name a Process(pid=pid, name="") is born with.
NoName == ""

VARIABLES
    processes,   \* pid -> Process
    initialPid,  \* _initial_pid
    pending      \* _pending: pid -> the ENTER not yet paired

worldVars == <<processes, initialPid, pending>>

NewProcess(pid, name, ppid, fds) ==
    [pid |-> pid, name |-> name, ppid |-> ppid, in_syscall |-> None,
     last_result |-> None, fds |-> fds, regions |-> EmptyDict, threads |-> {}]

WorldInit ==
    /\ processes = Put(EmptyDict, INITIAL_PID,
                       NewProcess(INITIAL_PID, INITIAL_NAME, 0, EmptyDict))
    /\ initialPid = INITIAL_PID
    /\ pending = EmptyDict

(***************************************************************************)
(* _process_for: the world in which pid has a process, by adopting the     *)
(* initial process whose pid is unknown, or by creating one.               *)
(***************************************************************************)
Adopting == initialPid = 0 /\ 0 \in DOMAIN processes

\* Mutant of ProcessesWith: the adopted process keeps its old pid.
AdoptedAsZero(pid) ==
    CASE Adopting -> Put(Drop(processes, 0), pid, processes[0])
      [] ~Adopting /\ pid \in DOMAIN processes -> processes
      [] OTHER -> Put(processes, pid, NewProcess(pid, NoName, 0, EmptyDict))

ProcessesWith(pid) ==
    CASE Adopting -> Put(Drop(processes, 0), pid, [processes[0] EXCEPT !.pid = pid])
      [] ~Adopting /\ pid \in DOMAIN processes -> processes
      [] OTHER -> Put(processes, pid, NewProcess(pid, NoName, 0, EmptyDict))

PendingWith(pid) ==
    IF Adopting /\ 0 \in DOMAIN pending
    THEN Put(Drop(pending, 0), pid, pending[0])
    ELSE pending

InitialWith(pid) == IF Adopting THEN pid ELSE initialPid

-----------------------------------------------------------------------------
\* What a successful call does to its process (S3, S5, S7, S8, S10).
Effect(proc, call, result) ==
    CASE call.name = "openat" -> [proc EXCEPT !.fds = Put(@, result, call.path)]
      [] call.name = "close" /\ call.fd # None -> [proc EXCEPT !.fds = Drop(@, call.fd)]
      [] call.name = "mmap" ->
           [proc EXCEPT !.regions =
               Put(@, result, IF Len(call.args) > 1 THEN call.args[2] ELSE 0)]
      [] call.name = "munmap" /\ call.args # <<>> ->
           [proc EXCEPT !.regions = Drop(@, call.args[1])]
      [] call.name = "execve" /\ call.path # None ->
           [proc EXCEPT !.name = call.path[Len(call.path)]]
      [] OTHER -> proc

ApplyEnter(e) ==
    /\ processes' = [ProcessesWith(e.pid) EXCEPT ![e.pid].in_syscall = e.name]
    /\ pending' = Put(PendingWith(e.pid), ProcessesWith(e.pid)[e.pid].pid, e)
    /\ initialPid' = InitialWith(e.pid)

\* Mutant of ApplyExit: one pending slot, emptied by any pid's EXIT.
ExitClearsAll(e) ==
    LET proc == ProcessesWith(e.pid)[e.pid]
    IN  /\ processes' = [ProcessesWith(e.pid) EXCEPT
                            ![e.pid] = [proc EXCEPT !.in_syscall = None]]
        /\ pending' = EmptyDict
        /\ initialPid' = InitialWith(e.pid)

ApplyExit(e) ==
    LET proc   == ProcessesWith(e.pid)[e.pid]
        waiting == PendingWith(e.pid)
        paired == proc.pid \in DOMAIN waiting /\ waiting[proc.pid].name = e.name
        noted  == [proc EXCEPT !.in_syscall = None,
                      !.last_result = IF e.result # None THEN e.result ELSE @]
        succeeded == paired /\ e.result # None /\ e.result >= 0
    IN  /\ processes' = [ProcessesWith(e.pid) EXCEPT ![e.pid] =
                            IF succeeded THEN Effect(noted, waiting[proc.pid], e.result)
                                         ELSE noted]
        /\ pending' = IF paired THEN Drop(waiting, proc.pid) ELSE waiting
        /\ initialPid' = InitialWith(e.pid)

ApplySpawn(e) ==
    LET parent == ProcessesWith(e.parent)[e.parent]
        waiting == PendingWith(e.parent)
        isThread == /\ parent.pid \in DOMAIN waiting
                    /\ waiting[parent.pid].name = "clone"
                    /\ waiting[parent.pid].args # <<>>
                    /\ (waiting[parent.pid].args[1] \div CLONE_THREAD) % 2 = 1
    IN  /\ processes' =
              IF isThread
              THEN [ProcessesWith(e.parent) EXCEPT ![e.parent].threads = @ \cup {e.child}]
              ELSE Put(ProcessesWith(e.parent), e.child,
                       NewProcess(e.child, parent.name, parent.pid, parent.fds))
        /\ pending' = waiting
        /\ initialPid' = InitialWith(e.parent)

\* Mutants of ApplyDeath: the ENTER of the dead stays pending.
DeathLeavesPending(e) ==
    /\ processes' = IF e.pid = initialPid THEN processes ELSE Drop(processes, e.pid)
    /\ UNCHANGED <<pending, initialPid>>

\* The dead keep their boxes.
DeathKeepsBox(e) == pending' = Drop(pending, e.pid) /\ UNCHANGED <<processes, initialPid>>

\* A dead process leaves, except the initial one; either way its pending goes.
ApplyDeath(e) ==
    /\ processes' = IF e.pid = initialPid THEN processes ELSE Drop(processes, e.pid)
    /\ pending' = Drop(pending, e.pid)
    /\ UNCHANGED initialPid

Apply(e) ==
    \/ e.kind = "ENTER" /\ ApplyEnter(e)
    \/ e.kind = "EXIT" /\ ApplyExit(e)
    \/ e.kind = "SPAWN" /\ ApplySpawn(e)
    \/ e.kind = "DEATH" /\ ApplyDeath(e)
-----------------------------------------------------------------------------
IsProcess(p) ==
    /\ p \in [pid : Pid \cup {0}, name : Part \cup {NoName}, ppid : Pid \cup {0},
             in_syscall : CallName \cup {None}, last_result : Result \cup {None},
             fds : {p.fds}, regions : {p.regions}, threads : SUBSET Pid]
    /\ IsDict(p.fds, Number, Path \cup {None})
    /\ IsDict(p.regions, Number, Number)

\* What the tables of the world hold: processes by pid, 0 for the unknown one,
\* and pending ENTERs of real pids only (model.py World).
TypeOK ==
    /\ IsDict(processes, Pid \cup {0}, {processes[p] : p \in DOMAIN processes})
    /\ \A p \in DOMAIN processes : IsProcess(processes[p])
    /\ initialPid \in Pid \cup {0}
    /\ IsDict(pending, Pid, EnterEvent)

(***************************************************************************)
(* The tables of the world agree with each other: each process sits under  *)
(* its own pid; the initial one is never lost; a pending ENTER always      *)
(* belongs to a process of the world; the unknown pid 0 stands alone until *)
(* it is adopted; and a process other than the initial one that is shown   *)
(* inside a syscall has the ENTER of that very syscall pending, so its     *)
(* EXIT will find it (model.py apply, over any stream of events).          *)
(***************************************************************************)
TablesAgree ==
    /\ \A p \in DOMAIN processes : processes[p].pid = p
    /\ initialPid \in DOMAIN processes
    /\ DOMAIN pending \subseteq DOMAIN processes
    /\ 0 \in DOMAIN processes => DOMAIN processes = {0} /\ pending = EmptyDict
    /\ \A p \in DOMAIN processes \ {initialPid} :
          processes[p].in_syscall # None =>
             p \in DOMAIN pending /\ pending[p].name = processes[p].in_syscall
=============================================================================
