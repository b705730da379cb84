------------------------------- MODULE Tracer -------------------------------
(***************************************************************************)
(* The collector (collector/tracer.c): one loop that waits for any traced  *)
(* task to stop or end, writes a line about it, and lets it run on.        *)
(*                                                                         *)
(* The kernel's side of ptrace is external: a task stops on entering and   *)
(* on leaving a call, when it forks, on its first instruction and when a   *)
(* signal reaches it; it may be killed at any time, stopped or not, and    *)
(* then ptrace requests on it fail.  waitpid picks any of the tasks that   *)
(* have something to report.                                               *)
(***************************************************************************)
EXTENDS Integers, Sequences, FiniteSets

CONSTANTS
    Pid,         \* the pids of the tasks that may ever exist
    Root,        \* the pid of the initial child
    Call,        \* the calls that return
    PIPE_LINES,  \* lines the stderr pipe holds before a write blocks
    Regimes,     \* what the kernel may be like, see regime
    None

ASSUME PidAssumption == IsFiniteSet(Pid)  \* the kernel has a greatest pid
ASSUME RootAssumption == Root \in Pid
ASSUME PipeAssumption == PIPE_LINES \in Nat \ {0}
ASSUME RegimesAssumption == Regimes \subseteq [kills : BOOLEAN, eventFirst : BOOLEAN]

\* Exit codes: _exit's argument, 128 + the signal, what main returns itself.
EXIT_CODE == 3
KILLED_CODE == 137
NOT_EXECUTED == 127

VARIABLES
    regime,       \* kills: tasks may be killed from outside; eventFirst: a new
                  \* task reports nothing before its parent's fork event
    task,         \* pid -> the kernel's view of the task
    pc,           \* where main is
    w,            \* waitpid's result, None outside the loop's body
    got,          \* and the status it reported
    ntraced,
    initial_code,
    out,          \* lines written to stderr and not read yet
    rootCode      \* the code the initial child ended with, None while it runs

kernelVars == <<regime, task, rootCode>>
mainVars == <<pc, w, got, ntraced, initial_code>>
vars == <<kernelVars, mainVars, out>>

Stops == {"enter", "exit", "event", "start", "signal"}
Running == {"user", "kernel", "forked"}
\* "none" is not created yet, "zombie" ended, "reaped" ended and waited for.
Places == Stops \cup Running \cup {"none", "zombie", "reaped"}

\* reported: waitpid has returned this stop.  call: the call it is in.  child:
\* whom that call created.
Absent == [at |-> "none", reported |-> FALSE, call |-> None, child |-> None, code |-> None]

Init ==
    /\ regime \in Regimes
    /\ task = [p \in Pid |-> IF p = Root THEN [Absent EXCEPT !.at = "user"] ELSE Absent]
    /\ pc = "start"
    /\ w = None
    /\ got = None
    /\ ntraced = 0
    /\ initial_code = 0
    /\ out = <<>>
    /\ rootCode = None

Ended(code) == [Absent EXCEPT !.at = "zombie", !.code = code]

Alive(p) == task[p].at \in Stops \cup Running
Stopped(p) == task[p].at \in Stops
Waitable(p) == task[p].at \in Stops \cup {"zombie"} /\ ~task[p].reported

\* p comes to rest at a place waitpid can report.
Halt(p, place) == task' = [task EXCEPT ![p].at = place, ![p].reported = FALSE]

-----------------------------------------------------------------------------
\* The kernel (external).
EntersCall(p) ==
    /\ task[p].at = "user" /\ pc # "start"
    /\ \E c \in Call \cup {"fork", "exit_group"} :
          task' = [task EXCEPT ![p].at = "enter", ![p].reported = FALSE,
                               ![p].call = c, ![p].child = None]
    /\ UNCHANGED <<regime, rootCode, mainVars, out>>

\* fork: the new task exists, and will stop, before its parent's event stop.
Forks(p) ==
    /\ task[p].at = "kernel" /\ task[p].call = "fork" /\ task[p].child = None
    /\ \E c \in Pid :
          /\ task[c].at = "none"
          /\ task' = [task EXCEPT ![p].at = "forked", ![p].child = c, ![c].at = "start"]
    /\ UNCHANGED <<regime, rootCode, mainVars, out>>

ReportsFork(p) ==
    /\ task[p].at = "forked"
    /\ Halt(p, "event")
    /\ UNCHANGED <<regime, rootCode, mainVars, out>>

\* The call returns: a fork once it was reported or when it failed.
LeavesCall(p) ==
    /\ task[p].at = "kernel" /\ task[p].call # "exit_group"
    /\ Halt(p, "exit")
    /\ UNCHANGED <<regime, rootCode, mainVars, out>>

Ends(p, code) ==
    /\ task' = [task EXCEPT ![p] = Ended(code)]
    /\ rootCode' = IF p = Root THEN code ELSE rootCode
    /\ UNCHANGED <<regime, mainVars, out>>

Exits(p) == task[p].at = "kernel" /\ task[p].call = "exit_group" /\ Ends(p, EXIT_CODE)

Killed(p) == regime.kills /\ Alive(p) /\ pc \notin {"start", "done"} /\ Ends(p, KILLED_CODE)

\* A signal that ends the task when it is delivered.
Signalled(p) ==
    /\ regime.kills /\ pc # "start" /\ task[p].at = "user"
    /\ Halt(p, "signal")
    /\ UNCHANGED <<regime, rootCode, mainVars, out>>

Kernel(p) ==
    \/ EntersCall(p) \/ Forks(p) \/ ReportsFork(p) \/ LeavesCall(p)
    \/ Exits(p) \/ Killed(p) \/ Signalled(p)

-----------------------------------------------------------------------------
\* main.
Write(line) == Len(out) < PIPE_LINES /\ out' = Append(out, line)

\* The first waitpid: the child stopped at its execve and is started.
Starts ==
    /\ pc = "start"
    /\ ntraced' = 1
    /\ pc' = "wait"
    /\ UNCHANGED <<kernelVars, w, got, initial_code, out>>

RootReaped(code) ==
    /\ task' = [task EXCEPT ![Root].at = "reaped"]
    /\ rootCode' = code
    /\ pc' = "done"
    /\ UNCHANGED <<regime, w, got, ntraced, out>>

\* Or the child ended before it: execvp failed, or it was killed.  main
\* returns its code without a line about it.
StartFails ==
    /\ pc = "start"
    /\ \E code \in {NOT_EXECUTED} \cup (IF regime.kills THEN {KILLED_CODE} ELSE {}) :
          RootReaped(code) /\ initial_code' = code

\* Or it was killed right after it: the first PTRACE_SYSCALL fails.
StartLost ==
    /\ pc = "start" /\ regime.kills
    /\ RootReaped(KILLED_CODE)
    /\ initial_code' = 1

\* A new task waits behind its parent's event when eventFirst says so.
Announced(p) == \A q \in Pid : task[q].child = p => task[q].at \notin {"forked", "event"}

WaitPid ==
    /\ pc = "wait" /\ ntraced > 0
    /\ \E p \in Pid :
          /\ Waitable(p) /\ (regime.eventFirst => Announced(p))
          /\ w' = p
          /\ got' = task[p].at
          /\ task' = [task EXCEPT ![p].reported = TRUE,
                                  ![p].at = IF @ = "zombie" THEN "reaped" ELSE @]
    /\ pc' = "handle"
    /\ UNCHANGED <<regime, rootCode, ntraced, initial_code, out>>

\* Mutant of NobodyLeft: the loop ends with the initial child.
RootGone == task[Root].at = "reaped"

\* ntraced is 0, or waitpid says ECHILD.
NobodyLeft == ntraced = 0 \/ \A p \in Pid : task[p].at \in {"none", "reaped"}

\* What is still alive is killed with the tracer (PTRACE_O_EXITKILL).
TracerGone ==
    /\ pc' = "done"
    /\ task' = [p \in Pid |-> IF Alive(p) THEN Ended(KILLED_CODE) ELSE task[p]]

EndLoop ==
    /\ pc = "wait" /\ NobodyLeft
    /\ TracerGone
    /\ UNCHANGED <<regime, rootCode, w, got, ntraced, initial_code, out>>

HandleEnd ==
    /\ pc = "handle" /\ got = "zombie"
    /\ Write([kind |-> "EXITED", pid |-> w])
    /\ initial_code' = IF w = Root THEN task[w].code ELSE initial_code
    /\ ntraced' = ntraced - 1
    /\ pc' = "wait" /\ w' = None /\ got' = None
    /\ UNCHANGED kernelVars

\* Mutant of AfterFailedInfo: PTRACE_GET_SYSCALL_INFO is tried until it works.
InfoRetried == "handle"
AfterFailedInfo == "resume"

\* handle_syscall_stop: no line when PTRACE_GET_SYSCALL_INFO fails.
HandleSyscallStop ==
    /\ pc = "handle" /\ got \in {"enter", "exit"}
    /\ IF Stopped(w)
       THEN /\ Write([kind |-> IF got = "enter" THEN "ENTER" ELSE "EXIT", pid |-> w])
            /\ pc' = "resume"
       ELSE UNCHANGED out /\ pc' = AfterFailedInfo
    /\ UNCHANGED <<kernelVars, w, got, ntraced, initial_code>>

\* Mutants: parent and child swapped; a child not counted, or counted twice; the
\* loop goes on without resuming the parent.
SpawnSwapped(p) == [kind |-> "SPAWN", pid |-> task[p].child, child |-> p]
NotCounted == ntraced
CountedTwice == ntraced + 2
ForkEventContinues == "wait"

SpawnLine(p) == [kind |-> "SPAWN", pid |-> p, child |-> task[p].child]
Counted == ntraced + 1
AfterForkEvent == "resume"

\* No line and no new task counted when PTRACE_GETEVENTMSG fails.
HandleForkEvent ==
    /\ pc = "handle" /\ got = "event"
    /\ IF Stopped(w)
       THEN Write(SpawnLine(w)) /\ ntraced' = Counted
       ELSE UNCHANGED <<out, ntraced>>
    /\ pc' = AfterForkEvent
    /\ UNCHANGED <<kernelVars, w, got, initial_code>>

\* Mutant of BackInCall: PTRACE_CONT after a fork event skips the exit stop.
EventLeavesCall == {"enter"}
BackInCall == {"enter", "event"}

\* PTRACE_SYSCALL on a task at this stop, injecting a genuine signal.
Resumed(t, stop) ==
    CASE stop \in BackInCall -> [t EXCEPT !.at = "kernel", !.reported = FALSE]
      [] stop = "signal" -> Ended(KILLED_CODE)
      [] OTHER -> [Absent EXCEPT !.at = "user"]

\* It has no effect on a dead task.
Resume ==
    /\ \/ pc = "resume"
       \/ pc = "handle" /\ got \in {"start", "signal"}
    /\ pc' = "wait" /\ w' = None /\ got' = None
    /\ task' = IF Stopped(w) THEN [task EXCEPT ![w] = Resumed(@, got)] ELSE task
    /\ rootCode' = IF Stopped(w) /\ got = "signal" /\ w = Root THEN KILLED_CODE ELSE rootCode
    /\ UNCHANGED <<regime, ntraced, initial_code, out>>

Main ==
    \/ Starts \/ StartFails \/ StartLost \/ WaitPid \/ EndLoop \/ HandleEnd
    \/ HandleSyscallStop \/ HandleForkEvent \/ Resume
=============================================================================
