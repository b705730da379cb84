-------------------------- MODULE CollectorProofs --------------------------
(***************************************************************************)
(* Proofs about the collector (module Collector), for every finite set of  *)
(* pids, every set of calls, every size of the pipe and every regime of    *)
(* the kernel.                                                             *)
(***************************************************************************)
EXTENDS Collector, FiniteSetTheorems, TLAPS

\* The lines the tracer writes.
Line == [kind : {"ENTER", "EXIT", "EXITED"}, pid : Pid]
          \cup [kind : {"SPAWN"}, pid : Pid, child : Pid]

\* Where the loop is and the task it has in hand: a stop that waitpid returned
\* is still the task's place unless the task was killed since.
LoopOK ==
    /\ out \in Seq(Line)
    /\ pc = "start" => \A p \in Pid : task[p].at = IF p = Root THEN "user" ELSE "none"
    /\ pc \in {"handle", "resume"} =>
          /\ w \in Pid /\ got \in Stops \cup {"zombie"}
          /\ IF got = "zombie" THEN task[w].at = "reaped" ELSE task[w].at \in {got, "zombie"}
          /\ Stopped(w) => task[w].reported
    /\ pc = "resume" => got \in {"enter", "exit", "event"}
    /\ \A p \in Pid : task[p].at = "none" => ~task[p].reported
    /\ \A p \in Pid : task[p].at \in {"forked", "event"} => task[p].child \in Pid

\* What p's stream has said once this line is read, and the lines it allows.
Outcome(line) ==
    CASE line.kind \in {"ENTER", "SPAWN"} -> "in"
      [] line.kind = "EXIT" -> "out"
      [] line.kind = "EXITED" -> "over"

Allowed(s, line) ==
    /\ s # "over"
    /\ line.kind = "ENTER" => s \in {"nothing", "out"}
    /\ line.kind \in {"EXIT", "SPAWN"} => s = "in"

\* s is what p's stream has said when p is where it is and all lines are read.
Fits(s, p) ==
    /\ pc = "start" => s = "nothing"
    /\ task[p].at \in {"none", "start"} => s = "nothing"
    /\ task[p].at \in {"user", "signal"} => s \in {"nothing", "out"}
    /\ task[p].at = "enter" => IF Written(p) THEN s = "in" ELSE s \in {"nothing", "out"}
    /\ task[p].at \in {"kernel", "forked", "event"} => s = "in"
    /\ task[p].at = "exit" => IF Written(p) THEN s = "out" ELSE s = "in"
    /\ task[p].at = "zombie" => s # "over"
    /\ task[p].at = "reaped" =>
          IF w = p /\ pc = "handle" THEN s # "over" ELSE s \in {"nothing", "over"}

\* No line from i to j is p's.
Silent(p, i, j) == \A k \in i..j : out[k].pid # p

\* Every line of the pipe is allowed by the line of its pid before it, or by
\* what the reader noted; and the last one fits the task.
FirstAllowed ==
    \A j \in 1..Len(out) :
        Silent(out[j].pid, 1, j - 1) => Allowed(said[out[j].pid], out[j])
NextAllowed ==
    \A i, j \in 1..Len(out) :
        i < j /\ out[i].pid = out[j].pid /\ Silent(out[j].pid, i + 1, j - 1)
            => Allowed(Outcome(out[i]), out[j])
QuietFits == \A p \in Pid : Silent(p, 1, Len(out)) => Fits(said[p], p)
LastFits ==
    \A i \in 1..Len(out) :
        Silent(out[i].pid, i + 1, Len(out)) => Fits(Outcome(out[i]), out[i].pid)
Streams == FirstAllowed /\ NextAllowed /\ QuietFits /\ LastFits

\* The tasks there are, and those with a fork the loop has not counted.
Existing == {p \in Pid : task[p].at # "none"}
Forking == {p \in Pid : Unhandled(p)}

\* Every task counted exists, beside those whose fork is not counted yet.
CountBound ==
    /\ ntraced + Cardinality(Forking) <= Cardinality(Existing)
    /\ pc \in {"handle", "resume"} => ntraced > 0

\* The inductive invariant of the loop, whatever the kernel does.
Inv == TypeOK /\ LoopOK /\ CountBound

\* What task maps a pid to.
Task == [at : Places, reported : BOOLEAN, call : Call \cup {"fork", "exit_group", None},
         child : Pid \cup {None}, code : {EXIT_CODE, KILLED_CODE, None}]

\* p alone goes from one place to another, where no stop is reported yet.
Moves(p, from, to) ==
    /\ task[p].at \in from /\ task' \in [Pid -> Task]
    /\ task'[p].at = to /\ ~task'[p].reported
    /\ \A q \in Pid \ {p} : task'[q] = task[q]
-----------------------------------------------------------------------------

\* Replacing one task's record.
LEMMA OneTask ==
    ASSUME TypeOK, NEW p \in Pid, NEW t \in Task, task' = [task EXCEPT ![p] = t]
    PROVE  /\ task' \in [Pid -> Task] /\ task'[p] = t
           /\ \A q \in Pid \ {p} : task'[q] = task[q]
  BY DEF TypeOK, Task

\* What a task's record holds.
LEMMA TaskFields ==
    ASSUME TypeOK, NEW p \in Pid
    PROVE  /\ task[p] \in Task /\ task[p].at \in Places /\ task[p].reported \in BOOLEAN
           /\ task[p] = [at |-> task[p].at, reported |-> task[p].reported, call |-> task[p].call,
                         child |-> task[p].child, code |-> task[p].code]
  BY DEF TypeOK, Task

\* The records the steps put in place of a task's.
LEMMA Placed ==
    ASSUME NEW t \in Task, NEW a \in Places
    PROVE  /\ [t EXCEPT !.at = a] \in Task /\ [t EXCEPT !.at = a].at = a
           /\ [t EXCEPT !.at = a].child = t.child /\ [t EXCEPT !.at = a].reported = t.reported
           /\ [t EXCEPT !.at = a].code = t.code
  BY DEF Task

\* Marking a record changes nothing else.
LEMMA Reported ==
    ASSUME NEW t \in Task, NEW r \in BOOLEAN
    PROVE  /\ [t EXCEPT !.reported = r] \in Task /\ [t EXCEPT !.reported = r].reported = r
           /\ [t EXCEPT !.reported = r].at = t.at /\ [t EXCEPT !.reported = r].child = t.child
           /\ [t EXCEPT !.reported = r].code = t.code
  BY DEF Task

\* A task that is not there.
LEMMA AbsentIsTask == Absent \in Task /\ ~Absent.reported /\ Absent.child = None
  BY DEF Task, Absent, Places

\* A task that ended.
LEMMA EndedIsTask ==
    ASSUME NEW code \in {EXIT_CODE, KILLED_CODE}
    PROVE  /\ Ended(code) \in Task /\ Ended(code).at = "zombie" /\ ~Ended(code).reported
           /\ Ended(code).code = code
<1>1. /\ [Absent EXCEPT !.at = "zombie"] \in Task /\ [Absent EXCEPT !.at = "zombie"].at = "zombie"
      /\ ~[Absent EXCEPT !.at = "zombie"].reported
  BY AbsentIsTask, Placed DEF Places
<1> DEFINE t == [Absent EXCEPT !.at = "zombie"]
<1> HIDE DEF t
<1>2. ASSUME t \in Task
      PROVE  /\ [t EXCEPT !.code = code] \in Task /\ [t EXCEPT !.code = code].code = code
             /\ [t EXCEPT !.code = code].at = t.at /\ [t EXCEPT !.code = code].reported = t.reported
  BY <1>2 DEF Task
<1>3. Ended(code) = [t EXCEPT !.code = code]
  BY DEF Ended, t, Absent
<1> QED
  BY <1>1, <1>2, <1>3 DEF t

\* A stop moves the task there and is not reported yet.
LEMMA Halts ==
    ASSUME TypeOK, NEW p \in Pid, NEW place \in Places, Halt(p, place)
    PROVE  Moves(p, {task[p].at}, place) /\ task'[p].child = task[p].child
<1> DEFINE a == [task[p] EXCEPT !.at = place]
           t == [a EXCEPT !.reported = FALSE]
<1>0. a \in Task /\ a.at = place /\ a.child = task[p].child
  BY TaskFields, Placed
<1> HIDE DEF a
<1>1. t \in Task /\ t.at = place /\ ~t.reported /\ t.child = task[p].child
  BY <1>0, Reported
<1>2. task' = [task EXCEPT ![p] = t]
  BY DEF Halt, TypeOK, Task, a
<1> HIDE DEF t
<1> QED
  BY <1>1, <1>2, OneTask DEF Moves

\* EntersCall moves a task from user mode to the stop and forgets its last child.
LEMMA Enters ==
    ASSUME TypeOK, NEW p \in Pid, EntersCall(p)
    PROVE  Moves(p, {"user"}, "enter") /\ task'[p].child = None
<1>1. PICK c \in Call \cup {"fork", "exit_group"} :
         task' = [task EXCEPT ![p].at = "enter", ![p].reported = FALSE,
                              ![p].call = c, ![p].child = None]
  BY DEF EntersCall
<1> DEFINE t == [[[[task[p] EXCEPT !.at = "enter"] EXCEPT !.reported = FALSE] EXCEPT !.call = c] EXCEPT !.child = None]
<1>2. t \in Task /\ t.at = "enter" /\ ~t.reported /\ t.child = None
  BY TaskFields DEF Task, Places, Stops
<1>3. task' = [task EXCEPT ![p] = t]
  BY <1>1 DEF TypeOK, Task
<1> QED
  BY <1>2, <1>3, OneTask DEF Moves, EntersCall

\* A task that ends moves, with its code, from where it is.
LEMMA EndsTask ==
    ASSUME TypeOK, NEW p \in Pid, NEW code \in {EXIT_CODE, KILLED_CODE}, Ends(p, code)
    PROVE  /\ Moves(p, {task[p].at}, "zombie") /\ task'[p].code = code
           /\ rootCode' = IF p = Root THEN code ELSE rootCode
<1>1. Ended(code) \in Task /\ task' = [task EXCEPT ![p] = Ended(code)]
  BY EndedIsTask DEF Ends
<1>2. Moves(p, {task[p].at}, "zombie") /\ task'[p].code = code
  BY <1>1, OneTask, EndedIsTask DEF Moves
<1> QED
  BY <1>2 DEF Ends

\* A fork moves the parent and creates the child.
LEMMA ForksTwo ==
    ASSUME TypeOK, NEW p \in Pid, Forks(p)
    PROVE  /\ task' \in [Pid -> Task] /\ task[p].at = "kernel" /\ task[p].child = None
           /\ task'[p].at = "forked"
           /\ \E c \in Pid \ {p} :
                 /\ task[c].at = "none" /\ task'[c].at = "start"
                 /\ task'[c].reported = task[c].reported /\ task'[c].child = task[c].child
                 /\ task'[p].child = c
                 /\ \A q \in Pid \ {p, c} : task'[q] = task[q]
<1>1. PICK c \in Pid : /\ task[c].at = "none"
                       /\ task' = [task EXCEPT ![p].at = "forked", ![p].child = c, ![c].at = "start"]
  BY DEF Forks
<1>2. c # p
  BY <1>1 DEF Forks
<1> DEFINE t == [[task[p] EXCEPT !.at = "forked"] EXCEPT !.child = c]
           u == [task[c] EXCEPT !.at = "start"]
<1>3. t \in Task /\ t.at = "forked" /\ t.child = c
  BY TaskFields DEF Task, Places, Running
<1>u. u \in Task /\ u.at = "start" /\ u.reported = task[c].reported /\ u.child = task[c].child
  BY TaskFields, Placed DEF Places, Stops
<1>4. task' = [[task EXCEPT ![p] = t] EXCEPT ![c] = u]
  BY <1>1, <1>2 DEF TypeOK, Task
<1> HIDE DEF t, u
<1>5. task' \in [Pid -> Task] /\ task'[p] = t /\ task'[c] = u /\ \A q \in Pid \ {p, c} : task'[q] = task[q]
  BY <1>2, <1>3, <1>u, <1>4 DEF TypeOK, Task
<1> QED
  BY <1>1, <1>2, <1>3, <1>u, <1>5 DEF Forks

\* The initial child is buried before the loop begins.
LEMMA Reaps ==
    ASSUME TypeOK, NEW code, RootReaped(code)
    PROVE  /\ task' \in [Pid -> Task] /\ task'[Root].at = "reaped"
           /\ \A q \in Pid \ {Root} : task'[q] = task[q]
<1>1. task[Root] \in Task /\ "reaped" \in Places
  BY TaskFields, RootAssumption DEF Places
<1>2. task' = [task EXCEPT ![Root] = [task[Root] EXCEPT !.at = "reaped"]]
  BY RootAssumption DEF RootReaped, TypeOK, Task
<1> DEFINE t == [task[Root] EXCEPT !.at = "reaped"]
<1>3. t \in Task /\ t.at = "reaped"
  BY <1>1, Placed
<1> HIDE DEF t
<1>4. task' = [task EXCEPT ![Root] = t]
  BY <1>2 DEF t
<1> QED
  BY <1>3, <1>4, OneTask, RootAssumption

\* waitpid marks a stop as reported, and buries a task that ended.
LEMMA Waits ==
    ASSUME TypeOK, WaitPid
    PROVE  /\ w' \in Pid /\ Waitable(w') /\ (regime.eventFirst => Announced(w')) /\ got' = task[w'].at
           /\ task' \in [Pid -> Task] /\ task'[w'].reported
           /\ task'[w'].at = IF got' = "zombie" THEN "reaped" ELSE got'
           /\ task'[w'].child = task[w'].child /\ task'[w'].code = task[w'].code
           /\ \A q \in Pid \ {w'} : task'[q] = task[q]
<1>1. PICK p \in Pid :
         /\ Waitable(p) /\ (regime.eventFirst => Announced(p))
         /\ w' = p /\ got' = task[p].at
         /\ task' = [task EXCEPT ![p].reported = TRUE,
                                 ![p].at = IF @ = "zombie" THEN "reaped" ELSE @]
  BY DEF WaitPid
<1> DEFINE place == IF task[p].at = "zombie" THEN "reaped" ELSE task[p].at
           r == [task[p] EXCEPT !.reported = TRUE]
           t == [r EXCEPT !.at = place]
<1>2. r \in Task /\ r.reported /\ r.at = task[p].at /\ r.child = task[p].child /\ r.code = task[p].code
  BY TaskFields, Reported
<1>3. place \in Places
  BY TaskFields DEF Places
<1>4. task' = [task EXCEPT ![p] = t]
  BY <1>1, TaskFields DEF TypeOK, Task
<1> HIDE DEF r, place
<1>5. /\ t \in Task /\ t.reported /\ t.at = place
      /\ t.child = task[p].child /\ t.code = task[p].code
  BY <1>2, <1>3, Placed
<1> HIDE DEF t
<1>6. task' \in [Pid -> Task] /\ task'[p] = t /\ \A q \in Pid \ {p} : task'[q] = task[q]
  BY <1>4, <1>5, OneTask
<1> QED
  BY <1>1, <1>5, <1>6 DEF place

\* The tracer's end ends whoever is still alive.
LEMMA Gone ==
    ASSUME TypeOK, TracerGone
    PROVE  /\ task' \in [Pid -> Task]
           /\ \A q \in Pid : IF Alive(q) THEN task'[q] = Ended(KILLED_CODE) ELSE task'[q] = task[q]
<1>1. \A q \in Pid : Ended(KILLED_CODE) \in Task /\ task[q] \in Task
  BY EndedIsTask, TaskFields
<1> QED
  BY <1>1 DEF TracerGone

\* PTRACE_SYSCALL: the task in hand goes on, if it is still stopped.
LEMMA Resumes ==
    ASSUME TypeOK, LoopOK, Resume
    PROVE  /\ w \in Pid /\ task' \in [Pid -> Task]
           /\ \A q \in Pid \ {w} : task'[q] = task[q]
           /\ ~Stopped(w) => task' = task
           /\ Stopped(w) =>
                 /\ ~task'[w].reported /\ task[w].at = got
                 /\ got \in BackInCall => task'[w].at = "kernel" /\ task'[w].child = task[w].child
                 /\ got = "signal" => task'[w] = Ended(KILLED_CODE)
                 /\ got \in {"exit", "start"} => task'[w].at = "user" /\ task'[w].child = None
<1>1. w \in Pid /\ (Stopped(w) => task[w].at = got)
  BY DEF Resume, LoopOK, Stopped, Stops
<1>2. CASE ~Stopped(w)
  BY <1>1, <1>2 DEF Resume, TypeOK, Task
<1>3. CASE Stopped(w)
  <2> DEFINE t == Resumed(task[w], got)
  <2>1. task' = [task EXCEPT ![w] = t]
    BY <1>3 DEF Resume
  <2>2. got \in Stops
    BY <1>1, <1>3 DEF Stopped
  <2>3. CASE got \in BackInCall
    <3> DEFINE a == [task[w] EXCEPT !.at = "kernel"]
    <3>1. a \in Task /\ a.at = "kernel" /\ a.child = task[w].child
      BY <1>1, TaskFields, Placed DEF Places, Running
    <3>2. t = [task[w] EXCEPT !.at = "kernel", !.reported = FALSE]
      BY <2>3 DEF Resumed, BackInCall
    <3>3. t = [a EXCEPT !.reported = FALSE]
      BY <3>2, <1>1, TaskFields DEF Task
    <3> HIDE DEF a, t
    <3>4. t \in Task /\ t.at = "kernel" /\ ~t.reported /\ t.child = task[w].child
      BY <3>1, <3>3, Reported
    <3> QED
      BY <1>1, <1>3, <2>1, <2>3, <3>4, OneTask DEF BackInCall
  <2>4. CASE got = "signal"
    <3>1. t = Ended(KILLED_CODE)
      BY <2>4 DEF Resumed, BackInCall
    <3> HIDE DEF t
    <3> QED
      BY <1>1, <1>3, <2>1, <2>4, <3>1, EndedIsTask, OneTask DEF BackInCall
  <2>5. CASE got \in {"exit", "start"}
    <3>1. t = [Absent EXCEPT !.at = "user"]
      BY <2>5 DEF Resumed, BackInCall
    <3> HIDE DEF t
    <3>2. t \in Task /\ t.at = "user" /\ ~t.reported /\ t.child = None
      BY <3>1, AbsentIsTask, Placed DEF Places, Running
    <3> QED
      BY <1>1, <1>3, <2>1, <2>5, <3>2, OneTask DEF BackInCall
  <2> QED
    BY <2>2, <2>3, <2>4, <2>5 DEF Stops, BackInCall
<1> QED
  BY <1>2, <1>3
-----------------------------------------------------------------------------
\* The sets that are counted are finite.
LEMMA Finite ==
    ASSUME NEW S \in SUBSET Pid
    PROVE  IsFiniteSet(S) /\ Cardinality(S) \in Nat /\ Cardinality(S) <= Cardinality(Pid)
<1> SUFFICES IsFiniteSet(S) /\ Cardinality(S) <= Cardinality(Pid)
  BY FS_CardinalityType
<1> QED
  BY PidAssumption, FS_Subset

\* The kernel's steps but a fork, as moves of one task.
KernelMoves(p) ==
    \/ Moves(p, {"user"}, "enter") /\ task'[p].child = None /\ rootCode' = rootCode /\ pc # "start"
    \/ Moves(p, {"forked"}, "event") /\ task'[p].child = task[p].child /\ rootCode' = rootCode
    \/ Moves(p, {"kernel"}, "exit") /\ rootCode' = rootCode
    \/ /\ Moves(p, Stops \cup Running, "zombie")
       /\ regime.kills \/ task[p].at = "kernel"
       /\ task[p].at # "kernel" => pc \notin {"start", "done"} /\ task'[p].code = KILLED_CODE
       /\ rootCode' = IF p = Root THEN task'[p].code ELSE rootCode
    \/ regime.kills /\ Moves(p, {"user"}, "signal") /\ rootCode' = rootCode /\ pc # "start"

\* Every step of the kernel but a fork is such a move, and touches nothing of main.
LEMMA KernelStep ==
    ASSUME TypeOK, NEW p \in Pid, Kernel(p), ~Forks(p)
    PROVE  KernelMoves(p) /\ UNCHANGED <<regime, mainVars, out>>
<1>1. CASE EntersCall(p)
  BY <1>1, Enters DEF KernelMoves, EntersCall
<1>2. CASE ReportsFork(p)
  <2>1. Moves(p, {task[p].at}, "event") /\ task'[p].child = task[p].child
    BY <1>2, Halts DEF ReportsFork, Places, Stops
  <2> QED
    BY <1>2, <2>1 DEF KernelMoves, ReportsFork
<1>3. CASE LeavesCall(p)
  <2>1. Moves(p, {task[p].at}, "exit")
    BY <1>3, Halts DEF LeavesCall, Places, Stops
  <2> QED
    BY <1>3, <2>1 DEF KernelMoves, LeavesCall
<1>4. CASE Exits(p)
  <2>1. Moves(p, {"kernel"}, "zombie") /\ rootCode' = IF p = Root THEN task'[p].code ELSE rootCode
    BY <1>4, EndsTask DEF Exits
  <2>2. Moves(p, Stops \cup Running, "zombie")
    BY <2>1 DEF Moves, Running
  <2> QED
    BY <1>4, <2>1, <2>2 DEF KernelMoves, Exits, Ends
<1>5. CASE Killed(p)
  <2>1. /\ Moves(p, {task[p].at}, "zombie") /\ task[p].at \in Stops \cup Running
        /\ rootCode' = (IF p = Root THEN task'[p].code ELSE rootCode)
        /\ task'[p].code = KILLED_CODE
    BY <1>5, EndsTask DEF Killed, Alive
  <2>2. Moves(p, Stops \cup Running, "zombie")
    BY <2>1 DEF Moves
  <2> QED
    BY <1>5, <2>1, <2>2 DEF KernelMoves, Killed, Ends
<1>6. CASE Signalled(p)
  <2>1. Moves(p, {task[p].at}, "signal")
    BY <1>6, Halts DEF Signalled, Places, Stops
  <2> QED
    BY <1>6, <2>1 DEF KernelMoves, Signalled
<1> QED
  BY <1>1, <1>2, <1>3, <1>4, <1>5, <1>6 DEF Kernel

\* A line written, and a line read.
LEMMA Writes ==
    ASSUME LoopOK, NEW line \in Line, Write(line)
    PROVE  /\ out' \in Seq(Line) /\ Len(out') = Len(out) + 1 /\ Len(out') <= PIPE_LINES
           /\ Len(out) \in Nat /\ out'[Len(out) + 1] = line
           /\ \A i \in 1..Len(out) : out'[i] = out[i] /\ out[i] \in Line
  BY PipeAssumption DEF LoopOK, Write

\* Reading takes the first line away.
LEMMA Reads ==
    ASSUME LoopOK, Read
    PROVE  /\ out' \in Seq(Line) /\ Len(out) \in Nat \ {0} /\ Len(out') = Len(out) - 1
           /\ Head(out) = out[1]
           /\ \A i \in 1..Len(out) : out[i] \in Line
           /\ \A i \in 1..Len(out') : out'[i] = out[i + 1] /\ i + 1 \in 1..Len(out)
  BY DEF LoopOK, Read

\* What a line is made of.
LEMMA LineFields ==
    ASSUME NEW l \in Line
    PROVE  /\ l.kind \in {"ENTER", "EXIT", "EXITED", "SPAWN"} /\ l.pid \in Pid
           /\ l.kind = "SPAWN" => l.child \in Pid
  BY DEF Line

\* The lines the handlers write.
LEMMA EndLine ==
    ASSUME LoopOK, pc \in {"handle", "resume"}
    PROVE  w \in Pid /\ \A k \in {"ENTER", "EXIT", "EXITED"} : [kind |-> k, pid |-> w] \in Line
  BY DEF LoopOK, Line

\* The SPAWN line names a child that is a pid.
LEMMA ForkLine ==
    ASSUME LoopOK, pc = "handle", got = "event", Stopped(w)
    PROVE  w \in Pid /\ task[w].at = "event" /\ task[w].child \in Pid /\ SpawnLine(w) \in Line
<1>1. w \in Pid /\ task[w].at = "event"
  BY DEF LoopOK, Stopped, Stops
<1>2. task[w].child \in Pid
  BY <1>1 DEF LoopOK
<1> QED
  BY <1>1, <1>2 DEF SpawnLine, Line

\* Next, as the steps the proofs go through.
LEMMA Steps ==
    ASSUME TypeOK, [Next]_allVars
    PROVE  \/ \E p \in Pid : KernelMoves(p) /\ UNCHANGED <<regime, mainVars, out, said, announced>>
           \/ \E p \in Pid : Forks(p) /\ UNCHANGED <<said, announced>>
           \/ (Starts \/ StartFails \/ StartLost \/ WaitPid \/ EndLoop) /\ UNCHANGED <<said, announced>>
           \/ (HandleEnd \/ HandleSyscallStop \/ HandleForkEvent \/ Resume) /\ UNCHANGED <<said, announced>>
           \/ Read
           \/ UNCHANGED allVars
<1>1. ASSUME NEW p \in Pid, Kernel(p), UNCHANGED <<said, announced>>
      PROVE  Forks(p) \/ (KernelMoves(p) /\ UNCHANGED <<regime, mainVars, out, said, announced>>)
  BY <1>1, KernelStep
<1>2. CASE Main /\ UNCHANGED <<said, announced>>
  BY <1>2 DEF Main
<1> QED
  BY <1>1, <1>2 DEF Next
-----------------------------------------------------------------------------
\* A step that counts nothing keeps the bound when no fork becomes pending.
LEMMA NothingCounted ==
    ASSUME Inv, Forking' \subseteq Forking, Existing \subseteq Existing', ntraced' <= ntraced,
           ntraced' \in Int
    PROVE  ntraced' + Cardinality(Forking') <= Cardinality(Existing')
<1>1. /\ IsFiniteSet(Forking) /\ IsFiniteSet(Existing')
      /\ Cardinality(Forking) \in Nat /\ Cardinality(Forking') \in Nat
      /\ Cardinality(Existing) \in Nat /\ Cardinality(Existing') \in Nat
  BY Finite DEF Forking, Existing
<1>2. Cardinality(Forking') <= Cardinality(Forking) /\ Cardinality(Existing) <= Cardinality(Existing')
  BY <1>1, FS_Subset
<1>3. ntraced + Cardinality(Forking) <= Cardinality(Existing) /\ ntraced \in Int
  BY DEF Inv, CountBound, TypeOK
<1> QED
  BY <1>1, <1>2, <1>3

\* The bound on the tasks counted is kept by every step.
LEMMA CountStep == Inv /\ [Next]_allVars => CountBound'
<1> SUFFICES ASSUME Inv, [Next]_allVars PROVE CountBound'
  OBVIOUS
<1> USE DEF Inv
<1>t. ntraced \in Int /\ task \in [Pid -> Task]
  BY DEF TypeOK, Task
<1>1. ASSUME NEW p \in Pid, KernelMoves(p), UNCHANGED <<regime, mainVars, out, said, announced>>
      PROVE  CountBound'
  <2>1. Existing \subseteq Existing'
    BY <1>1 DEF KernelMoves, Moves, Existing
  <2>2. ASSUME NEW q \in Forking' PROVE q \in Forking
    <3>1. CASE q # p
      BY <3>1, <2>2, <1>1 DEF KernelMoves, Moves, Forking, Unhandled, Written, mainVars
    <3>2. CASE q = p
      BY <3>2, <2>2, <1>1 DEF KernelMoves, Moves, Forking, Unhandled, Written, mainVars
    <3> QED
      BY <3>1, <3>2
  <2>3. ntraced' = ntraced /\ pc' = pc
    BY <1>1 DEF mainVars
  <2> QED
    BY <2>1, <2>2, <2>3, <1>t, NothingCounted DEF CountBound
<1>2. ASSUME NEW p \in Pid, Forks(p), UNCHANGED <<said, announced>> PROVE CountBound'
  <2>1. PICK c \in Pid \ {p} : /\ task[c].at = "none" /\ task'[c].at = "start"
                               /\ \A q \in Pid \ {p, c} : task'[q] = task[q]
    BY <1>2, ForksTwo
  <2>2. task[p].at = "kernel" /\ task'[p].at = "forked"
    BY <1>2, ForksTwo
  <2>3. UNCHANGED mainVars
    BY <1>2 DEF Forks
  <2>4. Forking' = Forking \cup {p} /\ p \notin Forking
    BY <2>1, <2>2, <2>3 DEF Forking, Unhandled, Written, mainVars
  <2>5. Existing' = Existing \cup {c} /\ c \notin Existing
    BY <2>1, <2>2 DEF Existing
  <2>6. /\ Cardinality(Forking') = Cardinality(Forking) + 1
        /\ Cardinality(Existing') = Cardinality(Existing) + 1
        /\ Cardinality(Forking) \in Nat /\ Cardinality(Existing) \in Nat
    <3>1. IsFiniteSet(Forking) /\ IsFiniteSet(Existing)
      BY Finite DEF Forking, Existing
    <3> QED
      BY <2>4, <2>5, <3>1, FS_AddElement, FS_CardinalityType
  <2> QED
    BY <2>3, <2>6, <1>t DEF CountBound, mainVars
<1>3. CASE (Starts \/ StartFails \/ StartLost \/ WaitPid \/ EndLoop) /\ UNCHANGED <<said, announced>>
  <2>1. CASE Starts
    <3>1. Forking' = {} /\ {Root} \subseteq Existing' /\ ntraced' = 1 /\ pc' = "wait"
      BY <2>1, RootAssumption DEF Starts, LoopOK, Forking, Existing, Unhandled, Written, kernelVars
    <3>2. Cardinality(Forking') = 0
      BY <3>1, FS_EmptySet
    <3>3. Cardinality({Root}) <= Cardinality(Existing') /\ Cardinality({Root}) = 1
          /\ Cardinality(Existing') \in Nat
      BY <3>1, Finite, FS_Singleton, FS_Subset DEF Existing
    <3> QED
      BY <3>1, <3>2, <3>3 DEF CountBound
  <2>2. CASE StartFails \/ StartLost
    <3>1. PICK code : RootReaped(code)
      BY <2>2 DEF StartFails, StartLost
    <3>2. /\ task'[Root].at = "reaped" /\ \A q \in Pid \ {Root} : task'[q] = task[q]
          /\ ntraced' = ntraced /\ pc' = "done" /\ pc = "start"
      BY <2>2, <3>1, Reaps DEF RootReaped, StartFails, StartLost
    <3>3. Existing \subseteq Existing'
      BY <3>2 DEF Existing
    <3>4. Forking' \subseteq Forking
      BY <3>2 DEF Forking, Unhandled, Written
    <3> QED
      BY <3>2, <3>3, <3>4, <1>t, NothingCounted DEF CountBound
  <2>3. CASE WaitPid
    <3>1. /\ \A q \in Pid : task'[q].at = task[q].at \/ (task'[q].at = "reaped" /\ task[q].at = "zombie")
          /\ ntraced' = ntraced /\ pc = "wait" /\ pc' = "handle" /\ ntraced > 0
      BY <2>3, Waits DEF WaitPid
    <3>2. Existing \subseteq Existing'
      BY <3>1 DEF Existing
    <3>3. Forking' \subseteq Forking
      BY <3>1 DEF Forking, Unhandled, Written
    <3> QED
      BY <3>1, <3>2, <3>3, <1>t, NothingCounted DEF CountBound
  <2>4. CASE EndLoop
    <3>1. /\ \A q \in Pid : task'[q] = task[q] \/ task'[q] = Ended(KILLED_CODE)
          /\ ntraced' = ntraced /\ pc = "wait" /\ pc' = "done"
      BY <2>4, Gone DEF EndLoop, TracerGone
    <3>2. Ended(KILLED_CODE).at = "zombie"
      BY EndedIsTask
    <3>3. Existing \subseteq Existing'
      BY <3>1, <3>2 DEF Existing
    <3>4. Forking' \subseteq Forking
      BY <3>1, <3>2 DEF Forking, Unhandled, Written
    <3> QED
      BY <3>1, <3>3, <3>4, <1>t, NothingCounted DEF CountBound
  <2> QED
    BY <1>3, <2>1, <2>2, <2>3, <2>4
<1>4. CASE (HandleEnd \/ HandleSyscallStop \/ HandleForkEvent \/ Resume) /\ UNCHANGED <<said, announced>>
  <2>0. ntraced > 0
    BY <1>4 DEF HandleEnd, HandleSyscallStop, HandleForkEvent, Resume, CountBound
  <2>1. CASE HandleEnd
    <3>1. task' = task /\ ntraced' = ntraced - 1 /\ pc = "handle" /\ pc' = "wait"
      BY <2>1 DEF HandleEnd, kernelVars
    <3>2. Existing \subseteq Existing' /\ Forking' \subseteq Forking
      BY <3>1 DEF Existing, Forking, Unhandled, Written
    <3> QED
      BY <3>1, <3>2, <1>t, NothingCounted DEF CountBound
  <2>2. CASE HandleSyscallStop
    <3>1. task' = task /\ ntraced' = ntraced /\ pc = "handle" /\ pc' = "resume"
      BY <2>2 DEF HandleSyscallStop, AfterFailedInfo, kernelVars
    <3>2. Existing \subseteq Existing' /\ Forking' \subseteq Forking
      BY <3>1 DEF Existing, Forking, Unhandled, Written
    <3> QED
      BY <2>0, <3>1, <3>2, <1>t, NothingCounted DEF CountBound
  <2>3. CASE HandleForkEvent
    <3>1. task' = task /\ pc = "handle" /\ pc' = "resume" /\ got = "event" /\ w' = w
      BY <2>3 DEF HandleForkEvent, AfterForkEvent, kernelVars
    <3>2. Existing' = Existing
      BY <3>1 DEF Existing
    <3>3. CASE ~Stopped(w)
      <4>1. ntraced' = ntraced
        BY <2>3, <3>3 DEF HandleForkEvent
      <4>2. Forking' \subseteq Forking
        BY <3>1 DEF Forking, Unhandled, Written
      <4> QED
        BY <2>0, <3>1, <3>2, <4>1, <4>2, <1>t, NothingCounted DEF CountBound
    <3>4. CASE Stopped(w)
      <4>1. ntraced' = ntraced + 1
        BY <2>3, <3>4 DEF HandleForkEvent, Counted
      <4>2. w \in Pid /\ task[w].at = "event"
        BY <3>1, <3>4, ForkLine
      <4>3. Forking' = Forking \ {w} /\ w \in Forking
        BY <3>1, <4>2 DEF Forking, Unhandled, Written
      <4>4. /\ Cardinality(Forking') = Cardinality(Forking) - 1 /\ Cardinality(Forking) \in Nat
            /\ Cardinality(Existing) \in Nat
        <5>1. IsFiniteSet(Forking) /\ IsFiniteSet(Existing)
          BY Finite DEF Forking, Existing
        <5> QED
          BY <4>3, <5>1, FS_RemoveElement, FS_CardinalityType
      <4> QED
        BY <2>0, <3>2, <4>1, <4>4, <1>t DEF CountBound
    <3> QED
      BY <3>3, <3>4
  <2>4. CASE Resume
    <3>1. /\ ntraced' = ntraced /\ pc' = "wait" /\ pc \in {"handle", "resume"}
          /\ pc = "handle" => got \in {"start", "signal"}
      BY <2>4 DEF Resume
    <3>2. /\ \A q \in Pid \ {w} : task'[q] = task[q]
          /\ w \in Pid
          /\ ~Stopped(w) => task' = task
          /\ Stopped(w) => task[w].at = got /\ task'[w].at \in {"kernel", "zombie", "user"}
      <4>1. Stopped(w) => got \in Stops
        BY <2>4, Resumes DEF Stopped
      <4> QED
        BY <4>1, <2>4, Resumes, EndedIsTask DEF Stops, BackInCall
    <3>3. Existing \subseteq Existing'
      BY <3>2 DEF Existing
    <3>4. ASSUME NEW q \in Forking' PROVE q \in Forking
      <4>1. q # w \/ ~Stopped(w)
        BY <3>2, <3>4 DEF Forking, Unhandled
      <4>2. task'[q] = task[q] /\ (q = w => task[q].at \notin Stops)
        BY <4>1, <3>2, <3>4 DEF Forking, Stopped
      <4>3. q # w
        BY <4>2, <3>4, <3>2, <2>4 DEF Forking, Unhandled, Stops, LoopOK, Resume
      <4> QED
        BY <4>2, <4>3, <3>4 DEF Forking, Unhandled, Written
    <3> QED
      BY <3>1, <3>3, <3>4, <1>t, NothingCounted DEF CountBound
  <2> QED
    BY <1>4, <2>1, <2>2, <2>3, <2>4
<1>5. CASE Read \/ UNCHANGED allVars
  <2>1. UNCHANGED <<kernelVars, mainVars>>
    BY <1>5 DEF Read, allVars
  <2> QED
    BY <2>1 DEF kernelVars, mainVars, CountBound, Forking, Existing, Unhandled, Written
<1> QED
  BY <1>1, <1>2, <1>3, <1>4, <1>5, Steps
-----------------------------------------------------------------------------
\* Where things are at the start.
LEMMA TypeInit == CollectorInit => Inv
<1> SUFFICES ASSUME CollectorInit PROVE Inv
  OBVIOUS
<1> USE DEF CollectorInit, Init
<1>0. [Absent EXCEPT !.at = "user"] \in Task /\ [Absent EXCEPT !.at = "user"].at = "user"
  BY AbsentIsTask, Placed DEF Places, Running
<1>1. /\ task \in [Pid -> Task]
      /\ \A p \in Pid : task[p].at = (IF p = Root THEN "user" ELSE "none") /\ (p # Root => task[p] = Absent)
  BY <1>0, AbsentIsTask DEF Absent
<1>2. TypeOK
  <2>1. 0 \in 0..Cardinality(Pid)
    BY Finite
  <2>2. Len(out) <= PIPE_LINES
    BY PipeAssumption
  <2> QED
    BY <1>1, <2>1, <2>2, RootAssumption DEF TypeOK, Task
<1>3. LoopOK
  BY <1>1, AbsentIsTask DEF LoopOK
<1>4. CountBound
  <2>1. Forking = {}
    BY <1>1 DEF Forking, Unhandled
  <2>2. Cardinality(Forking) = 0
    BY <2>1, FS_EmptySet
  <2>3. Cardinality(Existing) \in Nat
    BY Finite DEF Existing
  <2> QED
    BY <2>2, <2>3 DEF CountBound
<1> QED
  BY <1>2, <1>3, <1>4 DEF Inv

\* The types are kept, and the loop has its task in hand.
LEMMA LoopStep == Inv /\ [Next]_allVars => Inv'
<1> SUFFICES ASSUME Inv, [Next]_allVars PROVE Inv'
  OBVIOUS
<1> USE DEF Inv
<1>c. CountBound'
  BY CountStep
<1> SUFFICES TypeOK' /\ LoopOK'
  BY <1>c
<1>n. ASSUME ntraced' \in {1, ntraced - 1, ntraced, ntraced + 1}, ntraced' # ntraced - 1 \/ ntraced > 0
      PROVE  ntraced' \in 0..Cardinality(Pid)
  <2>1. /\ Cardinality(Forking') \in Nat /\ Cardinality(Existing') \in Nat
        /\ Cardinality(Existing') <= Cardinality(Pid) /\ Cardinality(Pid) \in Nat
    BY Finite DEF Forking, Existing
  <2> QED
    BY <1>c, <1>n, <2>1 DEF CountBound, TypeOK
<1>1. ASSUME NEW p \in Pid, KernelMoves(p), UNCHANGED <<regime, mainVars, out, said, announced>>
      PROVE  TypeOK' /\ LoopOK'
  <2>1. task' \in [Pid -> Task] /\ UNCHANGED <<pc, w, got, ntraced, initial_code>> /\ pc # "start"
    BY <1>1 DEF KernelMoves, Moves, mainVars, LoopOK, Stops, Running
  <2>2. task'[p].code \in {EXIT_CODE, KILLED_CODE, None}
    BY <2>1 DEF Task
  <2>3. rootCode' \in {EXIT_CODE, KILLED_CODE, NOT_EXECUTED, None}
    BY <1>1, <2>2 DEF KernelMoves, TypeOK
  <2>4. TypeOK'
    BY <1>1, <2>1, <2>3 DEF TypeOK, Task
  <2>5. LoopOK'
    <3>1. ASSUME pc \in {"handle", "resume"}
          PROVE  /\ IF got = "zombie" THEN task'[w].at = "reaped" ELSE task'[w].at \in {got, "zombie"}
                 /\ task'[w].at \in Stops => task'[w].reported
      BY <1>1, <3>1 DEF KernelMoves, Moves, LoopOK, Stopped, Stops, Running
    <3>2. \A q \in Pid : task'[q].at = "none" => ~task'[q].reported
      BY <1>1 DEF KernelMoves, Moves, LoopOK
    <3>3. \A q \in Pid : task'[q].at \in {"forked", "event"} => task'[q].child \in Pid
      BY <1>1 DEF KernelMoves, Moves, LoopOK
    <3> QED
      BY <1>1, <2>1, <3>1, <3>2, <3>3 DEF LoopOK, Stopped
  <2> QED
    BY <2>4, <2>5
<1>2. ASSUME NEW p \in Pid, Forks(p), UNCHANGED <<said, announced>> PROVE TypeOK' /\ LoopOK'
  <2>1. PICK c \in Pid \ {p} : /\ task[c].at = "none" /\ task'[c].at = "start"
                               /\ task'[c].reported = task[c].reported
                               /\ task'[p].child = c
                               /\ \A q \in Pid \ {p, c} : task'[q] = task[q]
    BY <1>2, ForksTwo
  <2>2. /\ ~task'[c].reported
        /\ task[p].at = "kernel" /\ task'[p].at = "forked" /\ task' \in [Pid -> Task]
    BY <1>2, <2>1, ForksTwo DEF LoopOK
  <2>3. UNCHANGED <<regime, pc, w, got, ntraced, initial_code, rootCode, out>> /\ pc # "start"
    BY <1>2 DEF Forks, mainVars, LoopOK
  <2>4. TypeOK'
    BY <1>2, <2>2, <2>3 DEF TypeOK, Task
  <2>5. LoopOK'
    <3>1. pc \in {"handle", "resume"} => task'[w] = task[w]
      BY <2>1, <2>2 DEF LoopOK, Stops
    <3>2. \A q \in Pid : task'[q].at = "none" => ~task'[q].reported
      BY <2>1, <2>2 DEF LoopOK
    <3>3. \A q \in Pid : task'[q].at \in {"forked", "event"} => task'[q].child \in Pid
      BY <2>1, <2>2 DEF LoopOK
    <3> QED
      BY <2>3, <3>1, <3>2, <3>3 DEF LoopOK, Stopped
  <2> QED
    BY <2>4, <2>5
<1>3. CASE (Starts \/ StartFails \/ StartLost \/ WaitPid \/ EndLoop) /\ UNCHANGED <<said, announced>>
  <2>1. CASE Starts
    <3>1. ntraced' \in 0..Cardinality(Pid)
      BY <2>1, <1>n DEF Starts, TypeOK
    <3> QED
      BY <1>3, <2>1, <3>1 DEF Starts, kernelVars, TypeOK, LoopOK, Stopped
  <2>2. CASE StartFails \/ StartLost
    <3>1. PICK code \in {NOT_EXECUTED, KILLED_CODE} : RootReaped(code)
      BY <2>2 DEF StartFails, StartLost
    <3>2. /\ task'[Root].at = "reaped" /\ \A q \in Pid \ {Root} : task'[q] = task[q]
          /\ task' \in [Pid -> Task]
          /\ pc' = "done" /\ UNCHANGED <<regime, w, got, ntraced, out>> /\ rootCode' = code
      BY <3>1, Reaps DEF RootReaped
    <3>3. TypeOK'
      BY <1>3, <3>2 DEF TypeOK, Task
    <3>4. LoopOK'
      BY <3>2 DEF LoopOK
    <3> QED
      BY <3>3, <3>4
  <2>3. CASE WaitPid
    <3>1. TypeOK'
      <4>1. got' \in Stops \cup {"zombie", None} /\ task' \in [Pid -> Task]
        BY <2>3, Waits DEF Waitable
      <4> QED
        BY <1>3, <2>3, <4>1, Waits DEF TypeOK, Task, WaitPid
    <3>2. LoopOK'
      <4>1. got' \in Stops \cup {"zombie"} /\ w' \in Pid
        BY <2>3, Waits DEF Waitable
      <4>2. UNCHANGED out /\ pc' = "handle"
        BY <2>3 DEF WaitPid
      <4>3. \A q \in Pid : task'[q].at = "none" => ~task'[q].reported
        BY <2>3, <4>1, Waits DEF LoopOK, Stops
      <4>4. \A q \in Pid : task'[q].at \in {"forked", "event"} => task'[q].child \in Pid
        <5>1. \A q \in Pid : task'[q].child = task[q].child
                             /\ (task'[q].at \in {"forked", "event"} => task'[q].at = task[q].at)
          BY <2>3, <4>1, Waits DEF Stops
        <5> QED
          BY <5>1 DEF LoopOK
      <4>5. /\ IF got' = "zombie" THEN task'[w'].at = "reaped" ELSE task'[w'].at \in {got', "zombie"}
            /\ task'[w'].reported
        BY <2>3, Waits
      <4> QED
        BY <4>1, <4>2, <4>3, <4>4, <4>5 DEF LoopOK
    <3> QED
      BY <3>1, <3>2
  <2>4. CASE EndLoop
    <3>1. /\ \A q \in Pid : task'[q] = task[q] \/ task'[q] = Ended(KILLED_CODE)
          /\ task' \in [Pid -> Task] /\ pc' = "done"
          /\ UNCHANGED <<regime, rootCode, w, got, ntraced, initial_code, out>>
      BY <2>4, Gone DEF EndLoop, TracerGone
    <3>2. Ended(KILLED_CODE).at = "zombie"
      BY EndedIsTask
    <3>3. TypeOK'
      BY <1>3, <3>1 DEF TypeOK, Task
    <3>4. LoopOK'
      BY <3>1, <3>2 DEF LoopOK
    <3> QED
      BY <3>3, <3>4
  <2> QED
    BY <1>3, <2>1, <2>2, <2>3, <2>4
<1>4. CASE (HandleEnd \/ HandleSyscallStop \/ HandleForkEvent \/ Resume) /\ UNCHANGED <<said, announced>>
  <2>0. ntraced > 0 /\ pc \in {"handle", "resume"} /\ w \in Pid
    BY <1>4 DEF HandleEnd, HandleSyscallStop, HandleForkEvent, Resume, CountBound, LoopOK
  <2>1. CASE HandleEnd
    <3>1. out' \in Seq(Line) /\ Len(out') <= PIPE_LINES
      BY <2>1, <2>0, EndLine, Writes DEF HandleEnd
    <3>2. ntraced' \in 0..Cardinality(Pid)
      BY <2>0, <2>1, <1>n DEF HandleEnd
    <3>3. TypeOK'
      BY <1>4, <2>1, <3>1, <3>2 DEF HandleEnd, kernelVars, TypeOK
    <3>4. LoopOK'
      BY <2>1, <3>1 DEF HandleEnd, kernelVars, LoopOK, Stopped
    <3> QED
      BY <3>3, <3>4
  <2>2. CASE HandleSyscallStop
    <3>1. out' \in Seq(Line) /\ Len(out') <= PIPE_LINES
      <4>1. CASE Stopped(w)
        <5>1. PICK k \in {"ENTER", "EXIT"} : Write([kind |-> k, pid |-> w])
          BY <2>2, <4>1 DEF HandleSyscallStop
        <5> QED
          BY <5>1, <2>0, EndLine, Writes
      <4>2. CASE ~Stopped(w)
        BY <2>2, <4>2 DEF HandleSyscallStop, LoopOK, TypeOK
      <4> QED
        BY <4>1, <4>2
    <3>2. UNCHANGED <<kernelVars, w, got, ntraced, initial_code>> /\ pc' = "resume" /\ got \in {"enter", "exit"}
      BY <2>2 DEF HandleSyscallStop, AfterFailedInfo
    <3>3. TypeOK'
      BY <1>4, <3>1, <3>2 DEF kernelVars, TypeOK
    <3>4. LoopOK'
      BY <2>0, <3>1, <3>2 DEF kernelVars, LoopOK, Stopped
    <3> QED
      BY <3>3, <3>4
  <2>3. CASE HandleForkEvent
    <3>1. out' \in Seq(Line) /\ Len(out') <= PIPE_LINES
      <4>1. CASE Stopped(w)
        BY <2>3, <4>1, ForkLine, Writes DEF HandleForkEvent
      <4>2. CASE ~Stopped(w)
        BY <2>3, <4>2 DEF HandleForkEvent, LoopOK, TypeOK
      <4> QED
        BY <4>1, <4>2
    <3>2. UNCHANGED <<kernelVars, w, got, initial_code>> /\ pc' = "resume" /\ got = "event"
      BY <2>3 DEF HandleForkEvent, AfterForkEvent
    <3>3. ntraced' \in 0..Cardinality(Pid)
      <4>1. ntraced' \in {ntraced, ntraced + 1} /\ ntraced' # ntraced - 1
        BY <2>3 DEF HandleForkEvent, Counted, TypeOK
      <4> QED
        BY <4>1, <1>n
    <3>4. TypeOK'
      BY <1>4, <3>1, <3>2, <3>3 DEF kernelVars, TypeOK
    <3>5. LoopOK'
      BY <2>0, <3>1, <3>2 DEF kernelVars, LoopOK, Stopped
    <3> QED
      BY <3>4, <3>5
  <2>4. CASE Resume
    <3>1. /\ pc' = "wait" /\ w' = None /\ got' = None
          /\ UNCHANGED <<regime, ntraced, initial_code, out>>
          /\ rootCode' \in {rootCode, KILLED_CODE}
      BY <2>4 DEF Resume
    <3>2. TypeOK'
      BY <1>4, <2>4, <3>1, Resumes DEF TypeOK, Task
    <3>3. LoopOK'
      <4>1. \A q \in Pid : task'[q] = task[q]
                           \/ (task'[q].at \in {"kernel", "zombie", "user"} /\ ~task'[q].reported)
        <5>1. Stopped(w) => task'[w].at \in {"kernel", "zombie", "user"}
          <6>1. Stopped(w) => got \in Stops
            BY <2>4, Resumes DEF Stopped
          <6> QED
            BY <6>1, <2>4, Resumes, EndedIsTask DEF Stops, BackInCall
        <5> QED
          BY <5>1, <2>4, Resumes
      <4> QED
        BY <3>1, <4>1 DEF LoopOK
    <3> QED
      BY <3>2, <3>3
  <2> QED
    BY <1>4, <2>1, <2>2, <2>3, <2>4
<1>5. CASE Read
  <2>1. UNCHANGED <<kernelVars, mainVars>> /\ out' \in Seq(Line) /\ Len(out') <= PIPE_LINES
    BY <1>5, Reads, PipeAssumption DEF Read, TypeOK
  <2>2. Head(out) \in Line
    BY <1>5, Reads
  <2>3. announced' \subseteq Pid
    BY <1>5, <2>2, LineFields DEF Read, TypeOK
  <2>4. SaysAfter(Head(out)) \in {"nothing", "in", "out", "over"}
    BY <2>2, LineFields DEF SaysAfter, TypeOK
  <2>5. said' \in [Pid -> {"nothing", "in", "out", "over"}]
    BY <1>5, <2>2, <2>4, LineFields DEF Read, TypeOK
  <2>6. TypeOK'
    BY <2>1, <2>3, <2>5 DEF kernelVars, mainVars, TypeOK
  <2>7. LoopOK'
    BY <2>1 DEF kernelVars, mainVars, LoopOK, Stopped
  <2> QED
    BY <2>6, <2>7
<1>6. CASE UNCHANGED allVars
  BY <1>6 DEF allVars, kernelVars, mainVars, TypeOK, LoopOK, Stopped
<1> QED
  BY <1>1, <1>2, <1>3, <1>4, <1>5, <1>6, Steps

\* The loop's invariant holds always.
LEMMA InvHolds == SafeSpec => []Inv
  BY TypeInit, LoopStep, PTL DEF SafeSpec

\* The variables hold what they should, and the tasks counted are never more
\* than there are nor fewer than none (tracer.c main, ntraced).
THEOREM TypesHold == Spec => []TypeOK
<1>1. Inv => TypeOK
  BY DEF Inv
<1> QED
  BY <1>1, InvHolds, PTL DEF Spec

-----------------------------------------------------------------------------
\* No step forgets a stop that waitpid returned.
LEMMA StopsStep == Inv /\ NoStopForgotten /\ [Next]_allVars => NoStopForgotten'
<1> SUFFICES ASSUME Inv, NoStopForgotten, [Next]_allVars,
                    NEW p \in Pid, task'[p].at \in Stops, task'[p].reported
             PROVE  p = w' /\ pc' \in {"handle", "resume"}
  BY DEF NoStopForgotten, Stopped
<1> USE DEF Inv
<1>0. task[p].at \in Stops /\ task[p].reported => p = w /\ pc \in {"handle", "resume"}
  BY DEF NoStopForgotten, Stopped
<1>1. ASSUME NEW q \in Pid, KernelMoves(q), UNCHANGED <<regime, mainVars, out, said, announced>>
      PROVE  p = w' /\ pc' \in {"handle", "resume"}
  BY <1>0, <1>1 DEF KernelMoves, Moves, mainVars
<1>2. ASSUME NEW q \in Pid, Forks(q), UNCHANGED <<said, announced>>
      PROVE  p = w' /\ pc' \in {"handle", "resume"}
  <2>1. PICK c \in Pid \ {q} : /\ task[c].at = "none" /\ task'[c].reported = task[c].reported
                               /\ \A r \in Pid \ {q, c} : task'[r] = task[r]
    BY <1>2, ForksTwo
  <2>2. task'[q].at \notin Stops
    BY <1>2, ForksTwo DEF Stops
  <2>3. ~task'[c].reported
    BY <2>1 DEF LoopOK
  <2>4. task'[p] = task[p]
    BY <2>1, <2>2, <2>3
  <2> QED
    BY <1>0, <1>2, <2>4 DEF Forks, mainVars
<1>3. CASE (Starts \/ StartFails \/ StartLost \/ WaitPid \/ EndLoop) /\ UNCHANGED <<said, announced>>
  <2>1. CASE Starts
    BY <1>0, <2>1 DEF Starts, kernelVars
  <2>2. CASE StartFails \/ StartLost
    <3>1. PICK code : RootReaped(code)
      BY <2>2 DEF StartFails, StartLost
    <3>2. task'[Root].at = "reaped" /\ \A q \in Pid \ {Root} : task'[q] = task[q]
      BY <3>1, Reaps
    <3>3. task'[p] = task[p] /\ pc = "start"
      BY <2>2, <3>2 DEF Stops, StartFails, StartLost
    <3> QED
      BY <1>0, <3>3
  <2>3. CASE WaitPid
    BY <1>0, <2>3, Waits DEF WaitPid
  <2>4. CASE EndLoop
    <3>1. Ended(KILLED_CODE).at \notin Stops
      BY EndedIsTask DEF Stops
    <3>2. task'[p] = task[p] /\ pc = "wait"
      BY <2>4, <3>1, Gone DEF EndLoop
    <3> QED
      BY <1>0, <3>2
  <2> QED
    BY <1>3, <2>1, <2>2, <2>3, <2>4
<1>4. CASE (HandleEnd \/ HandleSyscallStop \/ HandleForkEvent \/ Resume) /\ UNCHANGED <<said, announced>>
  <2>1. CASE HandleEnd
    <3>1. task[w].at \notin Stops /\ task' = task
      BY <2>1 DEF HandleEnd, LoopOK, Stops, kernelVars
    <3> QED
      BY <1>0, <3>1
  <2>2. CASE HandleSyscallStop \/ HandleForkEvent
    BY <1>0, <2>2 DEF HandleSyscallStop, HandleForkEvent, AfterFailedInfo, AfterForkEvent, kernelVars
  <2>3. CASE Resume
    <3>1. CASE Stopped(w)
      BY <1>0, <2>3, <3>1, Resumes
    <3>2. CASE ~Stopped(w)
      BY <1>0, <2>3, <3>2, Resumes DEF Stopped
    <3> QED
      BY <3>1, <3>2
  <2> QED
    BY <1>4, <2>1, <2>2, <2>3
<1>5. CASE Read \/ UNCHANGED allVars
  <2>1. UNCHANGED <<task, pc, w>>
    BY <1>5 DEF Read, allVars, kernelVars, mainVars
  <2> QED
    BY <1>0, <2>1
<1> QED
  BY <1>1, <1>2, <1>3, <1>4, <1>5, Steps

\* A stop that waitpid returned is in the loop's hand until the task goes on,
\* whatever is killed in between (tracer.c main).
THEOREM NoStopIsForgotten == Spec => []NoStopForgotten
<1>1. CollectorInit => NoStopForgotten
  <2> SUFFICES ASSUME CollectorInit PROVE NoStopForgotten
    OBVIOUS
  <2>1. LoopOK /\ pc = "start"
    BY TypeInit DEF Inv, CollectorInit, Init
  <2> QED
    BY <2>1 DEF LoopOK, NoStopForgotten, Stopped, Stops
<1> QED
  BY <1>1, StopsStep, InvHolds, PTL DEF Spec, SafeSpec

-----------------------------------------------------------------------------
\* What the pipe says, when nothing is written or read.
LEMMA SameLines ==
    ASSUME Inv, Streams, UNCHANGED <<out, said>>,
           \A s : \A p \in Pid : Fits(s, p) => Fits(s, p)'
    PROVE  Streams'
<1> DEFINE n == Len(out)
<1>1. n \in Nat /\ \A i \in 1..n : out[i].pid \in Pid
  BY LineFields DEF Inv, LoopOK
<1>2. \A p, i, j : Silent(p, i, j)' <=> Silent(p, i, j)
  BY DEF Silent
<1>3. FirstAllowed' /\ NextAllowed'
  BY <1>2 DEF Streams, FirstAllowed, NextAllowed
<1>4. QuietFits'
  BY <1>2 DEF Streams, QuietFits
<1>6. LastFits'
  <2> SUFFICES ASSUME NEW i \in 1..n, Silent(out[i].pid, i + 1, n), NEW s, NEW p,
                      s = Outcome(out[i]), p = out[i].pid
               PROVE  Fits(s, p)'
    BY <1>2 DEF LastFits, Fits, Written
  <2> QED
    BY <1>1 DEF Streams, LastFits
<1> QED
  BY <1>3, <1>4, <1>6 DEF Streams


\* A line is written at the end.
LEMMA LineWritten ==
    ASSUME Inv, Streams, said' = said, NEW line \in Line, Write(line),
           \A s : Fits(s, line.pid) => Allowed(s, line),
           Fits(Outcome(line), line.pid)',
           \A s : \A q \in Pid \ {line.pid} : Fits(s, q) => Fits(s, q)'
    PROVE  Streams'
<1> DEFINE Quiet(p, i, j) == \A k \in i..j : out'[k].pid # p
<1>0. PICK n \in Nat : n = Len(out)
  BY DEF Inv, LoopOK
<1>1. /\ Len(out') = n + 1 /\ out'[n + 1] = line
      /\ \A i \in 1..n : out'[i] = out[i] /\ out[i].pid \in Pid
      /\ line.pid \in Pid
  BY <1>0, Writes, LineFields DEF Inv
<1>2. ASSUME NEW p, NEW i \in Nat \ {0}, NEW j \in Nat, j <= n
      PROVE  Quiet(p, i, j) <=> Silent(p, i, j)
  BY <1>1, <1>2 DEF Silent
<1>3. ASSUME NEW p, NEW i \in 1..(n + 1), Quiet(p, i, n + 1)
      PROVE  Silent(p, i, n) /\ p # line.pid
  BY <1>1, <1>3 DEF Silent
<1>a. ASSUME NEW p, Silent(p, 1, n), p \in Pid
      PROVE  Fits(said[p], p)
  BY <1>0, <1>a DEF Streams, QuietFits
<1>b. ASSUME NEW i \in 1..n, Silent(out[i].pid, i + 1, n)
      PROVE  Fits(Outcome(out[i]), out[i].pid)
  BY <1>0, <1>b DEF Streams, LastFits
<1> HIDE DEF Quiet
<1>4. FirstAllowed'
  <2> SUFFICES ASSUME NEW j \in 1..(n + 1), Quiet(out'[j].pid, 1, j - 1)
               PROVE  Allowed(said[out'[j].pid], out'[j])
    BY <1>1 DEF FirstAllowed, Silent, Quiet
  <2>1. Silent(out'[j].pid, 1, j - 1)
    BY <1>2, j - 1 \in Nat, j - 1 <= n
  <2>2. CASE j \in 1..n
    BY <1>0, <1>1, <2>1, <2>2 DEF Streams, FirstAllowed
  <2>3. CASE j = n + 1
    <3>1. Silent(line.pid, 1, n)
      BY <1>1, <2>1, <2>3
    <3>2. Fits(said[line.pid], line.pid)
      BY <1>1, <1>a, <3>1
    <3> QED
      BY <1>1, <2>3, <3>2
  <2> QED
    BY <1>1, <2>2, <2>3
<1>5. NextAllowed'
  <2> SUFFICES ASSUME NEW i \in 1..(n + 1), NEW j \in 1..(n + 1),
                      i < j, out'[i].pid = out'[j].pid, Quiet(out'[j].pid, i + 1, j - 1)
               PROVE  Allowed(Outcome(out'[i]), out'[j])
    BY <1>1 DEF NextAllowed, Silent, Quiet
  <2>1. i \in 1..n /\ out'[i] = out[i] /\ Silent(out'[j].pid, i + 1, j - 1)
    BY <1>1, <1>2
  <2>2. CASE j \in 1..n
    BY <1>0, <1>1, <2>1, <2>2 DEF Streams, NextAllowed
  <2>3. CASE j = n + 1
    <3>1. out[i].pid = line.pid /\ Silent(line.pid, i + 1, n)
      BY <1>1, <2>1, <2>3
    <3>2. Fits(Outcome(out[i]), line.pid)
      BY <2>1, <1>b, <3>1
    <3> QED
      BY <1>1, <2>1, <2>3, <3>2
  <2> QED
    BY <1>1, <2>2, <2>3
<1>6. QuietFits'
  <2> SUFFICES ASSUME NEW p \in Pid, Quiet(p, 1, n + 1) PROVE Fits(said[p], p)'
    BY <1>1 DEF QuietFits, Silent, Quiet
  <2>1. Silent(p, 1, n) /\ p # line.pid
    BY <1>1, <1>3
  <2>2. Fits(said[p], p)
    BY <1>a, <2>1
  <2>3. \A s : Fits(s, p) => Fits(s, p)'
    BY <2>1
  <2> QED
    BY <2>2, <2>3
<1>7. LastFits'
  <2> SUFFICES ASSUME NEW i \in 1..(n + 1), Quiet(out'[i].pid, i + 1, n + 1), NEW s, NEW p,
                      s = Outcome(out'[i]), p = out'[i].pid
               PROVE  Fits(s, p)'
    BY <1>1 DEF LastFits, Silent, Quiet, Fits, Written
  <2>1. CASE i = n + 1
    BY <1>1, <2>1
  <2>2. CASE i \in 1..n
    <3>1. Silent(p, i + 1, n) /\ p # line.pid /\ s = Outcome(out[i]) /\ p = out[i].pid /\ p \in Pid
      BY <1>1, <1>3, <2>2
    <3>2. Fits(s, p)
      BY <1>b, <2>2, <3>1
    <3>3. \A r : Fits(r, p) => Fits(r, p)'
      BY <3>1
    <3> QED
      BY <3>2, <3>3
  <2> QED
    BY <1>1, <2>1, <2>2
<1> QED
  BY <1>4, <1>5, <1>6, <1>7 DEF Streams

\* The first line is read.
LEMMA LineRead ==
    ASSUME Inv, Streams, Read
    PROVE  Streams'
<1> DEFINE line == out[1]
           Quiet(p, i, j) == \A k \in i..j : out'[k].pid # p
<1>0. PICK n \in Nat : Len(out) = n + 1
  <2>1. Len(out) - 1 \in Nat /\ Len(out) = (Len(out) - 1) + 1
    BY Reads DEF Inv
  <2> QED
    BY <2>1
<1>1. /\ Len(out') = n /\ Head(out) = line /\ line.pid \in Pid
      /\ line.kind \in {"ENTER", "EXIT", "EXITED", "SPAWN"}
      /\ \A i \in 1..n : out'[i] = out[i + 1] /\ out[i + 1].pid \in Pid
  BY <1>0, Reads, LineFields DEF Inv
<1>2. Allowed(said[line.pid], line)
  <2>1. Silent(line.pid, 1, 0)
    BY DEF Silent
  <2> QED
    BY <1>0, <2>1 DEF Streams, FirstAllowed
<1>3. \A p \in Pid : said'[p] = IF p = line.pid THEN Outcome(line) ELSE said[p]
  <2>1. SaysAfter(line) = Outcome(line)
    BY <1>1, <1>2 DEF Allowed, SaysAfter, Outcome
  <2> QED
    BY <1>1, <2>1 DEF Read, Inv, TypeOK
<1>4. ASSUME NEW p, NEW i \in Nat \ {0}, NEW j \in Nat, j <= n
      PROVE  /\ Quiet(p, i, j) <=> Silent(p, i + 1, j + 1)
             /\ Silent(p, 1, j + 1) <=> Quiet(p, 1, j) /\ p # line.pid
  <2>1. ASSUME Quiet(p, i, j), NEW k \in (i + 1)..(j + 1) PROVE out[k].pid # p
    <3>1. k - 1 \in i..j /\ k - 1 \in 1..n /\ (k - 1) + 1 = k
      BY <1>4
    <3> QED
      BY <1>1, <2>1, <3>1
  <2>2. ASSUME Silent(p, i + 1, j + 1), NEW k \in i..j PROVE out'[k].pid # p
    <3>1. k + 1 \in (i + 1)..(j + 1) /\ k \in 1..n
      BY <1>4
    <3> QED
      BY <1>1, <2>2, <3>1 DEF Silent
  <2>3. ASSUME Silent(p, 1, j + 1) PROVE Quiet(p, 1, j) /\ p # line.pid
    <3>1. ASSUME NEW k \in 1..j PROVE out'[k].pid # p
      <4>1. k + 1 \in 1..(j + 1) /\ k \in 1..n
        BY <1>4
      <4> QED
        BY <1>1, <2>3, <4>1 DEF Silent
    <3>2. 1 \in 1..(j + 1)
      OBVIOUS
    <3> QED
      BY <2>3, <3>1, <3>2 DEF Silent
  <2>4. ASSUME Quiet(p, 1, j), p # line.pid, NEW k \in 1..(j + 1) PROVE out[k].pid # p
    <3>1. CASE k = 1
      BY <2>4, <3>1
    <3>2. CASE k # 1
      <4>1. k - 1 \in 1..j /\ k - 1 \in 1..n /\ (k - 1) + 1 = k
        BY <1>4, <3>2
      <4> QED
        BY <1>1, <2>4, <4>1
    <3> QED
      BY <3>1, <3>2
  <2> QED
    BY <2>1, <2>2, <2>3, <2>4 DEF Silent
<1>f. ASSUME NEW s, NEW p PROVE Fits(s, p)' <=> Fits(s, p)
  BY DEF Fits, Written, Read, kernelVars, mainVars
<1> HIDE DEF Quiet
<1>5. FirstAllowed'
  <2> SUFFICES ASSUME NEW j \in 1..n, Quiet(out'[j].pid, 1, j - 1)
               PROVE  Allowed(said'[out'[j].pid], out'[j])
    BY <1>1 DEF FirstAllowed, Silent, Quiet
  <2>1. out'[j] = out[j + 1] /\ out[j + 1].pid \in Pid /\ j + 1 \in 1..Len(out) /\ j - 1 \in Nat /\ (j - 1) + 1 = j
        /\ (j + 1) - 1 = j
    BY <1>0, <1>1
  <2>2. CASE out[j + 1].pid = line.pid
    <3>1. Silent(line.pid, 2, j)
      BY <1>4, <2>1, <2>2
    <3>2. Allowed(Outcome(line), out[j + 1])
      BY <1>0, <2>1, <2>2, <3>1 DEF Streams, NextAllowed
    <3> QED
      BY <1>3, <2>1, <2>2, <3>2
  <2>3. CASE out[j + 1].pid # line.pid
    <3>1. Silent(out[j + 1].pid, 1, j)
      BY <1>4, <2>1, <2>3
    <3>2. Allowed(said[out[j + 1].pid], out[j + 1])
      BY <2>1, <3>1 DEF Streams, FirstAllowed
    <3> QED
      BY <1>3, <2>1, <2>3, <3>2
  <2> QED
    BY <2>2, <2>3
<1>6. NextAllowed'
  <2> SUFFICES ASSUME NEW i \in 1..n, NEW j \in 1..n,
                      i < j, out'[i].pid = out'[j].pid, Quiet(out'[j].pid, i + 1, j - 1)
               PROVE  Allowed(Outcome(out'[i]), out'[j])
    BY <1>1 DEF NextAllowed, Silent, Quiet
  <2>1. /\ out'[j] = out[j + 1] /\ out'[i] = out[i + 1] /\ i + 1 \in 1..Len(out) /\ j + 1 \in 1..Len(out)
        /\ i + 1 < j + 1 /\ j - 1 \in Nat /\ (j - 1) + 1 = (j + 1) - 1 /\ j - 1 <= n
    BY <1>0, <1>1
  <2>2. Silent(out[j + 1].pid, (i + 1) + 1, (j + 1) - 1)
    BY <1>4, <2>1
  <2> QED
    BY <2>1, <2>2 DEF Streams, NextAllowed
<1>7. QuietFits'
  <2> SUFFICES ASSUME NEW p \in Pid, Quiet(p, 1, n), NEW s, s = said'[p]
               PROVE  Fits(s, p)
    BY <1>1, <1>f DEF QuietFits, Silent, Quiet, Fits, Written
  <2>1. CASE p = line.pid
    <3>1. Silent(line.pid, 2, Len(out)) /\ 1 \in 1..Len(out)
      BY <1>0, <1>4, <2>1
    <3>2. Fits(Outcome(line), p)
      BY <2>1, <3>1 DEF Streams, LastFits
    <3> QED
      BY <1>3, <2>1, <3>2
  <2>2. CASE p # line.pid
    <3>1. Silent(p, 1, Len(out))
      BY <1>0, <1>4, <2>2
    <3> QED
      BY <1>3, <2>2, <3>1 DEF Streams, QuietFits
  <2> QED
    BY <2>1, <2>2
<1>8. LastFits'
  <2> SUFFICES ASSUME NEW i \in 1..n, Quiet(out'[i].pid, i + 1, n), NEW s, NEW p,
                      s = Outcome(out'[i]), p = out'[i].pid
               PROVE  Fits(s, p)
    BY <1>1, <1>f DEF LastFits, Silent, Quiet, Fits, Written
  <2>1. out'[i] = out[i + 1] /\ i + 1 \in 1..Len(out)
    BY <1>0, <1>1
  <2>2. Silent(p, (i + 1) + 1, Len(out))
    BY <1>0, <1>4
  <2> QED
    BY <2>1, <2>2 DEF Streams, LastFits
<1> QED
  BY <1>5, <1>6, <1>7, <1>8 DEF Streams

\* A step of a task or of the loop that writes nothing changes no stream's mood.
LEMMA KernelFits ==
    ASSUME Inv, NEW p \in Pid, KernelMoves(p), UNCHANGED <<regime, mainVars, out, said, announced>>,
           NEW s, NEW q \in Pid, Fits(s, q)
    PROVE  Fits(s, q)'
<1>0. UNCHANGED <<pc, w, got>> /\ pc # "start"
  BY DEF KernelMoves, Moves, mainVars, Inv, LoopOK, Stops, Running
<1>1. CASE q # p
  <2>1. task'[q] = task[q]
    BY <1>1 DEF KernelMoves, Moves
  <2> QED
    BY <1>0, <2>1 DEF Fits, Written
<1>2. CASE q = p
  <2>1. task[p].at \in {"user", "forked", "kernel"} => ~Written(p)
    BY DEF Written, Inv, LoopOK, Stops
  <2> QED
    BY <1>0, <1>2, <2>1 DEF KernelMoves, Moves, Fits, Written, Stops, Running
<1> QED
  BY <1>1, <1>2

\* Nor does a fork: the child has said nothing.
LEMMA ForkFits ==
    ASSUME Inv, NEW p \in Pid, Forks(p), NEW s, NEW q \in Pid, Fits(s, q)
    PROVE  Fits(s, q)'
<1>1. PICK c \in Pid \ {p} : /\ task[c].at = "none" /\ task'[c].at = "start"
                             /\ \A r \in Pid \ {p, c} : task'[r] = task[r]
  BY ForksTwo DEF Inv
<1>2. task[p].at = "kernel" /\ task'[p].at = "forked" /\ UNCHANGED <<pc, w>> /\ pc # "start"
  BY ForksTwo DEF Inv, Forks, mainVars, LoopOK
<1> QED
  BY <1>1, <1>2 DEF Fits, Written

\* Nor do the first waitpid, the next one, and the end of the loop.
LEMMA LoopFits ==
    ASSUME Inv, Starts \/ StartFails \/ StartLost \/ WaitPid \/ EndLoop,
           NEW s, NEW q \in Pid, Fits(s, q)
    PROVE  Fits(s, q)'
<1>1. CASE Starts
  BY <1>1 DEF Starts, kernelVars, Inv, LoopOK, Fits, Written
<1>2. CASE StartFails \/ StartLost
  <2>1. PICK code : RootReaped(code)
    BY <1>2 DEF StartFails, StartLost
  <2>2. /\ task'[Root].at = "reaped" /\ \A r \in Pid \ {Root} : task'[r] = task[r]
        /\ pc' = "done" /\ pc = "start" /\ s = "nothing"
    BY <1>2, <2>1, Reaps DEF Inv, RootReaped, StartFails, StartLost, Fits
  <2>3. CASE q = Root
    BY <2>2, <2>3 DEF Fits
  <2>4. CASE q # Root
    BY <2>2, <2>4 DEF Inv, LoopOK, Fits, Written
  <2> QED
    BY <2>3, <2>4
<1>3. CASE WaitPid
  <2>1. pc = "wait" /\ pc' = "handle"
    BY <1>3 DEF WaitPid
  <2>2. CASE q # w'
    <3>1. task'[q] = task[q]
      BY <1>3, <2>2, Waits DEF Inv
    <3> QED
      BY <2>1, <2>2, <3>1 DEF Fits, Written
  <2>3. CASE q = w'
    <3>1. /\ task[q].at \in Stops \cup {"zombie"}
          /\ task'[q].at = IF task[q].at = "zombie" THEN "reaped" ELSE task[q].at
      BY <1>3, <2>3, Waits DEF Inv, Waitable
    <3> QED
      BY <2>1, <2>3, <3>1 DEF Fits, Written, Stops
  <2> QED
    BY <2>2, <2>3
<1>4. CASE EndLoop
  <2>1. pc = "wait" /\ pc' = "done"
    BY <1>4 DEF EndLoop, TracerGone
  <2>2. CASE Alive(q)
    <3>1. task'[q].at = "zombie" /\ task[q].at \in Stops \cup Running
      BY <1>4, <2>2, Gone, EndedIsTask DEF Inv, EndLoop, Alive
    <3> QED
      BY <2>1, <3>1 DEF Fits, Written, Stops, Running
  <2>3. CASE ~Alive(q)
    <3>1. task'[q] = task[q]
      BY <1>4, <2>3, Gone DEF Inv, EndLoop
    <3> QED
      BY <2>1, <3>1 DEF Fits, Written
  <2> QED
    BY <2>2, <2>3
<1> QED
  BY <1>1, <1>2, <1>3, <1>4

\* Nor does PTRACE_SYSCALL: it was the line that changed it.
LEMMA ResumeFits ==
    ASSUME Inv, Resume, NEW s, NEW q \in Pid, Fits(s, q)
    PROVE  Fits(s, q)'
<1>1. pc' = "wait" /\ pc \in {"handle", "resume"} /\ (pc = "handle" => got \in {"start", "signal"})
  BY DEF Resume
<1>2. CASE q # w
  <2>1. task'[q] = task[q]
    BY <1>2, Resumes DEF Inv
  <2> QED
    BY <1>1, <1>2, <2>1 DEF Fits, Written
<1>3. CASE q = w /\ ~Stopped(w)
  <2>1. task'[q] = task[q] /\ task[q].at = "zombie"
    BY <1>1, <1>3, Resumes DEF Inv, LoopOK, Stopped, Stops
  <2> QED
    BY <1>1, <2>1 DEF Fits
<1>4. CASE q = w /\ Stopped(w)
  <2>1. /\ task[q].at = got /\ got \in Stops
        /\ got \in {"enter", "event"} => task'[q].at = "kernel"
        /\ got = "signal" => task'[q].at = "zombie"
        /\ got \in {"exit", "start"} => task'[q].at = "user"
    BY <1>4, Resumes, EndedIsTask DEF Inv, Stopped, BackInCall
  <2>2. Written(q) <=> pc = "resume"
    BY <1>4 DEF Written
  <2>3. pc = "resume" => got \in {"enter", "exit", "event"}
    BY DEF Inv, LoopOK
  <2> QED
    BY <1>1, <2>1, <2>2, <2>3 DEF Fits, Stops
<1> QED
  BY <1>2, <1>3, <1>4

\* The task in hand, when pc moves on to resume without a line about it.
LEMMA MissedFits ==
    ASSUME Inv, pc = "handle", got \in {"enter", "exit", "event"}, ~Stopped(w), pc' = "resume",
           UNCHANGED <<task, w>>, NEW s, NEW q \in Pid, Fits(s, q)
    PROVE  Fits(s, q)'
<1>1. task[w].at = "zombie"
  BY DEF Inv, LoopOK, Stopped, Stops
<1> QED
  BY <1>1 DEF Fits, Written

\* The handlers that write.
LEMMA EndStreams ==
    ASSUME Inv, Streams, HandleEnd, said' = said
    PROVE  Streams'
<1> DEFINE line == [kind |-> "EXITED", pid |-> w]
<1>1. line \in Line /\ line.pid = w /\ line.kind = "EXITED" /\ w \in Pid
  BY EndLine DEF Inv, HandleEnd
<1>2. Write(line) /\ task' = task /\ pc = "handle" /\ pc' = "wait" /\ task[w].at = "reaped"
  BY DEF HandleEnd, kernelVars, Inv, LoopOK
<1>3. \A s : Fits(s, w) => Allowed(s, line)
  BY <1>1, <1>2 DEF Fits, Allowed
<1>4. ASSUME NEW p, p = w PROVE Fits("over", p)'
  BY <1>2, <1>4 DEF Fits
<1>5. \A s : \A q \in Pid \ {w} : Fits(s, q) => Fits(s, q)'
  BY <1>2 DEF Fits, Written
<1>6. PICK p \in Pid, l \in Line : p = w /\ l = line
  BY <1>1
<1>7. Outcome(l) = "over" /\ l.pid = p
  BY <1>1, <1>6 DEF Outcome
<1>8. Fits(Outcome(l), l.pid)'
  BY <1>4, <1>6, <1>7
<1> HIDE DEF line
<1> QED
  BY <1>2, <1>3, <1>5, <1>6, <1>7, <1>8, LineWritten

\* An ENTER or EXIT line follows what the task's stop asks for.
LEMMA SyscallStreams ==
    ASSUME Inv, Streams, HandleSyscallStop, Stopped(w), said' = said
    PROVE  Streams'
<1> DEFINE line == [kind |-> IF got = "enter" THEN "ENTER" ELSE "EXIT", pid |-> w]
<1>1. /\ line \in Line /\ line.pid = w /\ w \in Pid /\ got \in {"enter", "exit"}
      /\ line.kind = IF got = "enter" THEN "ENTER" ELSE "EXIT"
  BY EndLine DEF Inv, HandleSyscallStop
<1>2. Write(line) /\ task' = task /\ w' = w /\ pc = "handle" /\ pc' = "resume" /\ task[w].at = got
  BY DEF HandleSyscallStop, kernelVars, Inv, LoopOK, Stopped, Stops
<1>3. \A s : Fits(s, w) => Allowed(s, line)
  BY <1>1, <1>2 DEF Fits, Allowed, Written
<1>4. ASSUME NEW p, p = w, NEW s, s = IF got = "enter" THEN "in" ELSE "out" PROVE Fits(s, p)'
  BY <1>1, <1>2, <1>4 DEF Fits, Written
<1>5. \A s : \A q \in Pid \ {w} : Fits(s, q) => Fits(s, q)'
  BY <1>2 DEF Fits, Written
<1>6. PICK p \in Pid, l \in Line : p = w /\ l = line
  BY <1>1
<1>7. Outcome(l) = (IF got = "enter" THEN "in" ELSE "out") /\ l.pid = p
  BY <1>1, <1>6 DEF Outcome
<1>8. Fits(Outcome(l), l.pid)'
  BY <1>4, <1>6, <1>7
<1> HIDE DEF line
<1> QED
  BY <1>2, <1>3, <1>5, <1>6, <1>7, <1>8, LineWritten

\* A SPAWN line comes within the call.
LEMMA ForkStreams ==
    ASSUME Inv, Streams, HandleForkEvent, Stopped(w), said' = said
    PROVE  Streams'
<1> DEFINE line == SpawnLine(w)
<1>1. line \in Line /\ line.pid = w /\ w \in Pid /\ line.kind = "SPAWN" /\ task[w].at = "event"
  BY ForkLine DEF Inv, HandleForkEvent, SpawnLine
<1>2. Write(line) /\ task' = task /\ w' = w /\ pc = "handle" /\ pc' = "resume"
  BY DEF HandleForkEvent, AfterForkEvent, kernelVars
<1>3. \A s : Fits(s, w) => Allowed(s, line)
  BY <1>1, <1>2 DEF Fits, Allowed
<1>4. ASSUME NEW p, p = w PROVE Fits("in", p)'
  BY <1>1, <1>2, <1>4 DEF Fits
<1>5. \A s : \A q \in Pid \ {w} : Fits(s, q) => Fits(s, q)'
  BY <1>2 DEF Fits, Written
<1>6. PICK p \in Pid, l \in Line : p = w /\ l = line
  BY <1>1
<1>7. Outcome(l) = "in" /\ l.pid = p
  BY <1>1, <1>6 DEF Outcome
<1>8. Fits(Outcome(l), l.pid)'
  BY <1>4, <1>6, <1>7
<1> HIDE DEF line
<1> QED
  BY <1>2, <1>3, <1>5, <1>6, <1>7, <1>8, LineWritten

\* Every step leaves the streams well formed.
LEMMA StreamsStep == Inv /\ Streams /\ [Next]_allVars => Streams'
<1> SUFFICES ASSUME Inv, Streams, [Next]_allVars PROVE Streams'
  OBVIOUS
<1>1. ASSUME NEW p \in Pid, KernelMoves(p), UNCHANGED <<regime, mainVars, out, said, announced>>
      PROVE  Streams'
  BY <1>1, KernelFits, SameLines
<1>2. ASSUME NEW p \in Pid, Forks(p), UNCHANGED <<said, announced>> PROVE Streams'
  <2>1. UNCHANGED <<out, said>>
    BY <1>2 DEF Forks
  <2> QED
    BY <1>2, <2>1, ForkFits, SameLines
<1>3. CASE (Starts \/ StartFails \/ StartLost \/ WaitPid \/ EndLoop) /\ UNCHANGED <<said, announced>>
  <2>1. UNCHANGED <<out, said>>
    BY <1>3 DEF Starts, StartFails, StartLost, RootReaped, WaitPid, EndLoop
  <2> QED
    BY <1>3, <2>1, LoopFits, SameLines
<1>4. CASE (HandleEnd \/ HandleSyscallStop \/ HandleForkEvent \/ Resume) /\ UNCHANGED <<said, announced>>
  <2>1. CASE HandleEnd
    BY <1>4, <2>1, EndStreams
  <2>2. CASE HandleSyscallStop /\ Stopped(w)
    BY <1>4, <2>2, SyscallStreams
  <2>3. CASE HandleForkEvent /\ Stopped(w)
    BY <1>4, <2>3, ForkStreams
  <2>4. CASE (HandleSyscallStop \/ HandleForkEvent) /\ ~Stopped(w)
    <3>1. /\ pc = "handle" /\ got \in {"enter", "exit", "event"} /\ pc' = "resume"
          /\ UNCHANGED <<task, w, out, said>>
      BY <1>4, <2>4 DEF HandleSyscallStop, HandleForkEvent, AfterFailedInfo, AfterForkEvent, kernelVars
    <3> QED
      BY <2>4, <3>1, MissedFits, SameLines
  <2>5. CASE Resume
    <3>1. UNCHANGED <<out, said>>
      BY <1>4, <2>5 DEF Resume
    <3> QED
      BY <2>5, <3>1, ResumeFits, SameLines
  <2> QED
    BY <1>4, <2>1, <2>2, <2>3, <2>4, <2>5
<1>5. CASE Read
  BY <1>5, LineRead
<1>6. CASE UNCHANGED allVars
  <2>1. UNCHANGED <<out, said, task, pc, w>>
    BY <1>6 DEF allVars, kernelVars, mainVars
  <2>2. \A s : \A p \in Pid : Fits(s, p) => Fits(s, p)'
    BY <2>1 DEF Fits, Written
  <2> QED
    BY <2>1, <2>2, SameLines
<1> QED
  BY <1>1, <1>2, <1>3, <1>4, <1>5, <1>6, Steps DEF Inv

\* The streams are well formed always.
LEMMA StreamsHold == SafeSpec => []Streams
<1>1. CollectorInit => Streams
  <2> SUFFICES ASSUME CollectorInit PROVE Streams
    OBVIOUS
  <2>1. LoopOK
    BY TypeInit DEF Inv
  <2>2. out = <<>> /\ pc = "start" /\ \A p \in Pid : said[p] = "nothing"
    BY DEF CollectorInit, Init
  <2> QED
    BY <2>1, <2>2 DEF LoopOK, Streams, FirstAllowed, NextAllowed, QuietFits, LastFits, Fits
<1> QED
  BY <1>1, StreamsStep, InvHolds, PTL DEF SafeSpec

\* The lines of one pid come in the order SPEC.md gives them, however the
\* kernel orders stops and whoever is killed (tracer.c).
THEOREM StreamsAreWellFormed == Spec => []StreamsWellFormed
<1>1. Inv /\ Streams => StreamsWellFormed
  <2> SUFFICES ASSUME Inv, Streams, out # <<>> PROVE Allowed(said[Head(out).pid], Head(out))
    BY DEF StreamsWellFormed, Allowed
  <2>1. 1 \in 1..Len(out) /\ Head(out) = out[1]
    BY DEF Inv, LoopOK
  <2>2. Silent(out[1].pid, 1, 1 - 1)
    BY DEF Silent
  <2> QED
    BY <2>1, <2>2 DEF Streams, FirstAllowed
<1> QED
  BY <1>1, StreamsHold, InvHolds, PTL DEF Spec
-----------------------------------------------------------------------------
\* Who has been named, after a step that leaves the lines alone, after a line
\* is written and after one is read.
LEMMA SameNames ==
    ASSUME UNCHANGED <<out, announced>>
    PROVE  (\A p : Known(p)' <=> Known(p)) /\ (NamedOnce => NamedOnce')
  BY DEF Known, SpawnedIn, NamedOnce

\* A line written names its child, for the first time if it was not known.
LEMMA NamesWritten ==
    ASSUME LoopOK, NEW line \in Line, Write(line), announced' = announced
    PROVE  /\ \A p : Known(p)' <=> Known(p) \/ (line.kind = "SPAWN" /\ line.child = p)
           /\ NamedOnce /\ (line.kind = "SPAWN" => ~Known(line.child)) => NamedOnce'
<1>0. PICK n \in Nat : n = Len(out)
  BY DEF LoopOK
<1>1. /\ Len(out') = n + 1 /\ out'[n + 1] = line
      /\ \A i \in 1..n : out'[i] = out[i]
  BY <1>0, Writes
<1>2. ASSUME NEW p, NEW i \in 1..n
      PROVE  /\ SpawnedIn(i, p)' <=> SpawnedIn(i, p)
             /\ SpawnedIn(n + 1, p)' <=> line.kind = "SPAWN" /\ line.child = p
  BY <1>1 DEF SpawnedIn
<1>3. ASSUME NEW p PROVE SpawnedIn(n + 1, p)' <=> line.kind = "SPAWN" /\ line.child = p
  BY <1>1 DEF SpawnedIn
<1>4. ASSUME NEW p PROVE Known(p)' <=> Known(p) \/ (line.kind = "SPAWN" /\ line.child = p)
  BY <1>0, <1>1, <1>2, <1>3 DEF Known
<1>5. ASSUME NamedOnce, line.kind = "SPAWN" => ~Known(line.child) PROVE NamedOnce'
  <2> SUFFICES ASSUME NEW i \in 1..(n + 1), NEW j \in 1..(n + 1), NEW p \in Pid, SpawnedIn(i, p)'
               PROVE  p \notin announced /\ (SpawnedIn(j, p)' => i = j)
    BY <1>1 DEF NamedOnce, SpawnedIn
  <2>1. CASE i \in 1..n /\ j \in 1..n
    BY <1>0, <1>2, <1>5, <2>1 DEF NamedOnce
  <2>2. CASE i = n + 1 \/ j = n + 1
    <3>1. CASE i = n + 1
      <4>1. line.kind = "SPAWN" /\ line.child = p /\ ~Known(p)
        BY <1>3, <1>5, <3>1
      <4>2. j \in 1..n => ~SpawnedIn(j, p)
        BY <1>0, <4>1 DEF Known
      <4> QED
        BY <1>2, <3>1, <4>1, <4>2 DEF Known
    <3>2. CASE i \in 1..n /\ j = n + 1
      <4>1. SpawnedIn(i, p)
        BY <1>2, <3>2
      <4>2. ~SpawnedIn(j, p)'
        BY <1>0, <1>3, <1>5, <3>2, <4>1 DEF Known
      <4>3. p \notin announced
        BY <1>0, <1>5, <3>2, <4>1 DEF NamedOnce
      <4> QED
        BY <4>2, <4>3
    <3> QED
      BY <2>2, <3>1, <3>2
  <2> QED
    BY <2>1, <2>2
<1> QED
  BY <1>4, <1>5

\* Reading a line forgets no name.
LEMMA NamesRead ==
    ASSUME LoopOK, Read
    PROVE  /\ (\A p : Known(p)' <=> Known(p)) /\ announced \subseteq announced'
           /\ NamedOnce => NamedOnce'
<1>0. PICK n \in Nat : Len(out) = n + 1
  <2>1. Len(out) - 1 \in Nat /\ Len(out) = (Len(out) - 1) + 1
    BY Reads
  <2> QED
    BY <2>1
<1>1. /\ Len(out') = n /\ Head(out) = out[1]
      /\ \A i \in 1..n : out'[i] = out[i + 1] /\ i + 1 \in 1..(n + 1)
  BY <1>0, Reads
<1>2. ASSUME NEW p PROVE p \in announced' <=> p \in announced \/ SpawnedIn(1, p)
  BY <1>1 DEF Read, SpawnedIn
<1>3. ASSUME NEW p, NEW i \in 1..n PROVE SpawnedIn(i, p)' <=> SpawnedIn(i + 1, p)
  BY <1>1 DEF SpawnedIn
<1>4. ASSUME NEW j \in 1..(n + 1) PROVE j = 1 \/ (j - 1 \in 1..n /\ (j - 1) + 1 = j)
  OBVIOUS
<1>5. ASSUME NEW p PROVE Known(p)' <=> Known(p)
  <2>1. ASSUME NEW j \in 1..(n + 1), SpawnedIn(j, p) PROVE Known(p)'
    <3>1. CASE j = 1
      BY <1>2, <2>1, <3>1 DEF Known
    <3>2. CASE j # 1
      <4>1. j - 1 \in 1..n /\ (j - 1) + 1 = j
        BY <1>4, <3>2
      <4>2. SpawnedIn(j - 1, p)'
        BY <1>3, <2>1, <4>1
      <4> QED
        BY <1>1, <4>1, <4>2 DEF Known
    <3> QED
      BY <3>1, <3>2
  <2>2. ASSUME NEW i \in 1..n, SpawnedIn(i, p)' PROVE Known(p)
    BY <1>0, <1>1, <1>3, <2>2 DEF Known
  <2>3. p \in announced' => Known(p)
    <3>1. 1 \in 1..(n + 1)
      OBVIOUS
    <3> QED
      BY <1>0, <1>2, <3>1 DEF Known
  <2>4. p \in announced => Known(p)'
    BY <1>2 DEF Known
  <2> QED
    BY <1>0, <1>1, <2>1, <2>2, <2>3, <2>4 DEF Known
<1>6. ASSUME NamedOnce PROVE NamedOnce'
  <2> SUFFICES ASSUME NEW i \in 1..n, NEW j \in 1..n, NEW p \in Pid, SpawnedIn(i, p)'
               PROVE  p \notin announced' /\ (SpawnedIn(j, p)' => i = j)
    BY <1>1 DEF NamedOnce, SpawnedIn
  <2>1. SpawnedIn(i + 1, p) /\ (SpawnedIn(j, p)' => SpawnedIn(j + 1, p))
    BY <1>3
  <2>2. i + 1 \in 1..Len(out) /\ j + 1 \in 1..Len(out) /\ 1 \in 1..Len(out)
    BY <1>0
  <2>3. p \notin announced /\ (SpawnedIn(j + 1, p) => i + 1 = j + 1) /\ (SpawnedIn(1, p) => i + 1 = 1)
    BY <1>6, <2>1, <2>2 DEF NamedOnce
  <2> QED
    BY <1>2, <2>1, <2>3
<1>7. announced \subseteq announced'
  BY <1>2
<1> QED
  BY <1>5, <1>6, <1>7

\* A fork the loop has still to handle is of a child that exists and was not
\* named, and of no other's; and births are told once.
Births ==
    /\ Root \in announced
    /\ \A p \in Pid : Known(p) => task[p].at # "none"
    /\ \A q \in Forking : ~Known(task[q].child) /\ task[task[q].child].at # "none"
    /\ \A q, r \in Forking : task[q].child = task[r].child => q = r
    /\ BirthsToldOnce

\* A killed task leaves one child untold at most, the one of the fork it was in.
LEMMA DeathsCount ==
    ASSUME Inv, Cardinality(Untold) <= Cardinality(KilledTasks), NEW D \in SUBSET Forking,
           Untold' \subseteq Untold \cup {task[q].child : q \in D},
           KilledTasks \cup D \subseteq KilledTasks'
    PROVE  Cardinality(Untold') <= Cardinality(KilledTasks')
<1> DEFINE C == {task[q].child : q \in D}
           f == [q \in D |-> task[q].child]
<1>1. /\ D \subseteq Pid /\ KilledTasks \subseteq Pid /\ Untold \subseteq Pid
      /\ KilledTasks' \subseteq Pid /\ Untold' \subseteq Pid
  BY DEF Forking, KilledTasks, Untold
<1>2. \A q \in D : task[q].child \in Pid
  BY DEF Forking, Unhandled, Inv, LoopOK
<1>3. D \cap KilledTasks = {}
  BY DEF Forking, Unhandled, KilledTasks
<1>4. IsFiniteSet(D) /\ Cardinality(D) \in Nat
  BY <1>1, Finite
<1>5. C \subseteq Pid /\ f \in Surjection(D, C)
  BY <1>2 DEF Surjection
<1>6. Cardinality(C) <= Cardinality(D)
  BY <1>4, <1>5, FS_Surjection
<1> HIDE DEF C, f
<1>7. /\ IsFiniteSet(Untold) /\ IsFiniteSet(C) /\ IsFiniteSet(KilledTasks)
      /\ Cardinality(Untold) \in Nat /\ Cardinality(C) \in Nat /\ Cardinality(KilledTasks) \in Nat
      /\ Cardinality(Untold \cap C) \in Nat
      /\ Cardinality(Untold') \in Nat /\ Cardinality(KilledTasks') \in Nat
      /\ IsFiniteSet(KilledTasks')
  <2>1. Untold \cap C \subseteq Pid
    BY <1>5
  <2> QED
    BY <1>1, <1>5, <2>1, Finite
<1>8. /\ IsFiniteSet(Untold \cup C)
      /\ Cardinality(Untold \cup C) = Cardinality(Untold) + Cardinality(C) - Cardinality(Untold \cap C)
  BY <1>7, FS_Union
<1>9. Cardinality(KilledTasks \cup D) = Cardinality(KilledTasks) + Cardinality(D)
  <2>1. Cardinality(KilledTasks \cap D) = 0
    BY <1>3, FS_EmptySet
  <2>2. Cardinality(KilledTasks \cup D)
           = Cardinality(KilledTasks) + Cardinality(D) - Cardinality(KilledTasks \cap D)
    BY <1>4, <1>7, FS_Union
  <2>3. ASSUME NEW k \in Nat, NEW d \in Nat, NEW i, i = 0 PROVE k + d - i = k + d
    BY <2>3
  <2> QED
    BY <1>4, <1>7, <2>1, <2>2, <2>3
<1>10. Cardinality(Untold') <= Cardinality(Untold \cup C)
  BY <1>8, FS_Subset DEF C
<1>11. Cardinality(KilledTasks \cup D) <= Cardinality(KilledTasks')
  BY <1>7, FS_Subset
<1> QED
  BY <1>4, <1>6, <1>7, <1>8, <1>9, <1>10, <1>11

\* A step that names nobody and begins no fork, and ends a fork that is not handled
\* with its task only.
LEMMA BirthsKept ==
    ASSUME Inv, Births, \A p : Known(p)' <=> Known(p), announced \subseteq announced', NamedOnce',
           \A q \in Pid :
              /\ task'[q].at = "none" <=> task[q].at = "none"
              /\ q \in KilledTasks => q \in KilledTasks'
              /\ Unhandled(q)' => Unhandled(q) /\ task'[q].child = task[q].child
              /\ Unhandled(q) => Unhandled(q)' \/ q \in KilledTasks'
    PROVE  Births'
<1> DEFINE D == {q \in Forking : ~Unhandled(q)'}
<1>1. KilledTasks \cup D \subseteq KilledTasks'
  BY DEF Forking, KilledTasks
<1>2. ASSUME NEW p \in Untold' PROVE p \in Untold \cup {task[q].child : q \in D}
  <2>1. p \in Pid \ {Root} /\ task[p].at # "none" /\ ~Known(p)
    BY <1>2 DEF Untold
  <2>2. CASE p \notin Untold
    <3>1. PICK q \in Pid : Unhandled(q) /\ task[q].child = p
      BY <2>1, <2>2 DEF Untold
    <3>2. ~Unhandled(q)'
      BY <1>2, <3>1 DEF Untold, Unhandled, Written
    <3> QED
      BY <3>1, <3>2 DEF Forking
  <2> QED
    BY <2>2
<1>3. Cardinality(Untold') <= Cardinality(KilledTasks')
  <2>1. D \in SUBSET Forking /\ Untold' \subseteq Untold \cup {task[q].child : q \in D}
    BY <1>2
  <2>2. Cardinality(Untold) <= Cardinality(KilledTasks)
    BY DEF Births, BirthsToldOnce
  <2> HIDE DEF D
  <2> QED
    BY <1>1, <2>1, <2>2, DeathsCount
<1>4. ASSUME NEW q \in Forking'
      PROVE  /\ q \in Forking /\ task'[q].child = task[q].child /\ task[q].child \in Pid
  <2>1. q \in Pid /\ Unhandled(q)'
    BY <1>4 DEF Forking, Unhandled, Written
  <2>2. Unhandled(q) /\ task'[q].child = task[q].child
    BY <2>1
  <2> QED
    BY <2>1, <2>2 DEF Forking, Unhandled, Inv, LoopOK
<1>5. ASSUME NEW q \in Forking', NEW c, c = task'[q].child
      PROVE  ~Known(c)' /\ task'[c].at # "none"
  BY <1>4, <1>5 DEF Births
<1>6. ASSUME NEW q \in Forking', NEW r \in Forking', task'[q].child = task'[r].child PROVE q = r
  BY <1>4, <1>6 DEF Births
<1>7. \A p \in Pid : Known(p)' => task'[p].at # "none"
  BY DEF Births
<1>8. Root \in announced'
  BY DEF Births
<1> QED
  BY <1>3, <1>5, <1>6, <1>7, <1>8 DEF Births, BirthsToldOnce, Known, SpawnedIn, Untold, KilledTasks

\* A fork begins with a child nobody has named.
LEMMA BirthsForks ==
    ASSUME Inv, Births, NEW p \in Pid, Forks(p), UNCHANGED <<said, announced>>
    PROVE  Births'
<1>0. UNCHANGED <<pc, w, out, announced>>
  BY DEF Forks, mainVars
<1>1. PICK c \in Pid \ {p} :
         /\ task[c].at = "none" /\ task'[c].at = "start" /\ task'[p].child = c
         /\ \A q \in Pid \ {p, c} : task'[q] = task[q]
  BY ForksTwo DEF Inv
<1>2. task[p].at = "kernel" /\ task'[p].at = "forked"
  BY ForksTwo DEF Inv
<1>3. (\A q : Known(q)' <=> Known(q)) /\ NamedOnce' /\ ~Known(c)
  BY <1>0, <1>1, SameNames DEF Births, BirthsToldOnce
<1>4. /\ \A q \in Pid \ {p} : (Unhandled(q)' <=> Unhandled(q)) /\ (Unhandled(q) => task'[q].child = task[q].child)
      /\ Unhandled(p)' /\ ~Unhandled(p)
  BY <1>0, <1>1, <1>2 DEF Unhandled, Written
<1>5. ASSUME NEW q \in Pid, Unhandled(q)
      PROVE  task[q].child \in Pid \ {c} /\ ~Known(task[q].child) /\ task'[task[q].child].at # "none"
  <2>1. task[q].child \in Pid /\ ~Known(task[q].child) /\ task[task[q].child].at # "none"
    BY <1>5 DEF Births, Forking, Unhandled, Inv, LoopOK
  <2> QED
    BY <1>1, <1>2, <2>1
<1>6. Cardinality(Untold') <= Cardinality(KilledTasks')
  <2>1. ASSUME NEW r \in Untold' PROVE r \in Untold
    <3>1. /\ r \in Pid \ {Root} /\ task'[r].at # "none" /\ ~Known(r)
          /\ \A q \in Pid : Unhandled(q)' => task'[q].child # r
      BY <1>3 DEF Untold, Unhandled, Written, Known, SpawnedIn
    <3>2. r # c /\ task[r].at # "none" /\ \A q \in Pid : Unhandled(q) => task[q].child # r
      BY <1>1, <1>2, <1>4, <3>1
    <3> QED
      BY <3>1, <3>2 DEF Untold
  <2>2. KilledTasks \subseteq KilledTasks'
    BY <1>1, <1>2 DEF KilledTasks
  <2>3. Cardinality(Untold) <= Cardinality(KilledTasks)
    BY DEF Births, BirthsToldOnce
  <2>4. PICK D \in SUBSET Forking : D = {}
    OBVIOUS
  <2>5. Untold' \subseteq Untold \cup {task[q].child : q \in D} /\ KilledTasks \cup D \subseteq KilledTasks'
    BY <2>1, <2>2, <2>4
  <2> QED
    BY <2>3, <2>5, DeathsCount
<1>7. \A q \in Pid : Known(q)' => task'[q].at # "none"
  BY <1>1, <1>2, <1>3 DEF Births
<1>8. ASSUME NEW q \in Forking', NEW d, d = task'[q].child PROVE ~Known(d)' /\ task'[d].at # "none"
  <2>1. q \in Pid /\ Unhandled(q)'
    BY <1>8 DEF Forking, Unhandled, Written
  <2> QED
    BY <1>1, <1>3, <1>4, <1>5, <1>8, <2>1
<1>9. ASSUME NEW q \in Forking', NEW r \in Forking', task'[q].child = task'[r].child PROVE q = r
  <2>1. q \in Pid /\ Unhandled(q)' /\ r \in Pid /\ Unhandled(r)'
    BY <1>9 DEF Forking, Unhandled, Written
  <2>2. q # p /\ r # p => q \in Forking /\ r \in Forking /\ task[q].child = task[r].child
    BY <1>4, <1>9, <2>1 DEF Forking
  <2>3. (q = p) <=> (r = p)
    BY <1>1, <1>4, <1>5, <1>9, <2>1
  <2> QED
    BY <2>2, <2>3 DEF Births
<1>10. Root \in announced'
  BY <1>0 DEF Births
<1> QED
  BY <1>3, <1>6, <1>7, <1>8, <1>9, <1>10 DEF Births, BirthsToldOnce

\* The SPAWN line tells of the fork in hand, and of that one only.
LEMMA BirthsForkEvent ==
    ASSUME Inv, Births, HandleForkEvent, Stopped(w), UNCHANGED <<said, announced>>
    PROVE  Births'
<1> DEFINE line == SpawnLine(w)
           c == task[w].child
<1>0. /\ pc = "handle" /\ pc' = "resume" /\ w \in Pid /\ task[w].at = "event"
      /\ UNCHANGED <<task, announced, w>>
      /\ line \in Line /\ line.kind = "SPAWN" /\ line.child = c /\ c \in Pid /\ Write(line)
  BY ForkLine DEF Inv, HandleForkEvent, AfterForkEvent, kernelVars, SpawnLine
<1> HIDE DEF line
<1>1. w \in Forking
  BY <1>0 DEF Forking, Unhandled, Written
<1>2. ~Known(c) /\ task[c].at # "none"
  BY <1>1 DEF Births
<1>3. (\A q : Known(q)' <=> Known(q) \/ q = c) /\ NamedOnce'
  BY <1>0, <1>2, NamesWritten DEF Inv, Births, BirthsToldOnce
<1>4. \A q \in Pid : Unhandled(q)' <=> Unhandled(q) /\ q # w
  BY <1>0 DEF Unhandled, Written
<1>5. ASSUME NEW q \in Forking'
      PROVE  q \in Forking /\ q # w /\ task'[q].child = task[q].child
  <2>1. q \in Pid /\ Unhandled(q)'
    BY <1>5 DEF Forking, Unhandled, Written
  <2> QED
    BY <1>0, <1>4, <2>1 DEF Forking
<1>6. Cardinality(Untold') <= Cardinality(KilledTasks')
  <2>1. ASSUME NEW r \in Untold' PROVE r \in Untold
    <3>1. /\ r \in Pid \ {Root} /\ task[r].at # "none" /\ ~Known(r) /\ r # c
          /\ \A q \in Pid : Unhandled(q)' => task[q].child # r
      BY <1>0, <1>3 DEF Untold, Unhandled, Written, Known, SpawnedIn
    <3>2. \A q \in Pid : Unhandled(q) => task[q].child # r
      BY <1>4, <3>1
    <3> QED
      BY <3>1, <3>2 DEF Untold
  <2>2. KilledTasks \subseteq KilledTasks'
    BY <1>0 DEF KilledTasks
  <2>3. Cardinality(Untold) <= Cardinality(KilledTasks)
    BY DEF Births, BirthsToldOnce
  <2>4. PICK D \in SUBSET Forking : D = {}
    OBVIOUS
  <2>5. Untold' \subseteq Untold \cup {task[q].child : q \in D} /\ KilledTasks \cup D \subseteq KilledTasks'
    BY <2>1, <2>2, <2>4
  <2> QED
    BY <2>3, <2>5, DeathsCount
<1>7. \A q \in Pid : Known(q)' => task'[q].at # "none"
  BY <1>0, <1>2, <1>3 DEF Births
<1>8. ASSUME NEW q \in Forking', NEW d, d = task'[q].child PROVE ~Known(d)' /\ task'[d].at # "none"
  <2>1. q \in Forking /\ q # w /\ d = task[q].child
    BY <1>5, <1>8
  <2>2. d # c /\ ~Known(d) /\ task[d].at # "none"
    BY <1>1, <2>1 DEF Births
  <2> QED
    BY <1>0, <1>3, <2>2
<1>9. ASSUME NEW q \in Forking', NEW r \in Forking', task'[q].child = task'[r].child PROVE q = r
  BY <1>5, <1>9 DEF Births
<1>10. Root \in announced'
  BY <1>0 DEF Births
<1> QED
  BY <1>3, <1>6, <1>7, <1>8, <1>9, <1>10 DEF Births, BirthsToldOnce

\* The kernel's other moves: a fork is reported, or its task dies.
LEMMA BirthsKernel ==
    ASSUME Inv, Births, NEW p \in Pid, KernelMoves(p),
           UNCHANGED <<regime, mainVars, out, said, announced>>
    PROVE  Births'
<1>0. UNCHANGED <<pc, w>>
  BY DEF mainVars
<1>1. (\A q : Known(q)' <=> Known(q)) /\ NamedOnce'
  BY SameNames DEF Births, BirthsToldOnce
<1>2. ASSUME NEW q \in Pid \ {p}
      PROVE  /\ task'[q] = task[q] /\ (Unhandled(q)' <=> Unhandled(q))
             /\ q \in KilledTasks => q \in KilledTasks'
  <2>1. task'[q] = task[q]
    BY DEF KernelMoves, Moves
  <2> QED
    BY <1>0, <2>1 DEF Unhandled, Written, KilledTasks
<1>3. /\ task[p].at \in Stops \cup Running /\ task'[p].at # "none"
      /\ task'[p].at \in {"forked", "event"} => task[p].at = "forked" /\ task'[p].child = task[p].child
  BY DEF KernelMoves, Moves, Stops, Running
<1>4. Unhandled(p)' => Unhandled(p) /\ task'[p].child = task[p].child
  BY <1>3 DEF Unhandled
<1>5. ASSUME Unhandled(p) PROVE Unhandled(p)' \/ p \in KilledTasks'
  <2>1. task[p].at \in {"forked", "event"}
    BY <1>5 DEF Unhandled
  <2>2. CASE task'[p].at = "zombie"
    BY <2>1, <2>2 DEF KernelMoves, Moves, KilledTasks
  <2>3. CASE task'[p].at # "zombie"
    <3>1. task[p].at = "forked" /\ task'[p].at = "event"
      BY <2>1, <2>3 DEF KernelMoves, Moves
    <3>2. ~Written(p)
      BY <3>1 DEF Written, Inv, LoopOK, Stops
    <3> QED
      BY <1>0, <3>1, <3>2 DEF Unhandled, Written
  <2> QED
    BY <2>2, <2>3
<1>6. p \notin KilledTasks
  BY <1>3 DEF KilledTasks, Stops, Running
<1>7. task[p].at # "none"
  BY <1>3 DEF Stops, Running
<1>8. \A q \in Pid :
         /\ task'[q].at = "none" <=> task[q].at = "none"
         /\ q \in KilledTasks => q \in KilledTasks'
         /\ Unhandled(q)' => Unhandled(q) /\ task'[q].child = task[q].child
         /\ Unhandled(q) => Unhandled(q)' \/ q \in KilledTasks'
  BY <1>2, <1>3, <1>4, <1>5, <1>6, <1>7
<1> QED
  BY <1>1, <1>8, BirthsKept

\* The loop's steps beside the handlers: the end of the loop kills whoever is alive.
LEMMA BirthsLoop ==
    ASSUME Inv, Births, Starts \/ StartFails \/ StartLost \/ WaitPid \/ EndLoop \/ Resume,
           UNCHANGED <<said, announced>>
    PROVE  Births'
<1> DEFINE Same(q) ==
              /\ task'[q].at = "none" <=> task[q].at = "none"
              /\ q \in KilledTasks => q \in KilledTasks'
              /\ Unhandled(q)' => Unhandled(q) /\ task'[q].child = task[q].child
              /\ Unhandled(q) => Unhandled(q)' \/ q \in KilledTasks'
<1>1. (\A q : Known(q)' <=> Known(q)) /\ NamedOnce' /\ UNCHANGED <<out, announced>>
  BY SameNames DEF Births, BirthsToldOnce, Starts, StartFails, StartLost, RootReaped, WaitPid, EndLoop, Resume
<1>2. CASE Starts
  <2>1. task' = task /\ pc = "start" /\ pc' = "wait"
    BY <1>2 DEF Starts, kernelVars
  <2>2. ASSUME NEW q \in Pid PROVE Same(q)
    BY <2>1 DEF Unhandled, Written, KilledTasks
  <2> QED
    BY <1>1, <2>2, BirthsKept
<1>3. CASE StartFails \/ StartLost
  <2>1. PICK code : RootReaped(code)
    BY <1>3 DEF StartFails, StartLost
  <2>2. /\ task'[Root].at = "reaped" /\ \A r \in Pid \ {Root} : task'[r] = task[r]
        /\ pc' = "done" /\ pc = "start"
    BY <1>3, <2>1, Reaps DEF Inv, RootReaped, StartFails, StartLost
  <2>3. \A r \in Pid : task[r].at = IF r = Root THEN "user" ELSE "none"
    BY <2>2 DEF Inv, LoopOK
  <2>4. ASSUME NEW q \in Pid PROVE Same(q)
    <3>1. q \notin KilledTasks /\ ~Unhandled(q)
      BY <2>3 DEF KilledTasks, Unhandled
    <3>2. CASE q = Root
      BY <2>2, <2>3, <3>1, <3>2 DEF Unhandled
    <3>3. CASE q # Root
      BY <2>2, <2>3, <3>1, <3>3 DEF Unhandled
    <3> QED
      BY <3>2, <3>3
  <2> QED
    BY <1>1, <2>4, BirthsKept
<1>4. CASE WaitPid
  <2>1. pc = "wait" /\ pc' = "handle"
    BY <1>4 DEF WaitPid
  <2>2. ASSUME NEW q \in Pid PROVE Same(q)
    <3>1. CASE q # w'
      <4>1. task'[q] = task[q]
        BY <1>4, <3>1, Waits DEF Inv
      <4> QED
        BY <2>1, <4>1 DEF Unhandled, Written, KilledTasks
    <3>2. CASE q = w'
      <4>1. /\ task[q].at \in Stops \cup {"zombie"}
            /\ task'[q].at = (IF task[q].at = "zombie" THEN "reaped" ELSE task[q].at)
            /\ task'[q].child = task[q].child /\ task'[q].code = task[q].code
        BY <1>4, <3>2, Waits DEF Inv, Waitable
      <4> QED
        BY <2>1, <4>1 DEF Unhandled, Written, KilledTasks, Stops
    <3> QED
      BY <3>1, <3>2
  <2> QED
    BY <1>1, <2>2, BirthsKept
<1>5. CASE EndLoop
  <2>1. pc = "wait" /\ pc' = "done"
    BY <1>5 DEF EndLoop, TracerGone
  <2>2. ASSUME NEW q \in Pid PROVE Same(q)
    <3>1. CASE Alive(q)
      <4>1. /\ task'[q].at = "zombie" /\ task'[q].code = KILLED_CODE
            /\ task[q].at \in Stops \cup Running
        BY <1>5, <3>1, Gone, EndedIsTask DEF Inv, EndLoop, Alive
      <4> QED
        BY <4>1 DEF Unhandled, KilledTasks, Stops, Running
    <3>2. CASE ~Alive(q)
      <4>1. task'[q] = task[q]
        BY <1>5, <3>2, Gone DEF Inv, EndLoop
      <4> QED
        BY <2>1, <4>1 DEF Unhandled, Written, KilledTasks
    <3> QED
      BY <3>1, <3>2
  <2> QED
    BY <1>1, <2>2, BirthsKept
<1>6. CASE Resume
  <2>1. /\ pc' = "wait" /\ pc \in {"handle", "resume"} /\ (pc = "handle" => got \in {"start", "signal"})
        /\ w \in Pid /\ \A q \in Pid \ {w} : task'[q] = task[q]
    BY <1>6, Resumes DEF Inv, Resume
  <2>2. ASSUME NEW q \in Pid PROVE Same(q)
    <3>1. CASE q # w
      BY <2>1, <3>1 DEF Unhandled, Written, KilledTasks
    <3>2. CASE q = w /\ ~Stopped(w)
      <4>1. task' = task /\ task[w].at \in {"reaped", "zombie"}
        BY <1>6, <2>1, <3>2, Resumes DEF Inv, LoopOK, Stopped, Stops
      <4> QED
        BY <3>2, <4>1 DEF Unhandled, KilledTasks
    <3>3. CASE q = w /\ Stopped(w)
      <4>1. /\ task[w].at = got /\ got \in Stops
            /\ task'[w].at \in {"kernel", "zombie", "user"}
        BY <1>6, <2>1, <3>3, Resumes, EndedIsTask DEF Inv, Stopped, Stops, BackInCall
      <4> QED
        BY <2>1, <3>3, <4>1 DEF Unhandled, Written, KilledTasks, Stops
    <3> QED
      BY <3>1, <3>2, <3>3
  <2> QED
    BY <1>1, <2>2, BirthsKept
<1> QED
  BY <1>2, <1>3, <1>4, <1>5, <1>6

\* The handlers but a SPAWN line's, and the reader, name nobody.
LEMMA BirthsOther ==
    ASSUME Inv, Births,
           \/ HandleEnd /\ UNCHANGED <<said, announced>>
           \/ HandleSyscallStop /\ UNCHANGED <<said, announced>>
           \/ HandleForkEvent /\ ~Stopped(w) /\ UNCHANGED <<said, announced>>
           \/ Read
           \/ UNCHANGED allVars
    PROVE  Births'
<1>1. task' = task
  BY DEF HandleEnd, HandleSyscallStop, HandleForkEvent, Read, allVars, kernelVars
<1>2. \A q \in Pid : task[q].at = "event" => (Written(q)' <=> Written(q))
  <2>1. CASE HandleEnd
    BY <2>1 DEF HandleEnd, Written
  <2>2. CASE HandleSyscallStop
    <3>1. pc = "handle" /\ w' = w /\ got \in {"enter", "exit"} /\ task[w].at # "event"
      BY <2>2 DEF HandleSyscallStop, Inv, LoopOK, Stops
    <3> QED
      BY <3>1 DEF Written
  <2>3. CASE HandleForkEvent /\ ~Stopped(w)
    <3>1. w' = w /\ task[w].at # "event"
      BY <2>3 DEF HandleForkEvent, Stopped, Stops
    <3> QED
      BY <3>1 DEF Written
  <2>4. CASE Read \/ UNCHANGED allVars
    BY <2>4 DEF Read, allVars, mainVars, Written
  <2> QED
    BY <2>1, <2>2, <2>3, <2>4
<1>3. /\ \A q : Known(q)' <=> Known(q)
      /\ NamedOnce' /\ announced \subseteq announced'
  <2>1. NamedOnce
    BY DEF Births, BirthsToldOnce
  <2>2. CASE HandleEnd /\ UNCHANGED <<said, announced>>
    <3> DEFINE line == [kind |-> "EXITED", pid |-> w]
    <3>1. line \in Line /\ line.kind # "SPAWN" /\ Write(line)
      BY <2>2, EndLine DEF Inv, HandleEnd
    <3> HIDE DEF line
    <3> QED
      BY <2>1, <2>2, <3>1, NamesWritten DEF Inv
  <2>3. CASE HandleSyscallStop /\ Stopped(w) /\ UNCHANGED <<said, announced>>
    <3> DEFINE line == [kind |-> IF got = "enter" THEN "ENTER" ELSE "EXIT", pid |-> w]
    <3>1. line \in Line /\ line.kind # "SPAWN" /\ Write(line)
      BY <2>3, EndLine DEF Inv, HandleSyscallStop
    <3> HIDE DEF line
    <3> QED
      BY <2>1, <2>3, <3>1, NamesWritten DEF Inv
  <2>4. CASE (HandleSyscallStop \/ HandleForkEvent) /\ ~Stopped(w) /\ UNCHANGED <<said, announced>>
    BY <2>1, <2>4, SameNames DEF HandleSyscallStop, HandleForkEvent
  <2>5. CASE Read
    BY <2>1, <2>5, NamesRead DEF Inv
  <2>6. CASE UNCHANGED allVars
    BY <2>1, <2>6, SameNames DEF allVars
  <2> QED
    BY <2>2, <2>3, <2>4, <2>5, <2>6
<1>4. \A q \in Pid : Unhandled(q)' <=> Unhandled(q)
  BY <1>1, <1>2 DEF Unhandled
<1>5. \A q \in Pid :
         /\ task'[q].at = "none" <=> task[q].at = "none"
         /\ q \in KilledTasks => q \in KilledTasks'
         /\ Unhandled(q)' => Unhandled(q) /\ task'[q].child = task[q].child
         /\ Unhandled(q) => Unhandled(q)' \/ q \in KilledTasks'
  BY <1>1, <1>4 DEF KilledTasks
<1> QED
  BY <1>3, <1>5, BirthsKept

\* Every step tells of births as it should.
LEMMA BirthsStep == Inv /\ Births /\ [Next]_allVars => Births'
<1> SUFFICES ASSUME Inv, Births, [Next]_allVars PROVE Births'
  OBVIOUS
<1>1. ASSUME NEW p \in Pid, KernelMoves(p), UNCHANGED <<regime, mainVars, out, said, announced>>
      PROVE  Births'
  BY <1>1, BirthsKernel
<1>2. ASSUME NEW p \in Pid, Forks(p), UNCHANGED <<said, announced>> PROVE Births'
  BY <1>2, BirthsForks
<1>3. CASE (Starts \/ StartFails \/ StartLost \/ WaitPid \/ EndLoop) /\ UNCHANGED <<said, announced>>
  BY <1>3, BirthsLoop
<1>4. CASE (HandleEnd \/ HandleSyscallStop \/ HandleForkEvent \/ Resume) /\ UNCHANGED <<said, announced>>
  BY <1>4, BirthsForkEvent, BirthsOther, BirthsLoop
<1>5. CASE Read \/ UNCHANGED allVars
  BY <1>5, BirthsOther
<1> QED
  BY <1>1, <1>2, <1>3, <1>4, <1>5, Steps DEF Inv

\* "SPAWN ... is emitted when process P creates a child C": whoever is killed
\* and whatever order the kernel reports stops in, only the child of a killed
\* task can go untold, one for each, and no child is named twice (tracer.c:289).
THEOREM BirthsAreToldOnce == Spec => []BirthsToldOnce
<1>1. CollectorInit => Births
  <2> SUFFICES ASSUME CollectorInit PROVE Births
    OBVIOUS
  <2>1. /\ out = <<>> /\ announced = {Root} /\ pc = "start" /\ LoopOK
        /\ \A p : Known(p) <=> p = Root
    BY TypeInit DEF CollectorInit, Init, Inv, Known
  <2>2. \A p \in Pid : task[p].at = IF p = Root THEN "user" ELSE "none"
    BY <2>1 DEF LoopOK
  <2>3. Forking = {}
    BY <2>2 DEF Forking, Unhandled
  <2>4. Untold = {}
    BY <2>2 DEF Untold
  <2>5. Cardinality(Untold) = 0 /\ Cardinality(KilledTasks) \in Nat
    BY <2>4, FS_EmptySet, Finite DEF KilledTasks
  <2>6. NamedOnce
    BY <2>1 DEF NamedOnce
  <2> QED
    BY <2>1, <2>2, <2>3, <2>5, <2>6, RootAssumption DEF Births, BirthsToldOnce
<1>2. Births => BirthsToldOnce
  BY DEF Births
<1> QED
  BY <1>1, <1>2, BirthsStep, InvHolds, PTL DEF Spec, SafeSpec
-----------------------------------------------------------------------------
\* What the collector promises when the kernel is at its best: nothing is
\* killed, and a fork is reported before its child (Collector, Tame).

\* The end of p is in the loop's hand.
Waited(p) == w = p /\ pc = "handle"

\* The task in hand is where waitpid found it.
InHand ==
    /\ \A p \in Pid : task[p].at # "signal"
    /\ pc \in {"handle", "resume"} /\ got # "zombie" => task[w].at = got
    /\ Root \in announced

\* Who is named exists; who is not has not moved, and its parent's fork is
\* still to be handled; no two such forks have the same child.
Fresh ==
    /\ \A p \in Pid : Known(p) => task[p].at # "none"
    /\ \A p \in Pid : ~Known(p) => task[p].at \in {"none", "start"} /\ ~task[p].reported
    /\ \A p \in Pid : ~Known(p) /\ task[p].at = "start" =>
                          \E q \in Pid : Unhandled(q) /\ task[q].child = p
    /\ \A q \in Pid : Unhandled(q) => ~Known(task[q].child) /\ task[task[q].child].at = "start"
    /\ \A q, r \in Pid :
          Unhandled(q) /\ Unhandled(r) /\ task[q].child = task[r].child => q = r

\* ntraced counts the tasks that were named and whose end was not handled.
Counts == {p \in Pid : Known(p) /\ (task[p].at = "reaped" => Waited(p))}
ExactCount ==
    /\ pc = "start" => \A p \in Pid : Known(p) => p = Root
    /\ pc \notin {"start", "done"} => ntraced = Cardinality(Counts)

\* The code main returns is the initial child's once its end was handled.
RootMirrored ==
    /\ pc \notin {"start", "done"} =>
          /\ task[Root].at \in {"zombie", "reaped"} => task[Root].code = rootCode
          /\ task[Root].at = "reaped" /\ ~Waited(Root) => initial_code = rootCode
    /\ pc = "done" => initial_code = rootCode /\ \A p \in Pid : task[p].at \in {"none", "reaped"}

TameInv == InHand /\ Fresh /\ ExactCount /\ RootMirrored
-----------------------------------------------------------------------------
\* The tasks counted are the same while nobody is named, created or buried.
LEMMA SameCount ==
    ASSUME ExactCount, \A p \in Pid : Known(p)' <=> Known(p), ntraced' = ntraced,
           \A p \in Pid : (task'[p].at = "reaped" => Waited(p)') <=> (task[p].at = "reaped" => Waited(p)),
           pc' # "start", pc # "start"
    PROVE  pc # "done" => ExactCount'
<1>1. Counts' = Counts
  BY DEF Counts
<1> QED
  BY <1>1 DEF ExactCount

\* Nothing changes for those who are not named yet.
LEMMA FreshKept ==
    ASSUME Inv, Fresh, \A q : Known(q)' <=> Known(q),
           \A q \in Pid : Unhandled(q)' <=> Unhandled(q),
           \A q \in Pid : Unhandled(q) => task'[q].child = task[q].child,
           \A q \in Pid : ~Known(q) => task'[q] = task[q],
           \A q \in Pid : task[q].at # "none" => task'[q].at # "none"
    PROVE  Fresh'
<1>1. ASSUME NEW q \in Pid, Unhandled(q) PROVE task[q].child \in Pid /\ task'[task[q].child] = task[task[q].child]
  <2>1. task[q].child \in Pid /\ ~Known(task[q].child)
    BY <1>1 DEF Fresh, Inv, LoopOK, Unhandled
  <2> QED
    BY <2>1
<1>2. \A q \in Pid : ~Known(q)' => task'[q].at \in {"none", "start"} /\ ~task'[q].reported
  BY DEF Fresh
<1>3. ASSUME NEW q \in Pid, ~Known(q)', task'[q].at = "start"
      PROVE  \E r \in Pid : Unhandled(r)' /\ task'[r].child = q
  <2>1. PICK r \in Pid : Unhandled(r) /\ task[r].child = q
    BY <1>3 DEF Fresh
  <2> QED
    BY <2>1
<1>4. ASSUME NEW q \in Pid, Unhandled(q)', NEW c, c = task'[q].child
      PROVE  ~Known(c)' /\ task'[c].at = "start"
  <2>1. Unhandled(q) /\ c = task[q].child
    BY <1>4
  <2> QED
    BY <1>1, <2>1 DEF Fresh
<1>5. ASSUME NEW q \in Pid, NEW r \in Pid, Unhandled(q)', Unhandled(r)', task'[q].child = task'[r].child
      PROVE  q = r
  <2>1. Unhandled(q) /\ Unhandled(r) /\ task[q].child = task[r].child
    BY <1>5
  <2> QED
    BY <2>1 DEF Fresh
<1>6. \A q \in Pid : Known(q)' => task'[q].at # "none"
  BY DEF Fresh
<1> QED
  BY <1>2, <1>3, <1>4, <1>5, <1>6 DEF Fresh, Known, SpawnedIn, Unhandled, Written

\* The kernel's moves when nothing is killed.
LEMMA TameMoves ==
    ASSUME Inv, TameInv, ~regime.kills, NEW p \in Pid, KernelMoves(p),
           UNCHANGED <<regime, mainVars, out, said, announced>>
    PROVE  /\ task[p].at \in {"user", "forked", "kernel"} /\ Known(p) /\ pc \notin {"start", "done"}
           /\ task'[p].at \in {"enter", "event", "exit", "zombie"}
           /\ \A q \in Pid \ {p} : task'[q] = task[q]
           /\ Unhandled(p)' <=> Unhandled(p)
           /\ Unhandled(p) => task'[p].child = task[p].child
           /\ rootCode' = IF p = Root /\ task'[p].at = "zombie" THEN task'[p].code ELSE rootCode
           /\ pc \in {"handle", "resume"} => p # w
<1>1. /\ task[p].at \in {"user", "forked", "kernel"}
      /\ task'[p].at \in {"enter", "event", "exit", "zombie"}
      /\ \A q \in Pid \ {p} : task'[q] = task[q]
      /\ task[p].at = "forked" <=> task'[p].at = "event"
      /\ task[p].at = "forked" => task'[p].child = task[p].child
      /\ rootCode' = IF p = Root /\ task'[p].at = "zombie" THEN task'[p].code ELSE rootCode
  BY DEF KernelMoves, Moves
<1>2. pc \in {"handle", "resume"} => p # w
  BY <1>1 DEF Inv, LoopOK, Stops
<1>3. UNCHANGED <<pc, w>>
  BY DEF mainVars
<1>4. Known(p)
  BY <1>1 DEF TameInv, Fresh
<1>5. pc \notin {"start", "done"}
  BY <1>1 DEF TameInv, RootMirrored, KernelMoves, Moves, Inv, LoopOK
<1> QED
  BY <1>1, <1>2, <1>3, <1>4, <1>5 DEF Unhandled, Written

\* The kernel's moves keep the invariant.
LEMMA TameKernel ==
    ASSUME Inv, TameInv, ~regime.kills, NEW p \in Pid, KernelMoves(p),
           UNCHANGED <<regime, mainVars, out, said, announced>>
    PROVE  TameInv'
<1>0. UNCHANGED <<pc, w, got, ntraced, initial_code, out, announced>>
  BY DEF mainVars
<1>1. /\ task[p].at \in {"user", "forked", "kernel"} /\ Known(p) /\ pc \notin {"start", "done"}
      /\ task'[p].at \in {"enter", "event", "exit", "zombie"}
      /\ \A q \in Pid \ {p} : task'[q] = task[q]
      /\ Unhandled(p)' <=> Unhandled(p)
      /\ Unhandled(p) => task'[p].child = task[p].child
      /\ rootCode' = IF p = Root /\ task'[p].at = "zombie" THEN task'[p].code ELSE rootCode
      /\ pc \in {"handle", "resume"} => p # w
  BY TameMoves
<1>2. \A q : Known(q)' <=> Known(q)
  BY <1>0, SameNames DEF TameInv
<1>3. InHand'
  BY <1>0, <1>1, RootAssumption DEF TameInv, InHand, Inv, LoopOK
<1>4. \A q \in Pid : Unhandled(q)' <=> Unhandled(q)
  BY <1>0, <1>1 DEF Unhandled, Written
<1>5. \A q \in Pid : Unhandled(q) => task'[q].child = task[q].child
  BY <1>1
<1>6. \A q \in Pid : ~Known(q) => task'[q] = task[q]
  BY <1>1
<1>7. Fresh'
  <2>1. \A q \in Pid : task[q].at # "none" => task'[q].at # "none"
    BY <1>1
  <2> QED
    BY <1>2, <1>4, <1>5, <1>6, <2>1, FreshKept DEF TameInv
<1>8. ExactCount'
  <2>1. \A q \in Pid : (task'[q].at = "reaped" => Waited(q)') <=> (task[q].at = "reaped" => Waited(q))
    BY <1>0, <1>1 DEF Waited
  <2> QED
    BY <1>0, <1>1, <1>2, <2>1, SameCount DEF TameInv
<1>9. RootMirrored'
  BY <1>0, <1>1, RootAssumption DEF TameInv, RootMirrored, Waited
<1> QED
  BY <1>2, <1>3, <1>7, <1>8, <1>9 DEF TameInv

\* So does a fork, whose child nobody has named.
LEMMA TameForks ==
    ASSUME Inv, TameInv, NEW p \in Pid, Forks(p), UNCHANGED <<said, announced>>
    PROVE  TameInv'
<1>0. UNCHANGED <<pc, w, got, ntraced, initial_code, rootCode, out, announced>> /\ pc # "start"
  BY DEF Forks, mainVars, Inv, LoopOK
<1>1. PICK c \in Pid \ {p} :
         /\ task[c].at = "none" /\ task'[c].at = "start" /\ task'[p].child = c
         /\ task'[c].reported = task[c].reported
         /\ \A q \in Pid \ {p, c} : task'[q] = task[q]
  BY ForksTwo DEF Inv
<1>2. task[p].at = "kernel" /\ task'[p].at = "forked"
  BY ForksTwo DEF Inv
<1>3. \A q : Known(q)' <=> Known(q)
  BY <1>0, SameNames DEF TameInv
<1>4. Known(p) /\ pc # "done"
  BY <1>2 DEF TameInv, Fresh, RootMirrored
<1>5. pc \in {"handle", "resume"} => task'[w] = task[w]
  BY <1>1, <1>2 DEF Inv, LoopOK, Stops
<1>6. InHand'
  BY <1>0, <1>1, <1>2, <1>5, RootAssumption DEF TameInv, InHand, Inv, LoopOK
<1>7. /\ \A q \in Pid \ {p} : (Unhandled(q)' <=> Unhandled(q)) /\ (Unhandled(q) => task'[q].child = task[q].child)
      /\ Unhandled(p)' /\ ~Unhandled(p)
  BY <1>0, <1>1, <1>2 DEF Unhandled, Written
<1>8. Fresh'
  <2>0. ~Known(c) /\ \A q \in Pid : Known(q)' => task'[q].at # "none"
    BY <1>1, <1>2, <1>3 DEF TameInv, Fresh
  <2>1. \A q \in Pid : ~Known(q)' => task'[q].at \in {"none", "start"} /\ ~task'[q].reported
    BY <1>1, <1>3, <1>4 DEF TameInv, Fresh
  <2>2. ASSUME NEW q \in Pid, ~Known(q)', task'[q].at = "start"
        PROVE  \E r \in Pid : Unhandled(r)' /\ task'[r].child = q
    <3>1. CASE q = c
      BY <1>1, <1>7, <3>1
    <3>2. CASE q # c
      <4>1. PICK r \in Pid : Unhandled(r) /\ task[r].child = q
        BY <1>1, <1>3, <1>4, <2>2, <3>2 DEF TameInv, Fresh
      <4> QED
        BY <1>7, <4>1
    <3> QED
      BY <3>1, <3>2
  <2>3. ASSUME NEW q \in Pid \ {p}, Unhandled(q)
        PROVE  task[q].child \in Pid \ {c, p} /\ ~Known(task[q].child) /\ task[task[q].child].at = "start"
    <3>1. ~Known(task[q].child) /\ task[task[q].child].at = "start" /\ task[q].child \in Pid
      BY <2>3 DEF TameInv, Fresh, Inv, LoopOK, Unhandled
    <3> QED
      BY <1>1, <1>2, <3>1
  <2>4. ASSUME NEW q \in Pid, Unhandled(q)', NEW d, d = task'[q].child
        PROVE  ~Known(d)' /\ task'[d].at = "start"
    <3>1. CASE q = p
      BY <1>1, <1>3, <2>0, <2>4, <3>1
    <3>2. CASE q # p
      BY <1>1, <1>3, <1>7, <2>3, <2>4, <3>2
    <3> QED
      BY <3>1, <3>2
  <2>5. ASSUME NEW q \in Pid, NEW r \in Pid, Unhandled(q)', Unhandled(r)', task'[q].child = task'[r].child
        PROVE  q = r
    BY <1>1, <1>7, <2>3, <2>5 DEF TameInv, Fresh
  <2> QED
    BY <2>0, <2>1, <2>2, <2>4, <2>5 DEF Fresh, Known, SpawnedIn, Unhandled, Written
<1>9. ExactCount'
  <2>1. \A q \in Pid : (task'[q].at = "reaped" => Waited(q)') <=> (task[q].at = "reaped" => Waited(q))
    BY <1>0, <1>1, <1>2 DEF Waited
  <2> QED
    BY <1>0, <1>3, <1>4, <2>1, SameCount DEF TameInv
<1>10. RootMirrored'
  BY <1>0, <1>1, <1>2, <1>4, RootAssumption DEF TameInv, RootMirrored, InHand, Waited
<1> QED
  BY <1>3, <1>6, <1>8, <1>9, <1>10 DEF TameInv

\* So does the first waitpid, however it ends.
LEMMA TameStarts ==
    ASSUME Inv, TameInv, ~regime.kills, Starts \/ StartFails \/ StartLost, UNCHANGED <<said, announced>>
    PROVE  TameInv'
<1>0. /\ pc = "start" /\ ~StartLost /\ UNCHANGED <<w, got, out, announced>>
      /\ \A p \in Pid : task[p].at = IF p = Root THEN "user" ELSE "none"
      /\ \A p \in Pid : Known(p) <=> p = Root
  BY RootAssumption DEF Starts, StartFails, StartLost, RootReaped, Inv, LoopOK, TameInv, ExactCount,
     InHand, Known
<1>1. \A q : Known(q)' <=> Known(q)
  BY <1>0, SameNames DEF TameInv
<1>2. CASE Starts
  <2>1. task' = task /\ pc' = "wait" /\ ntraced' = 1
    BY <1>2 DEF Starts, kernelVars
  <2>2. InHand'
    BY <1>0, <2>1 DEF TameInv, InHand
  <2>3. Fresh'
    <3>1. \A q \in Pid : ~Unhandled(q)' /\ ~Unhandled(q)
      BY <1>0, <2>1 DEF Unhandled
    <3> QED
      BY <1>1, <2>1, <3>1, FreshKept DEF TameInv
  <2>4. ExactCount'
    <3>1. Counts' = {Root}
      BY <1>0, <1>1, <2>1, RootAssumption DEF Counts
    <3> QED
      BY <2>1, <3>1, FS_Singleton DEF ExactCount
  <2>5. RootMirrored'
    BY <1>0, <2>1, RootAssumption DEF RootMirrored
  <2> QED
    BY <1>1, <2>2, <2>3, <2>4, <2>5 DEF TameInv
<1>3. CASE StartFails
  <2>1. PICK code : RootReaped(code) /\ initial_code' = code
    BY <1>3 DEF StartFails
  <2>2. /\ task'[Root].at = "reaped" /\ (\A q \in Pid \ {Root} : task'[q] = task[q])
        /\ pc' = "done" /\ rootCode' = code
    BY <2>1, Reaps DEF RootReaped, Inv
  <2>3. InHand'
    BY <1>0, <2>2, RootAssumption DEF TameInv, InHand
  <2>4. Fresh'
    <3>1. \A q \in Pid : ~Unhandled(q)' /\ ~Unhandled(q)
      BY <1>0, <2>2 DEF Unhandled
    <3>2. \A q \in Pid : ~Known(q) => task'[q] = task[q]
      BY <1>0, <2>2
    <3>3. \A q \in Pid : task[q].at # "none" => task'[q].at # "none"
      BY <1>0, <2>2
    <3> QED
      BY <1>1, <3>1, <3>2, <3>3, FreshKept DEF TameInv
  <2>5. ExactCount'
    BY <2>2 DEF ExactCount
  <2>6. RootMirrored'
    BY <1>0, <2>1, <2>2, RootAssumption DEF RootMirrored
  <2> QED
    BY <1>1, <2>3, <2>4, <2>5, <2>6 DEF TameInv
<1> QED
  BY <1>0, <1>2, <1>3

\* So does waitpid: a task it returns was named, since its parent's fork was handled.
LEMMA TameWaits ==
    ASSUME Inv, TameInv, ~regime.kills, regime.eventFirst, WaitPid, UNCHANGED <<said, announced>>
    PROVE  TameInv'
<1>0. pc = "wait" /\ pc' = "handle" /\ UNCHANGED <<rootCode, ntraced, initial_code, out, announced>>
  BY DEF WaitPid
<1>1. /\ w' \in Pid /\ Waitable(w') /\ Announced(w') /\ got' = task[w'].at
      /\ task'[w'].at = IF got' = "zombie" THEN "reaped" ELSE got'
      /\ task'[w'].child = task[w'].child /\ task'[w'].code = task[w'].code
      /\ \A q \in Pid \ {w'} : task'[q] = task[q]
  BY Waits DEF Inv
<1>2. \A q : Known(q)' <=> Known(q)
  BY <1>0, SameNames DEF TameInv
<1>3. task[w'].at \in Stops \cup {"zombie"}
  BY <1>1 DEF Waitable
<1>4. Known(w')
  <2> SUFFICES ASSUME ~Known(w') PROVE FALSE
    OBVIOUS
  <2>1. task[w'].at = "start"
    BY <1>1, <1>3 DEF TameInv, Fresh, Stops
  <2>2. PICK q \in Pid : Unhandled(q) /\ task[q].child = w'
    BY <1>1, <2>1 DEF TameInv, Fresh
  <2> QED
    BY <1>1, <2>2 DEF Announced, Unhandled
<1>5. InHand'
  BY <1>0, <1>1, <1>3, RootAssumption DEF TameInv, InHand, Stops
<1>6. Fresh'
  <2>1. \A q \in Pid : Unhandled(q)' <=> Unhandled(q)
    BY <1>0, <1>1, <1>3 DEF Unhandled, Written, Stops
  <2>2. \A q \in Pid : task'[q].child = task[q].child
    BY <1>1
  <2>3. \A q \in Pid : ~Known(q) => task'[q] = task[q]
    BY <1>1, <1>4
  <2>4. \A q \in Pid : task[q].at # "none" => task'[q].at # "none"
    BY <1>1, <1>3 DEF Stops
  <2> QED
    BY <1>2, <2>1, <2>2, <2>3, <2>4, FreshKept DEF TameInv
<1>7. ExactCount'
  <2>1. \A q \in Pid : (task'[q].at = "reaped" => Waited(q)') <=> (task[q].at = "reaped" => Waited(q))
    BY <1>0, <1>1, <1>3 DEF Waited, Stops
  <2> QED
    BY <1>0, <1>2, <2>1, SameCount DEF TameInv
<1>8. RootMirrored'
  BY <1>0, <1>1, <1>3, RootAssumption DEF TameInv, RootMirrored, Waited, Stops
<1> QED
  BY <1>2, <1>5, <1>6, <1>7, <1>8 DEF TameInv

\* ntraced is exact: when it is 0 everybody has ended and was waited for.
LEMMA NobodyLeftBehind ==
    ASSUME Inv, TameInv, pc = "wait", NobodyLeft
    PROVE  \A p \in Pid : task[p].at \in {"none", "reaped"}
<1> SUFFICES ASSUME ntraced = 0 PROVE \A p \in Pid : task[p].at \in {"none", "reaped"}
  BY DEF NobodyLeft
<1>1. Counts = {}
  <2>1. IsFiniteSet(Counts) /\ Cardinality(Counts) = 0
    BY Finite DEF Counts, TameInv, ExactCount
  <2> QED
    BY <2>1, FS_EmptySet
<1>2. \A p \in Pid : Known(p) => task[p].at = "reaped"
  BY <1>1 DEF Counts
<1>3. ASSUME NEW p \in Pid, ~Known(p), task[p].at # "none" PROVE FALSE
  <2>1. task[p].at = "start"
    BY <1>3 DEF TameInv, Fresh
  <2>2. PICK q \in Pid : Unhandled(q)
    BY <1>3, <2>1 DEF TameInv, Fresh
  <2>3. task[q].at \in {"forked", "event"}
    BY <2>2 DEF Unhandled
  <2> QED
    BY <1>2, <2>3 DEF TameInv, Fresh
<1> QED
  BY <1>2, <1>3

\* So does the end of the loop: it kills nobody.
LEMMA TameEnds ==
    ASSUME Inv, TameInv, EndLoop, UNCHANGED <<said, announced>>
    PROVE  TameInv'
<1>0. /\ pc = "wait" /\ pc' = "done" /\ NobodyLeft /\ TracerGone
      /\ UNCHANGED <<rootCode, initial_code, out, announced>>
  BY DEF EndLoop, TracerGone
<1>1. \A p \in Pid : task[p].at \in {"none", "reaped"}
  BY <1>0, NobodyLeftBehind
<1>2. \A p \in Pid : task'[p] = task[p]
  BY <1>0, <1>1, Gone DEF Inv, Alive, Stops, Running
<1>3. \A q : Known(q)' <=> Known(q)
  BY <1>0, SameNames DEF TameInv
<1>4. InHand'
  BY <1>0, <1>2 DEF TameInv, InHand
<1>5. Fresh'
  <2>1. \A q \in Pid : ~Unhandled(q)' /\ ~Unhandled(q)
    BY <1>1, <1>2 DEF Unhandled
  <2> QED
    BY <1>2, <1>3, <2>1, FreshKept DEF TameInv
<1>6. ExactCount'
  BY <1>0 DEF ExactCount
<1>7. RootMirrored'
  <2>1. Known(Root) /\ task[Root].at = "reaped"
    BY <1>1, RootAssumption DEF TameInv, InHand, Known, Fresh
  <2> QED
    BY <1>0, <1>1, <1>2, <2>1 DEF TameInv, RootMirrored, Waited
<1> QED
  BY <1>3, <1>4, <1>5, <1>6, <1>7 DEF TameInv

\* So does a line EXITED: its task is counted no more.
LEMMA TameHandleEnd ==
    ASSUME Inv, TameInv, HandleEnd, UNCHANGED <<said, announced>>
    PROVE  TameInv'
<1> DEFINE line == [kind |-> "EXITED", pid |-> w]
<1>0. /\ pc = "handle" /\ pc' = "wait" /\ UNCHANGED <<task, rootCode, announced>>
      /\ task[w].at = "reaped" /\ ntraced' = ntraced - 1
      /\ initial_code' = IF w = Root THEN task[w].code ELSE initial_code
  BY DEF HandleEnd, kernelVars, Inv, LoopOK
<1>1. line \in Line /\ line.pid = w /\ line.kind = "EXITED" /\ w \in Pid /\ Write(line)
  BY EndLine DEF Inv, HandleEnd
<1> HIDE DEF line
<1>2. Known(w)
  BY <1>0, <1>1 DEF TameInv, Fresh
<1>3. \A q : Known(q)' <=> Known(q)
  BY <1>0, <1>1, <1>2, NamesWritten DEF TameInv, Inv
<1>4. InHand'
  BY <1>0 DEF TameInv, InHand
<1>5. Fresh'
  <2>1. \A q \in Pid : Unhandled(q)' <=> Unhandled(q)
    BY <1>0 DEF Unhandled, Written
  <2> QED
    BY <1>0, <1>3, <2>1, FreshKept DEF TameInv
<1>6. ExactCount'
  <2>1. Counts' = Counts \ {w} /\ w \in Counts
    BY <1>0, <1>1, <1>2, <1>3 DEF Counts, Waited
  <2>2. IsFiniteSet(Counts) /\ Cardinality(Counts) \in Nat
    BY Finite DEF Counts
  <2>3. Cardinality(Counts') = Cardinality(Counts) - 1
    BY <2>1, <2>2, FS_RemoveElement
  <2> QED
    BY <1>0, <2>3 DEF TameInv, ExactCount
<1>7. RootMirrored'
  BY <1>0 DEF TameInv, RootMirrored, Waited
<1> QED
  BY <1>3, <1>4, <1>5, <1>6, <1>7 DEF TameInv

\* So do the lines of a call's two stops.
LEMMA TameSyscall ==
    ASSUME Inv, TameInv, HandleSyscallStop, UNCHANGED <<said, announced>>
    PROVE  TameInv'
<1> DEFINE line == [kind |-> IF got = "enter" THEN "ENTER" ELSE "EXIT", pid |-> w]
<1>0. /\ pc = "handle" /\ pc' = "resume" /\ got \in {"enter", "exit"} /\ w \in Pid
      /\ UNCHANGED <<task, rootCode, announced, w, got, ntraced, initial_code>>
  BY DEF HandleSyscallStop, AfterFailedInfo, kernelVars, Inv, LoopOK
<1>1. task[w].at = got /\ Stopped(w)
  BY <1>0 DEF TameInv, InHand, Stopped, Stops
<1>2. line \in Line /\ line.pid = w /\ line.kind # "SPAWN" /\ Write(line)
  BY <1>0, <1>1, EndLine DEF Inv, HandleSyscallStop
<1> HIDE DEF line
<1>3. Known(w)
  BY <1>0, <1>1 DEF TameInv, Fresh
<1>4. \A q : Known(q)' <=> Known(q)
  BY <1>0, <1>2, <1>3, NamesWritten DEF TameInv, Inv
<1>5. InHand'
  BY <1>0 DEF TameInv, InHand
<1>6. Fresh'
  <2>1. \A q \in Pid : Unhandled(q)' <=> Unhandled(q)
    BY <1>0, <1>1 DEF Unhandled, Written
  <2> QED
    BY <1>0, <1>4, <2>1, FreshKept DEF TameInv
<1>7. ExactCount'
  <2>1. \A q \in Pid : (task'[q].at = "reaped" => Waited(q)') <=> (task[q].at = "reaped" => Waited(q))
    BY <1>0, <1>1 DEF Waited
  <2> QED
    BY <1>0, <1>4, <2>1, SameCount DEF TameInv
<1>8. RootMirrored'
  BY <1>0, <1>1 DEF TameInv, RootMirrored, Waited
<1> QED
  BY <1>4, <1>5, <1>6, <1>7, <1>8 DEF TameInv

\* The SPAWN line names the child and counts it, both at once.
LEMMA TameForkEvent ==
    ASSUME Inv, TameInv, HandleForkEvent, UNCHANGED <<said, announced>>
    PROVE  TameInv'
<1> DEFINE line == SpawnLine(w)
           c == task[w].child
<1>0. /\ pc = "handle" /\ pc' = "resume" /\ got = "event" /\ w \in Pid
      /\ UNCHANGED <<task, rootCode, announced, w, got, initial_code>>
  BY DEF HandleForkEvent, AfterForkEvent, kernelVars, Inv, LoopOK
<1>1. task[w].at = "event" /\ Stopped(w)
  BY <1>0 DEF TameInv, InHand, Stopped, Stops
<1>2. /\ line \in Line /\ line.pid = w /\ line.kind = "SPAWN" /\ line.child = c /\ c \in Pid
      /\ Write(line) /\ ntraced' = ntraced + 1
  BY <1>0, <1>1, ForkLine DEF Inv, HandleForkEvent, SpawnLine, Counted
<1> HIDE DEF line
<1>3. Known(w) /\ Unhandled(w)
  BY <1>0, <1>1 DEF TameInv, Fresh, Unhandled, Written
<1>4. ~Known(c) /\ task[c].at = "start"
  BY <1>0, <1>3 DEF TameInv, Fresh
<1>5. \A q : Known(q)' <=> Known(q) \/ q = c
  BY <1>0, <1>2, <1>3, NamesWritten DEF TameInv, Inv
<1>6. InHand'
  BY <1>0 DEF TameInv, InHand
<1>7. \A q \in Pid : Unhandled(q)' <=> Unhandled(q) /\ q # w
  BY <1>0, <1>1 DEF Unhandled, Written
<1>8. Fresh'
  <2>1. /\ \A q \in Pid : Known(q)' => task'[q].at # "none"
        /\ \A q \in Pid : ~Known(q)' => task'[q].at \in {"none", "start"} /\ ~task'[q].reported
    BY <1>0, <1>4, <1>5 DEF TameInv, Fresh
  <2>2. ASSUME NEW q \in Pid, ~Known(q)', task'[q].at = "start"
        PROVE  \E r \in Pid : Unhandled(r)' /\ task'[r].child = q
    <3>1. PICK r \in Pid : Unhandled(r) /\ task[r].child = q
      BY <1>0, <1>5, <2>2 DEF TameInv, Fresh
    <3>2. r # w
      BY <1>5, <2>2, <3>1
    <3> QED
      BY <1>0, <1>7, <3>1, <3>2
  <2>3. ASSUME NEW q \in Pid, Unhandled(q)', NEW d, d = task'[q].child
        PROVE  ~Known(d)' /\ task'[d].at = "start"
    <3>1. Unhandled(q) /\ q # w /\ d = task[q].child
      BY <1>0, <1>7, <2>3
    <3>2. d # c /\ ~Known(d) /\ task[d].at = "start"
      BY <1>0, <1>3, <3>1 DEF TameInv, Fresh
    <3> QED
      BY <1>0, <1>5, <3>2
  <2>4. ASSUME NEW q \in Pid, NEW r \in Pid, Unhandled(q)', Unhandled(r)', task'[q].child = task'[r].child
        PROVE  q = r
    BY <1>0, <1>7, <2>4 DEF TameInv, Fresh
  <2> QED
    BY <2>1, <2>2, <2>3, <2>4 DEF Fresh, Known, SpawnedIn, Unhandled, Written
<1>9. ExactCount'
  <2>1. Counts' = Counts \cup {c} /\ c \notin Counts
    BY <1>0, <1>1, <1>2, <1>4, <1>5 DEF Counts, Waited
  <2>2. IsFiniteSet(Counts) /\ Cardinality(Counts) \in Nat
    BY Finite DEF Counts
  <2>3. Cardinality(Counts') = Cardinality(Counts) + 1
    BY <2>1, <2>2, FS_AddElement
  <2> QED
    BY <1>0, <1>2, <2>3 DEF TameInv, ExactCount
<1>10. RootMirrored'
  BY <1>0, <1>1 DEF TameInv, RootMirrored, Waited
<1> QED
  BY <1>5, <1>6, <1>8, <1>9, <1>10 DEF TameInv

\* So does PTRACE_SYSCALL.
LEMMA TameResume ==
    ASSUME Inv, TameInv, Resume, UNCHANGED <<said, announced>>
    PROVE  TameInv'
<1>0. /\ pc' = "wait" /\ pc \in {"handle", "resume"} /\ (pc = "handle" => got \in {"start", "signal"})
      /\ UNCHANGED <<out, announced, ntraced, initial_code>>
  BY DEF Resume
<1>1. /\ w \in Pid /\ task[w].at = got /\ got \in {"enter", "exit", "event", "start"}
      /\ pc = "handle" => got = "start"
  BY <1>0 DEF Inv, LoopOK, TameInv, InHand
<1>2. Stopped(w) /\ task[w].reported
  BY <1>0, <1>1 DEF Inv, LoopOK, Stopped, Stops
<1>3. /\ \A q \in Pid \ {w} : task'[q] = task[q]
      /\ task'[w].at \in {"kernel", "user"} /\ rootCode' = rootCode
  BY <1>1, <1>2, Resumes DEF Inv, BackInCall, Resume
<1>4. Known(w) /\ \A q : Known(q)' <=> Known(q)
  BY <1>0, <1>1, <1>2, SameNames DEF TameInv, Fresh
<1>5. InHand'
  BY <1>0, <1>3 DEF TameInv, InHand
<1>6. Fresh'
  <2>1. \A q \in Pid : q = w => ~Unhandled(q) /\ ~Unhandled(q)'
    BY <1>0, <1>1, <1>3 DEF Unhandled, Written
  <2>2. \A q \in Pid : Unhandled(q)' <=> Unhandled(q)
    BY <1>0, <1>3, <2>1 DEF Unhandled, Written
  <2>3. \A q \in Pid : ~Known(q) => task'[q] = task[q]
    BY <1>3, <1>4
  <2>4. \A q \in Pid : task[q].at # "none" => task'[q].at # "none"
    BY <1>3
  <2>5. \A q \in Pid : Unhandled(q) => task'[q].child = task[q].child
    BY <1>3, <2>1
  <2> QED
    BY <1>4, <2>2, <2>3, <2>4, <2>5, FreshKept DEF TameInv
<1>7. ExactCount'
  <2>1. \A q \in Pid : (task'[q].at = "reaped" => Waited(q)') <=> (task[q].at = "reaped" => Waited(q))
    BY <1>0, <1>1, <1>3 DEF Waited
  <2> QED
    BY <1>0, <1>4, <2>1, SameCount DEF TameInv
<1>8. RootMirrored'
  BY <1>0, <1>1, <1>3, RootAssumption DEF TameInv, RootMirrored, Waited
<1> QED
  BY <1>4, <1>5, <1>6, <1>7, <1>8 DEF TameInv

\* So does reading a line.
LEMMA TameRead ==
    ASSUME Inv, TameInv, Read \/ UNCHANGED allVars
    PROVE  TameInv'
<1>0. UNCHANGED <<task, pc, w, got, ntraced, initial_code, rootCode>>
  BY DEF Read, allVars, kernelVars, mainVars
<1>1. (\A q : Known(q)' <=> Known(q)) /\ announced \subseteq announced'
  <2>1. CASE Read
    BY <2>1, NamesRead DEF TameInv, Inv
  <2>2. CASE UNCHANGED allVars
    BY <2>2, SameNames DEF TameInv, allVars
  <2> QED
    BY <2>1, <2>2
<1>2. InHand'
  BY <1>0, <1>1 DEF TameInv, InHand
<1>3. Fresh'
  <2>1. \A q \in Pid : Unhandled(q)' <=> Unhandled(q)
    BY <1>0 DEF Unhandled, Written
  <2> QED
    BY <1>0, <1>1, <2>1, FreshKept DEF TameInv
<1>4. ExactCount'
  <2>1. Counts' = Counts
    BY <1>0, <1>1 DEF Counts, Waited
  <2> QED
    BY <1>0, <1>1, <2>1 DEF TameInv, ExactCount
<1>5. RootMirrored'
  BY <1>0 DEF TameInv, RootMirrored, Waited
<1> QED
  BY <1>1, <1>2, <1>3, <1>4, <1>5 DEF TameInv

\* The invariant holds at the start.
LEMMA TameInit == CollectorInit => TameInv
<1> SUFFICES ASSUME CollectorInit PROVE TameInv
  OBVIOUS
<1>1. /\ out = <<>> /\ announced = {Root} /\ pc = "start" /\ LoopOK
      /\ \A p : Known(p) <=> p = Root
  BY TypeInit DEF CollectorInit, Init, Inv, Known
<1>2. \A p \in Pid : task[p].at = IF p = Root THEN "user" ELSE "none"
  BY <1>1 DEF LoopOK
<1>3. InHand
  BY <1>1, <1>2 DEF InHand
<1>4. Fresh
  <2>1. \A p \in Pid : ~Unhandled(p)
    BY <1>2 DEF Unhandled
  <2>2. \A p \in Pid : task[p].at = "none" => ~task[p].reported
    BY <1>1 DEF LoopOK
  <2> QED
    BY <1>1, <1>2, <2>1, <2>2 DEF Fresh
<1>5. ExactCount /\ RootMirrored
  BY <1>1 DEF ExactCount, RootMirrored
<1> QED
  BY <1>3, <1>4, <1>5 DEF TameInv

\* At its best the kernel leaves the tracer nothing to miss.
LEMMA TameStep == Inv /\ (Tame => TameInv) /\ [Next]_allVars => (Tame => TameInv)'
<1> SUFFICES ASSUME Inv, Tame => TameInv, [Next]_allVars, Tame' PROVE TameInv'
  OBVIOUS
<1>0. regime' = regime
  BY Steps DEF Inv, Forks, Starts, StartFails, StartLost, RootReaped, WaitPid, EndLoop, HandleEnd,
     HandleSyscallStop, HandleForkEvent, Resume, Read, allVars, kernelVars
<1>1. TameInv /\ ~regime.kills /\ regime.eventFirst
  BY <1>0 DEF Tame
<1>2. ASSUME NEW p \in Pid, KernelMoves(p), UNCHANGED <<regime, mainVars, out, said, announced>>
      PROVE  TameInv'
  BY <1>1, <1>2, TameKernel
<1>3. ASSUME NEW p \in Pid, Forks(p), UNCHANGED <<said, announced>> PROVE TameInv'
  BY <1>1, <1>3, TameForks
<1>4. CASE (Starts \/ StartFails \/ StartLost \/ WaitPid \/ EndLoop) /\ UNCHANGED <<said, announced>>
  BY <1>1, <1>4, TameStarts, TameWaits, TameEnds
<1>5. CASE (HandleEnd \/ HandleSyscallStop \/ HandleForkEvent \/ Resume) /\ UNCHANGED <<said, announced>>
  BY <1>1, <1>5, TameHandleEnd, TameSyscall, TameForkEvent, TameResume
<1>6. CASE Read \/ UNCHANGED allVars
  BY <1>1, <1>6, TameRead
<1> QED
  BY <1>2, <1>3, <1>4, <1>5, <1>6, Steps DEF Inv

\* The invariant holds always while the kernel is at its best.
LEMMA TameHolds == SafeSpec => [](Tame => TameInv)
  BY TameInit, TameStep, InvHolds, PTL DEF SafeSpec

\* The tracer returns the code the initial child ended with (tracer.c main).
THEOREM ExitCodeIsTheChilds == Spec => []ExitCodeMirrored
<1>1. (Tame => TameInv) => ExitCodeMirrored
  BY DEF TameInv, RootMirrored, ExitCodeMirrored
<1> QED
  BY <1>1, TameHolds, PTL DEF Spec

\* Every stream that began is over when the tracer is done and its lines are
\* read (tracer.c main, the lines EXITED and SIGNALED).
THEOREM EveryStreamEnds == Spec => []StreamsEnd
<1>1. Inv /\ Streams /\ (Tame => TameInv) => StreamsEnd
  <2> SUFFICES ASSUME Inv, Streams, TameInv, pc = "done", out = <<>>, NEW p \in Pid
               PROVE  said[p] \in {"nothing", "over"}
    BY DEF StreamsEnd
  <2>1. task[p].at \in {"none", "reaped"}
    BY DEF TameInv, RootMirrored
  <2>2. Fits(said[p], p)
    BY DEF Streams, QuietFits, Silent
  <2> QED
    BY <2>1, <2>2 DEF Fits
<1> QED
  BY <1>1, TameHolds, StreamsHold, InvHolds, PTL DEF Spec
=============================================================================
