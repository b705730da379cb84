----------------------------- MODULE Collector ------------------------------
(***************************************************************************)
(* The tracer, the tasks it traces, and the reader of its stderr pipe      *)
(* (live.py _pump), who notes what each pid's stream has said so far.      *)
(***************************************************************************)
EXTENDS Tracer

VARIABLES
    said,      \* pid -> "nothing", "in" a call, "out" of it, or "over"
    announced  \* the pids whose SPAWN line was read

allVars == <<kernelVars, mainVars, out, said, announced>>

CollectorInit ==
    /\ Init
    /\ said = [p \in Pid |-> "nothing"]
    /\ announced = {Root}

SaysAfter(line) ==
    CASE line.kind = "ENTER" -> "in"
      [] line.kind = "EXIT" -> "out"
      [] line.kind = "EXITED" -> "over"
      [] line.kind = "SPAWN" -> said[line.pid]

Read ==
    /\ out # <<>>
    /\ out' = Tail(out)
    /\ said' = [said EXCEPT ![Head(out).pid] = SaysAfter(Head(out))]
    /\ announced' = announced \cup
           (IF Head(out).kind = "SPAWN" THEN {Head(out).child} ELSE {})
    /\ UNCHANGED <<kernelVars, mainVars>>

Next ==
    \/ (\E p \in Pid : Kernel(p)) /\ UNCHANGED <<said, announced>>
    \/ Main /\ UNCHANGED <<said, announced>>
    \/ Read
    \/ pc = "done" /\ out = <<>> /\ UNCHANGED allVars  \* all is over

\* The tracer and the pump run whenever they can; the kernel finishes a fork
\* it began.  No call is assumed to return and no task to make one.
Fairness ==
    /\ WF_allVars(Main /\ UNCHANGED <<said, announced>>)
    /\ WF_allVars(Read)
    /\ \A p \in Pid : WF_allVars(ReportsFork(p) /\ UNCHANGED <<said, announced>>)

SafeSpec == CollectorInit /\ [][Next]_allVars
Spec == SafeSpec /\ Fairness
-----------------------------------------------------------------------------
\* What the variables of the tracer, its tasks and its reader hold; ntraced is
\* never more than the tasks there are and never negative (tracer.c main).
TypeOK ==
    /\ regime \in Regimes
    /\ task \in [Pid -> [at : Places, reported : BOOLEAN,
                         call : Call \cup {"fork", "exit_group", None},
                         child : Pid \cup {None},
                         code : {EXIT_CODE, KILLED_CODE, None}]]
    /\ pc \in {"start", "wait", "handle", "resume", "done"}
    /\ w \in Pid \cup {None}
    /\ got \in Stops \cup {"zombie", None}
    /\ ntraced \in 0..Cardinality(Pid)
    /\ Len(out) <= PIPE_LINES
    /\ rootCode \in {EXIT_CODE, KILLED_CODE, NOT_EXECUTED, None}
    /\ said \in [Pid -> {"nothing", "in", "out", "over"}]
    /\ announced \subseteq Pid

(***************************************************************************)
(* SPEC.md "Ordering": the lines of one pid are strictly ordered, an EXIT  *)
(* only after its ENTER, an ENTER only outside a call, and nothing after   *)
(* the line that ends the stream; also when tasks are killed between       *)
(* waitpid and the requests the handler makes.                             *)
(***************************************************************************)
StreamsWellFormed ==
    out # <<>> =>
        LET line == Head(out)
        IN  /\ said[line.pid] # "over"
            /\ line.kind = "ENTER" => said[line.pid] \in {"nothing", "out"}
            /\ line.kind \in {"EXIT", "SPAWN"} => said[line.pid] = "in"

(***************************************************************************)
(* A stop that waitpid has returned is never lost: the task is the one the *)
(* loop is about to resume, so nobody stays stopped behind its back        *)
(* (tracer.c main, every branch of the loop ends in PTRACE_SYSCALL).       *)
(***************************************************************************)
NoStopForgotten ==
    \A p \in Pid : Stopped(p) /\ task[p].reported => p = w /\ pc \in {"handle", "resume"}

(***************************************************************************)
(* Once every task has ended the tracer ends too, whatever it missed:      *)
(* stops of tasks that were killed before they were handled, and SPAWNs    *)
(* that were not counted (tracer.c main, the loop and its ECHILD exit).    *)
(***************************************************************************)
TracerEnds == (pc # "start" /\ \A p \in Pid : ~Alive(p)) ~> (pc = "done")

\* p was named by a SPAWN line, read or not.
SpawnedIn(i, p) == out[i].kind = "SPAWN" /\ out[i].child = p
Known(p) == p \in announced \/ \E i \in 1..Len(out) : SpawnedIn(i, p)

\* The line about p's present stop is written.
Written(p) == w = p /\ pc = "resume"

\* A fork the loop has not told of: not reported yet, or not handled.
Unhandled(p) == task[p].at = "forked" \/ (task[p].at = "event" /\ ~Written(p))

\* The children no SPAWN line named and none will, and the tasks that were killed.
Untold ==
    {p \in Pid \ {Root} :
        /\ task[p].at # "none" /\ ~Known(p)
        /\ \A q \in Pid : Unhandled(q) => task[q].child # p}
KilledTasks == {p \in Pid : task[p].at \in {"zombie", "reaped"} /\ task[p].code = KILLED_CODE}

\* No two SPAWN lines name the same child.
NamedOnce ==
    \A i, j \in 1..Len(out), p \in Pid :
        SpawnedIn(i, p) => p \notin announced /\ (SpawnedIn(j, p) => i = j)

(***************************************************************************)
(* "SPAWN ... is emitted when process P creates a child C": for every      *)
(* child, and once, though the child may by then have stopped, spoken or   *)
(* ended (tracer.c:250).  A child has its SPAWN line, or a parent whose    *)
(* fork event is still to be handled, or is one that a killed parent left  *)
(* untold, and a killed task leaves one at most (tracer.c:289); and no two *)
(* lines name the same child.                                              *)
(***************************************************************************)
BirthsToldOnce == Cardinality(Untold) <= Cardinality(KilledTasks) /\ NamedOnce

\* The kernel at its best: nothing is killed, and a fork is reported before
\* its child.  The rest of the wire contract rests on that.
Tame == ~regime.kills /\ regime.eventFirst

(***************************************************************************)
(* "The tracer's exit code mirrors the initial child's": when the tracer   *)
(* is done the initial child has ended by itself and this is its code, if  *)
(* nothing was killed.                                                     *)
(***************************************************************************)
ExitCodeMirrored == Tame /\ pc = "done" => initial_code = rootCode

(***************************************************************************)
(* The same whatever order stops are reported in.                          *)
(***************************************************************************)
ExitCodeAlwaysMirrored == ~regime.kills /\ pc = "done" => initial_code = rootCode

(***************************************************************************)
(* "Each pid's stream ends with its own EXITED or SIGNALED": when the      *)
(* tracer is done and its lines are read, every stream that said anything  *)
(* is over.                                                                *)
(***************************************************************************)
StreamsEnd ==
    Tame /\ pc = "done" /\ out = <<>> => \A p \in Pid : said[p] \in {"nothing", "over"}
=============================================================================
