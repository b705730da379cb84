------------------------------ MODULE Session -------------------------------
(***************************************************************************)
(* A viewing session from start to stop (live.py LiveCollector,            *)
(* __main__.py run_live): the viewer spawns the tracer, reads its pipe on  *)
(* a thread, and takes the tracer down with it, or crashes.  The lines     *)
(* themselves are Collector's subject; here they only fill the pipe.       *)
(***************************************************************************)
EXTENDS Tracer

VARIABLES
    viewer,     \* where run_live is, see Viewing
    pump,       \* whether the pump thread still reads
    sigterm,    \* SIGTERM was sent to the tracer and not delivered
    suspended,  \* the tracer is stopped by job control
    escaped     \* the program runs on without a tracer

sessionVars == <<viewer, pump, sigterm, suspended, escaped>>
allVars == <<kernelVars, mainVars, out, sessionVars>>

\* "stopping" is in stop(), between terminate() and the end of wait(timeout=2);
\* after "stopped", "crashed" and "refused" (no tracer was built) the viewer's
\* process is no more.
Viewing == {"starting", "watching", "stopping", "stopped", "crashed", "refused"}
Gone == {"stopped", "crashed", "refused"}

SessionInit ==
    /\ Init
    /\ viewer = "starting"
    /\ pump = TRUE
    /\ sigterm = FALSE
    /\ suspended = FALSE
    /\ escaped = FALSE

-----------------------------------------------------------------------------
\* The viewer.
Start ==
    /\ viewer = "starting"
    /\ viewer' \in {"watching", "refused"}
    /\ UNCHANGED <<vars, pump, sigterm, suspended, escaped>>

\* One round of _pump.
PumpReads ==
    /\ viewer \notin Gone /\ pump /\ out # <<>>
    /\ out' = Tail(out)
    /\ UNCHANGED <<kernelVars, mainVars, sessionVars>>

\* A byte that is not UTF-8 ends the thread; the pipe stays open.
PumpEnds ==
    /\ viewer \in {"watching", "stopping"} /\ pump /\ pc # "start"
    /\ pump' = FALSE
    /\ UNCHANGED <<vars, viewer, sigterm, suspended, escaped>>

\* Mutant of StopsTracer: no kill after the timeout.
GivesUp == UNCHANGED <<pc, task, escaped>>

\* The tracer is killed.  Before PTRACE_SETOPTIONS the child is let go instead
\* of being killed with it.
StopsTracer ==
    IF pc = "start"
    THEN pc' = "done" /\ escaped' = TRUE /\ UNCHANGED task
    ELSE TracerGone /\ UNCHANGED escaped

\* The window is closed: stop() finds the tracer ended, or terminates it.
Quit ==
    /\ viewer = "watching"
    /\ IF pc = "done" THEN viewer' = "stopped" /\ UNCHANGED sigterm
                      ELSE viewer' = "stopping" /\ sigterm' = TRUE
    /\ UNCHANGED <<vars, pump, suspended, escaped>>

WaitReturns ==
    /\ viewer = "stopping" /\ pc = "done"
    /\ viewer' = "stopped"
    /\ UNCHANGED <<vars, pump, sigterm, suspended, escaped>>

\* TimeoutExpired: kill(), which a suspended process cannot put off.
WaitTimesOut ==
    /\ viewer = "stopping" /\ pc # "done"
    /\ StopsTracer
    /\ viewer' = "stopped"
    /\ UNCHANGED <<regime, rootCode, w, got, ntraced, initial_code, out, pump, sigterm, suspended>>

Crash ==
    /\ viewer \in {"watching", "stopping"}
    /\ viewer' = "crashed"
    /\ UNCHANGED <<vars, pump, sigterm, suspended, escaped>>

Viewer == Start \/ PumpReads \/ PumpEnds \/ Quit \/ WaitReturns \/ WaitTimesOut \/ Crash

-----------------------------------------------------------------------------
\* The tracer's process.
Started == viewer \notin {"starting", "refused"}
Runs == Started /\ ~suspended

\* Mutant of AboutToWrite: SIGPIPE is ignored and no write notices the pipe's end.
IgnoresPipe == FALSE

\* The handler's next step is a write.
AboutToWrite == pc = "handle" /\ (got = "zombie" \/ (got \notin {"start", "signal"} /\ Stopped(w)))

PipeOpen == viewer \notin Gone

TracerSteps ==
    /\ Runs /\ (AboutToWrite => PipeOpen)
    /\ Main
    /\ UNCHANGED sessionVars

\* A write after the last reader is gone: SIGPIPE.
PipeBreaks ==
    /\ Runs /\ AboutToWrite /\ ~PipeOpen
    /\ TracerGone
    /\ UNCHANGED <<regime, rootCode, w, got, ntraced, initial_code, out, sessionVars>>

Terminates ==
    /\ Runs /\ sigterm /\ pc # "done"
    /\ StopsTracer
    /\ sigterm' = FALSE
    /\ UNCHANGED <<regime, rootCode, w, got, ntraced, initial_code, out, viewer, pump, suspended>>

\* Job control (external).
Suspend ==
    /\ Runs /\ pc # "done"
    /\ suspended' = TRUE
    /\ UNCHANGED <<vars, viewer, pump, sigterm, escaped>>

Continue ==
    /\ suspended
    /\ suspended' = FALSE
    /\ UNCHANGED <<vars, viewer, pump, sigterm, escaped>>

Over == viewer \in Gone /\ (pc = "done" \/ viewer = "refused") /\ UNCHANGED allVars

Next ==
    \/ Viewer \/ TracerSteps \/ PipeBreaks \/ Terminates \/ Suspend \/ Continue
    \/ Started /\ ~escaped /\ (\E p \in Pid : Kernel(p)) /\ UNCHANGED sessionVars
    \/ Over

\* The tracer runs unless it is suspended, a signal reaches it, and stop() goes
\* on.  The pump need not read, nobody need resume the tracer, quit or call.
Fairness ==
    /\ WF_allVars(TracerSteps)
    /\ WF_allVars(PipeBreaks)
    /\ WF_allVars(Terminates)
    /\ WF_allVars(WaitReturns \/ WaitTimesOut)
    /\ \A p \in Pid : WF_allVars(ReportsFork(p) /\ UNCHANGED sessionVars)

Spec == SessionInit /\ [][Next]_allVars /\ Fairness
-----------------------------------------------------------------------------
(***************************************************************************)
(* Closing the window always ends: stop() returns, unless the viewer is    *)
(* killed in it, though the tracer may be suspended, or blocked on a pipe  *)
(* that nobody reads any more, or be ending by itself; and then the tracer *)
(* and every task it traced are gone; only a program whose tracing had not *)
(* begun is let go instead (live.py stop, PTRACE_O_EXITKILL).              *)
(***************************************************************************)
StopEndsAll ==
    viewer = "stopping" ~>
        \/ viewer = "crashed"
        \/ /\ viewer = "stopped" /\ pc = "done"
           /\ \A p \in Pid : Alive(p) => escaped /\ p = Root

\* A stop or an end the tracer has yet to write a line about.
Unwritten(p) == Waitable(p) /\ task[p].at \notin {"start", "signal"}

(***************************************************************************)
(* A viewer that is gone without stop() does not leave a program traced    *)
(* behind its back: the tracer's next line kills it, and with it the       *)
(* program, however full the pipe was and whether the pump was alive; a    *)
(* suspended tracer, or one whose tasks all block, stays.                  *)
(***************************************************************************)
CrashIsNoticed ==
    (viewer = "crashed" /\ \E p \in Pid : Unwritten(p)) ~>
        (suspended \/ (pc = "done" /\ \A p \in Pid : ~Alive(p)))
=============================================================================
