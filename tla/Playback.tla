------------------------------ MODULE Playback ------------------------------
(***************************************************************************)
(* App.step frame by frame (app.py): poll the source, apply a released     *)
(* event to the world, notify the scene, step the scene, draw.             *)
(*                                                                         *)
(* The source is the Director seen as a PacedChannel: wait is the number   *)
(* of frames before the next release.  It releases the calls of tasks as   *)
(* a tracer observes them: a task enters and leaves one call at a time, a  *)
(* fork that succeeds spawns one child, and a task may die at any time.    *)
(***************************************************************************)
EXTENDS Scene

CONSTANTS
    MIN_GAP_FRAMES, ENTER_HOLD_FRAMES,
    Root,         \* the task that is traced from its start
    Released,     \* the events that may be released
    MaxQuiet,     \* where the count of quiet frames stops
    MaxResultAge  \* where the count of a result's frames stops

\* A run starts with the program's own pid or with the unknown one.
ASSUME RootAssumption == Root \in Pid /\ INITIAL_PID \in {0, Root}

\* The decoder gives every EXIT its value.
ASSUME ReleasedAssumption ==
    /\ Released \subseteq EnterEvent \cup ExitEvent \cup SpawnEvent \cup DeathEvent
    /\ \A e \in Released : e.kind = "EXIT" => e.result # None

ASSUME FramesAssumption ==
    MIN_GAP_FRAMES \in Nat /\ ENTER_HOLD_FRAMES \in Nat /\ MaxQuiet \in Nat /\ MaxResultAge \in Nat

\* The call a task is in, and what is remembered of the last syscall event.
Call == [name : CallName, forked : BOOLEAN]
Observed == [event : EnterEvent \cup ExitEvent, completes : BOOLEAN]

ASSUME NoCallAssumption == None \notin Call /\ None \notin Observed

VARIABLES
    at,       \* the frame is about to "poll" or to "step"
    wait,     \* frames before the Director may release again
    calling,  \* alive task -> the call it is in and whether it forked, or None
    quiet,    \* history: frames since the last syscall event, up to MaxQuiet
    last,     \* history: that event, and whether it is the EXIT of the ENTER
              \* right before it; None before the first
    behind,   \* history: frames since the boxes drawn last are not those of the
              \* world any more, up to MIN_GAP_FRAMES
    resultAge \* history: frames since the last result, up to MaxResultAge

historyVars == <<quiet, last, behind, resultAge>>
vars == <<worldVars, sceneVars, at, wait, calling, historyVars>>

\* Frames in which a failure has to come home and fade (R6, "a short frame
\* budget"): the trip and the fade, and as much again.
FADE_BUDGET == 2 * (RETURN_FRAMES + FAIL_RESULT_TTL)

Init ==
    /\ WorldInit
    /\ SceneInit
    /\ at = "poll"
    /\ wait = 0
    /\ calling = Put(EmptyDict, Root, None)
    /\ quiet = 0
    /\ last = None
    /\ behind = 0
    /\ resultAge = 0

InCall(p) == p \in DOMAIN calling /\ calling[p] # None

\* The kernel's side of an event, and whether it can happen next.
Happens(e) ==
    \/ /\ e.kind = "ENTER"
       /\ e.pid \in DOMAIN calling /\ calling[e.pid] = None
       /\ calling' = [calling EXCEPT ![e.pid] = [name |-> e.name, forked |-> FALSE]]
    \/ /\ e.kind = "EXIT"
       /\ InCall(e.pid) /\ calling[e.pid].name = e.name
       /\ e.name = "fork" => (e.result >= 0 <=> calling[e.pid].forked)
       /\ calling' = [calling EXCEPT ![e.pid] = None]
    \/ /\ e.kind = "SPAWN"
       /\ InCall(e.parent) /\ calling[e.parent] = [name |-> "fork", forked |-> FALSE]
       /\ e.child \notin DOMAIN calling
       /\ calling' = Put([calling EXCEPT ![e.parent].forked = TRUE], e.child, None)
    \/ /\ e.kind = "DEATH"
       /\ e.pid \in DOMAIN calling
       /\ calling' = Drop(calling, e.pid)

IsSyscall(e) == e.kind \in {"ENTER", "EXIT"}

\* e is the EXIT of the ENTER that was the syscall event before it.
Completes(e) ==
    e.kind = "EXIT" /\ last # None /\ last.event.kind = "ENTER" /\ last.event.pid = e.pid

Release(e) ==
    /\ at = "poll" /\ wait = 0
    /\ Happens(e)
    /\ Apply(e)
    /\ Notify(e)
    /\ wait' = IF e.kind = "ENTER" THEN ENTER_HOLD_FRAMES ELSE MIN_GAP_FRAMES
    /\ at' = "step"
    /\ IF IsSyscall(e)
       THEN quiet' = 0 /\ last' = [event |-> e, completes |-> Completes(e)]
       ELSE UNCHANGED <<quiet, last>>
    /\ IF e.kind = "EXIT" /\ e.pid = initialPid
       THEN resultAge' = 0 ELSE UNCHANGED resultAge
    /\ UNCHANGED behind

\* The rest of App.step after a release, or all of it when poll returns nothing.
Frame ==
    /\ Step
    /\ at' = "poll"
    /\ wait' = IF wait > 0 THEN wait - 1 ELSE 0
    /\ quiet' = IF quiet < MaxQuiet THEN quiet + 1 ELSE quiet
    /\ behind' = IF rects = Boxes THEN 0
               ELSE IF behind < MIN_GAP_FRAMES THEN behind + 1 ELSE behind
    /\ resultAge' = IF resultAge < MaxResultAge THEN resultAge + 1 ELSE resultAge
    /\ UNCHANGED <<worldVars, calling, last>>

\* The draw callback, between any two calls of App.step, or not.
Draw ==
    /\ at = "poll"
    /\ Render
    /\ behind' = 0
    /\ UNCHANGED <<worldVars, at, wait, calling, quiet, last, resultAge>>

Next == (\E e \in Released : Release(e)) \/ Frame \/ Draw

Spec == Init /\ [][Next]_vars

Drawn == at = "poll"  \* between two frames, when a render shows the scene
LastWas(kind) == last # None /\ last.event.kind = kind
-----------------------------------------------------------------------------
PulseType ==
    [name : CallName, path : Path \cup {None}, fd : Number \cup {None},
     state : {"DESCEND", "WAIT", "RETURN"}, t : 0..DESCEND_FRAMES,
     target_x : 0..WIDTH, origin_x : 0..WIDTH, x : 0..(WIDTH * PX),
     y : (ORIGIN_Y * PX)..(REST_Y * PX), return_from : (ORIGIN_Y * PX)..(REST_Y * PX),
     result : Result \cup {None}]

\* What the scene's fields hold: the pulse stays between its origin and its
\* resting place, and no ring or split outlives its time (scene.py step).
SceneTypeOK ==
    /\ pulse \in PulseType \cup {None}
    /\ rings \in Seq([x : 0..WIDTH, y : PROC_Y..REST_Y, age : 0..(RING_TTL - 1)])
    /\ splits \in Seq([parent : Pid, child : Pid, age : 0..(SPLIT_TTL - 1)])
    /\ DOMAIN rects \subseteq Pid \cup {0}
    /\ shownAge \in 0..(FAIL_RESULT_TTL + 1) \cup {None}
    /\ status # None => status.name \in CallName /\ status.age \in 0..(STATUS_TTL + 1)

(***************************************************************************)
(* P2: the hold after an ENTER is long enough for its pulse to "descend    *)
(* fully into kernel space": no later event, of whatever process, replaces *)
(* or turns back a pulse that is still on its way down.                    *)
(***************************************************************************)
DescentUndisturbed ==
    [][pulse # None /\ pulse.state = "DESCEND" => pulse' \in {pulse, Descended}]_vars

(***************************************************************************)
(* R3, R4 and R9: the pulse of the last ENTER, whatever tasks did before,  *)
(* is below the boundary before anything else may be released and so well  *)
(* within 30 frames; and a pulse waits there, for as long as no event      *)
(* follows, exactly when the last syscall event was an ENTER, under its    *)
(* name and in the zone of that name if it has one, even when its task     *)
(* died in the call.                                                       *)
(***************************************************************************)
LastEnterShown ==
    Drawn =>
        /\ LastWas("ENTER") /\ quiet >= 10 => PulseBelow
        /\ quiet >= DESCEND_FRAMES => (PulseWaits <=> LastWas("ENTER"))
        /\ PulseWaits /\ LastWas("ENTER") =>
             /\ pulse.name = last.event.name
             /\ classify(pulse.name) \in DOMAIN ZONE_ORDER =>
                   HotZones(pulse.x \div PX) = {classify(pulse.name)}

(***************************************************************************)
(* R5, "within 30 frames of an EXIT, no pulse remains below the boundary", *)
(* and "once the pulse has returned" nothing of the syscall is left there: *)
(* 30 frames after an EXIT with no syscall since, of any process.          *)
(***************************************************************************)
SettlesAfterExit ==
    Drawn /\ LastWas("EXIT") /\ quiet >= 30 => pulse = None /\ ~RingBelow

(***************************************************************************)
(* R5 and R6: the result of a call of the initial process, whose EXIT was  *)
(* the next syscall event after its ENTER, is on the screen from the       *)
(* moment its pulse landed: a success stays, a failure fades 30 frames on. *)
(***************************************************************************)
ResultAfterReturn ==
    Drawn /\ last # None /\ last.completes /\ last.event.pid = initialPid
          /\ quiet >= RETURN_FRAMES =>
        (ResultShown <=> last.event.result >= 0 \/ quiet <= RETURN_FRAMES + FAIL_RESULT_TTL)

(***************************************************************************)
(* R11: "each completion replaces the previous line", so the status line   *)
(* gives the name and the result of the last call, of whichever task, when *)
(* nothing came between its ENTER and its EXIT.                            *)
(***************************************************************************)
StatusIsLastCall ==
    last # None /\ last.completes =>
        /\ status # None /\ status.name = last.event.name
        /\ status.token = format_result(last.event.name, last.event.result)

(***************************************************************************)
(* What is drawn is what the kernel has: a box for each live task, in the  *)
(* call it is in, and one more for the initial process that died (S11),    *)
(* through adoption of the first pid, forks, deaths inside a call and pids *)
(* that come back.                                                         *)
(***************************************************************************)
BoxesTellTheTruth ==
    IF initialPid = 0 THEN DOMAIN processes = {0}
    ELSE /\ DOMAIN processes = DOMAIN calling \cup {initialPid}
         /\ \A p \in DOMAIN calling :
               processes[p].in_syscall = IF InCall(p) THEN calling[p].name ELSE None

(***************************************************************************)
(* SPEC.md "A syscall's pulse originates from the box of the process whose *)
(* event it is": the box as laid out for the world the ENTER led to,       *)
(* though the code looks it up among the boxes of the last render, which   *)
(* any number of frames may have gone without.  It is so as long as no     *)
(* MIN_GAP_FRAMES frames in a row leave boxes that moved undrawn, as then  *)
(* one draw comes between any two releases.                                *)
(***************************************************************************)
PulseFromItsBox ==
    at = "step" /\ LastWas("ENTER") /\ quiet = 0 /\ behind < MIN_GAP_FRAMES =>
        pulse.origin_x = CenterOf(Boxes[last.event.pid])

(***************************************************************************)
(* R13 with R12: nudges of successive splits never add up to push a box    *)
(* off the screen; the pacing keeps the splits of one process apart.       *)
(***************************************************************************)
NudgedOnScreen ==
    Drawn => LET boxes == NudgedBoxes
             IN  \A p \in DOMAIN boxes : boxes[p].x >= 0 /\ boxes[p].x + boxes[p].w <= WIDTH

(***************************************************************************)
(* R6: a failed result "is transient: it fades within a short frame budget *)
(* instead of persisting", here FADE_BUDGET frames.                        *)
(***************************************************************************)
FailureFades ==
    Drawn /\ ResultShown /\ processes[initialPid].last_result < 0 => resultAge < FADE_BUDGET
=============================================================================
