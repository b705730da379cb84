-------------------------------- MODULE Demo --------------------------------
(***************************************************************************)
(* The demo (__main__.py run_demo): the app over a ScriptedSource          *)
(* (source.py) that plays a story of sh and ls over and over.              *)
(***************************************************************************)
EXTENDS Scene

CONSTANT MaxRounds  \* rounds after which frames are counted modulo the period

ASSUME RoundsAssumption == MaxRounds \in Nat \ {0}

VARIABLES
    frame,   \* App.frame
    at,      \* the frame is about to "poll" or to "step"
    closing  \* history: what was left after the first round, None before

vars == <<worldVars, sceneVars, frame, at, closing>>

SHELL == 1234
CHILD == 1235

Enter(pid, name, path, fd) ==
    [kind |-> "ENTER", pid |-> pid, name |-> name, path |-> path, fd |-> fd, args |-> <<>>]
Exit(pid, name, result) == [kind |-> "EXIT", pid |-> pid, name |-> name, result |-> result]

SCRIPT == <<
    << 20, Enter(SHELL, "openat", <<"", "etc", "profile">>, None)>>,
    << 35, Exit(SHELL, "openat", 3)>>,
    << 55, Enter(SHELL, "read", None, 3)>>,
    << 75, Exit(SHELL, "read", 64)>>,
    << 95, Enter(SHELL, "fork", None, None)>>,
    <<120, Exit(SHELL, "fork", CHILD)>>,
    <<124, [kind |-> "SPAWN", parent |-> SHELL, child |-> CHILD]>>,
    <<150, Enter(CHILD, "execve", <<"", "bin", "ls">>, None)>>,
    <<175, Exit(CHILD, "execve", 0)>>,
    <<200, Enter(CHILD, "openat", <<".">>, None)>>,
    <<220, Exit(CHILD, "openat", 3)>>,
    <<240, Enter(CHILD, "getdents64", None, 3)>>,
    <<265, Exit(CHILD, "getdents64", 512)>>,
    <<285, Enter(CHILD, "write", None, 1)>>,
    <<305, Exit(CHILD, "write", 512)>>,
    <<315, [kind |-> "DEATH", pid |-> CHILD]>>,
    <<325, Enter(SHELL, "wait4", None, None)>>,
    <<345, Exit(SHELL, "wait4", CHILD)>> >>

When(i) == SCRIPT[i][1]
What(i) == SCRIPT[i][2]

NoPause == 0   \* mutant of LOOP_PAUSE
LOOP_PAUSE == 60
PERIOD == When(Len(SCRIPT)) + LOOP_PAUSE

\* Mutant of Due: the script is not repeated.
DueOnce(f) == {i \in 1..Len(SCRIPT) : When(i) = f}

\* The entries poll(f) returns: at most one, as no two share a frame.
Due(f) == {i \in 1..Len(SCRIPT) : When(i) = f % PERIOD}

ASSUME ScriptAssumption == \A i, j \in 1..Len(SCRIPT) : i < j => When(i) < When(j)

Init ==
    /\ WorldInit
    /\ SceneInit
    /\ frame = 0
    /\ at = "poll"
    /\ closing = None

\* The world, and what the scene carries into the next frame, the record of
\* the boxes drawn last apart: how old that is depends on the draw callback.
Everything == <<worldVars, pulse, rings, splits, shownAge, status>>

PollsEvent ==
    /\ at = "poll"
    /\ \E i \in Due(frame) : Apply(What(i)) /\ Notify(What(i))
    /\ at' = "step"
    /\ UNCHANGED <<frame, closing>>

PollsNothing ==
    /\ at = "poll" /\ Due(frame) = {}
    /\ at' = "step"
    /\ UNCHANGED <<worldVars, sceneVars, frame, closing>>

Frame ==
    /\ at = "step"
    /\ Step
    /\ at' = "poll"
    /\ frame' = IF frame + 1 = (MaxRounds + 1) * PERIOD THEN MaxRounds * PERIOD ELSE frame + 1
    /\ UNCHANGED worldVars
    /\ closing' = IF frame + 1 = PERIOD THEN Everything' ELSE closing

\* The draw callback, between any two calls of App.step, or not.
Draw ==
    /\ at = "poll"
    /\ Render
    /\ UNCHANGED <<worldVars, frame, at, closing>>

Next == PollsEvent \/ PollsNothing \/ Frame \/ Draw

Spec == Init /\ [][Next]_vars
-----------------------------------------------------------------------------
(***************************************************************************)
(* The story can be played for ever: every round leaves the world and the  *)
(* scene as the first one did, which began with nothing; no process, call, *)
(* descriptor, pulse or effect of one round reaches into those after the   *)
(* next (source.py poll, modulo the period).                               *)
(***************************************************************************)
RoundsAlike == at = "poll" /\ frame % PERIOD = 0 /\ frame > 0 => Everything = closing

\* The frame's event, when it is one of this kind.
Coming(kind, e) == at = "poll" /\ \E i \in Due(frame) : e = What(i) /\ e.kind = kind
ScriptEvents == {What(i) : i \in 1..Len(SCRIPT)}

(***************************************************************************)
(* __main__.py "Paced so the structural moments, fork and execve, are      *)
(* legible": the pulse of either waits in the kernel before it returns; no *)
(* pulse is replaced before it landed; the split has settled when the      *)
(* child makes its first call; the child is ls from its execve to its end; *)
(* and a round ends with sh alone, idle, in its first place.               *)
(***************************************************************************)
MomentsLegible ==
    /\ \A e \in ScriptEvents :
          /\ Coming("EXIT", e) => pulse # None /\ pulse.name = e.name
          /\ Coming("EXIT", e) /\ e.name \in {"fork", "execve"} => PulseWaits
          /\ Coming("ENTER", e) => pulse = None /\ splits = <<>>
          /\ Coming("ENTER", e) /\ e.pid = CHILD /\ e.name # "execve" =>
                processes[CHILD].name = "ls" /\ Boxes[CHILD].y > Boxes[SHELL].y
          /\ Coming("DEATH", e) => processes[e.pid].in_syscall = None
    /\ at = "poll" /\ frame % PERIOD = 0 /\ frame > 0 =>
          /\ Boxes = [p \in {SHELL} |-> LoneBox] /\ pulse = None /\ rings = <<>>
          /\ processes[SHELL].in_syscall = None /\ processes[SHELL].name = "sh"

\* Frames since entry i was last played, the current one not counted.
Since(i) == ((frame - 1 - When(i)) % PERIOD) + 1

(***************************************************************************)
(* R11 over the whole story: the status line gives the call that completed *)
(* last with the argument of its own ENTER and what its result stands for, *)
(* and goes when STATUS_TTL frames passed without another, also across the *)
(* end of a round.                                                         *)
(***************************************************************************)
StatusTold ==
    \A i \in 2..Len(SCRIPT) :
        LET enter == What(i - 1)
            latest == /\ What(i).kind = "EXIT" /\ frame > When(i)
                      /\ \A j \in 1..Len(SCRIPT) : What(j).kind = "EXIT" => Since(i) <= Since(j)
        IN  at = "poll" /\ latest =>
              /\ StatusShown <=> Since(i) <= STATUS_TTL
              /\ status.name = enter.name /\ status.arg = [path |-> enter.path, fd |-> enter.fd]
              /\ status.token = format_result(enter.name, What(i).result)
=============================================================================
