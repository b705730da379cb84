------------------------------- MODULE Scene --------------------------------
(***************************************************************************)
(* The Scene (scene.py): the one pulse that animates a syscall, the rings  *)
(* and splits, the status line, and what render decides to show.  notify   *)
(* and step advance it; render may come at any time between them, or not   *)
(* at all, and changes nothing but the record of the boxes it drew.        *)
(*                                                                         *)
(* The pulse is placed in thousandths of a pixel, so the easing curve is   *)
(* computed in integers.  _frame - _since is kept as an age, up to the     *)
(* first value at which the code no longer tells ages apart.  Left out:    *)
(* the idle wobble and ripple of a waiting pulse, trails and colors.       *)
(***************************************************************************)
EXTENDS Layout, Results, Sequences

PX == 1000
ORIGIN_Y == PROC_Y + PROC_H
REST_Y == 178
SlowDescent == 24        \* mutant of DESCEND_FRAMES: slower than the hold
DESCEND_FRAMES == 18
RETURN_FRAMES == 14
RING_TTL == 10
SPLIT_TTL == 24
FAIL_RESULT_TTL == 30

CONSTANT STATUS_TTL  \* frames the status line is drawn for, 90 in the code

ASSUME StatusAssumption == STATUS_TTL \in Nat

VARIABLES
    pulse,      \* _pulse, None or the one in-flight syscall
    rings,      \* _rings: sequence of [x, y, age]
    splits,     \* _splits: sequence of [parent, child, age]
    rects,      \* _rects: pid -> its box in the latest render
    shownAge,   \* _frame - _result_shown_since, None while that is None
    status      \* _status_msg and its age, None while there is none

sceneVars == <<pulse, rings, splits, rects, shownAge, status>>

SceneInit ==
    /\ pulse = None
    /\ rings = <<>>
    /\ splits = <<>>
    /\ rects = EmptyDict
    /\ shownAge = None
    /\ status = None

\* The dataclass _Pulse, and the message in the status line with the forms a
\* value takes there.
AnyPulse ==
    [name : CallName, path : Path \cup {None}, fd : Number \cup {None},
     state : {"DESCEND", "WAIT", "RETURN"}, t : Nat, target_x : Int, origin_x : Int,
     x : Int, y : Int, return_from : Int, result : Result \cup {None}]
Worded == {"errno name", "errno number", "address", "bytes", "fd", "number"}
AnyStatus ==
    [name : CallName, age : Nat, token : [value : Result, as : Worded],
     arg : [path : Path \cup {None}, fd : Number \cup {None}]]

ASSUME NoPulseAssumption == None \notin AnyPulse /\ None \notin AnyStatus

\* _box_rect, with its fallback for a pid that has not been drawn yet.
BoxRect(pid) == IF pid \in DOMAIN rects THEN rects[pid] ELSE LoneBox

OriginX(pid) == CenterOf(BoxRect(pid))

NewPulse(e) ==
    [name |-> e.name, target_x |-> zone_center(classify(e.name)), origin_x |-> OriginX(e.pid),
     path |-> e.path, fd |-> e.fd, state |-> "DESCEND", t |-> 0, x |-> OriginX(e.pid) * PX,
     y |-> ORIGIN_Y * PX, return_from |-> REST_Y * PX, result |-> None]

Ring(x, y) == [x |-> x, y |-> y, age |-> 0]

\* _lerp(from, to, _ease(t / frames)), the smoothstep.
Eased(from, to, t, frames) ==
    from + ((to - from) * (t * t * (3 * frames - 2 * t))) \div (frames * frames * frames)

-----------------------------------------------------------------------------
\* notify(e), after the world applied e.
\* Mutant of NewSplits: the scene is notified of both ends of a spawn.
SplitsOfBoth(e) ==
    <<[parent |-> e.parent, child |-> e.child, age |-> 0],
      [parent |-> e.parent, child |-> e.child, age |-> 0]>>

NewSplits(e) == <<[parent |-> e.parent, child |-> e.child, age |-> 0]>>

NotifySpawn(e) ==
    /\ splits' = splits \o NewSplits(e)
    /\ UNCHANGED <<pulse, rings, rects, shownAge, status>>

\* The poof of a box that was drawn, at its middle.
NotifyDeath(e) ==
    /\ rings' = IF e.pid \in DOMAIN rects
                THEN Append(rings, Ring(CenterOf(rects[e.pid]),
                                        rects[e.pid].y + rects[e.pid].h \div 2))
                ELSE rings
    /\ UNCHANGED <<pulse, splits, rects, shownAge, status>>

\* Mutant of PulseAfter: the pulse there is goes on.
PulseWaitsItsTurn(e) == IF pulse = None THEN NewPulse(e) ELSE pulse

\* A new pulse takes the place of whatever pulse there is.
PulseAfter(e) == NewPulse(e)

NotifyEnter(e) ==
    /\ pulse' = PulseAfter(e)
    /\ UNCHANGED <<rings, splits, rects, shownAge, status>>

\* Mutant of TurnedBack: the pulse is marked but not turned.
StaysDown(result) == [pulse EXCEPT !.result = result]

TurnedBack(result) ==
    [pulse EXCEPT !.state = "RETURN", !.t = 0, !.return_from = pulse.y, !.result = result]

\* The line name(arg) = value, where the path goes before the descriptor.
StatusAfter(result) ==
    [name |-> pulse.name, age |-> 0, token |-> format_result(pulse.name, result),
     arg |-> [path |-> pulse.path, fd |-> IF pulse.path # None THEN None ELSE pulse.fd]]

\* Mutant of StatusOf: a failure leaves the status line alone.
StatusOfSuccess(result) == IF result < 0 THEN status ELSE StatusAfter(result)
StatusOf(result) == StatusAfter(result)

NotifyExit(e) ==
    IF pulse = None THEN UNCHANGED sceneVars
    ELSE LET result == IF e.result # None THEN e.result ELSE 0
         IN  /\ pulse' = TurnedBack(result)
             /\ rings' = Append(rings, Ring(pulse.x \div PX, pulse.y \div PX))
             /\ status' = StatusOf(result)
             /\ UNCHANGED <<splits, rects, shownAge>>

Notify(e) ==
    \/ e.kind = "SPAWN" /\ NotifySpawn(e)
    \/ e.kind = "DEATH" /\ NotifyDeath(e)
    \/ e.kind = "ENTER" /\ NotifyEnter(e)
    \/ e.kind = "EXIT" /\ NotifyExit(e)

-----------------------------------------------------------------------------
\* step(): every age advances, the old effects go, the pulse moves.
\* Mutant of Lasts: <= for <.
LastsTooLong(age, ttl) == age <= ttl
Lasts(age, ttl) == age < ttl

Aged(effects, ttl) ==
    LET older == [i \in 1..Len(effects) |-> [effects[i] EXCEPT !.age = @ + 1]]
        kept[n \in 0..Len(effects)] ==
            IF n = 0 THEN <<>>
            ELSE IF Lasts(older[n].age, ttl) THEN Append(kept[n - 1], older[n]) ELSE kept[n - 1]
    IN  kept[Len(effects)]

\* Mutant of Older: the frame is not counted.
TimeStands(age, cap) == age

Older(age, cap) == IF age = None \/ age > cap THEN age ELSE age + 1

Descended ==
    LET t == pulse.t + 1
        Way(from, to) == Eased(from * PX, to * PX, t, DESCEND_FRAMES)
    IN  IF t < DESCEND_FRAMES
        THEN [pulse EXCEPT !.t = t, !.x = Way(pulse.origin_x, pulse.target_x),
                           !.y = Way(ORIGIN_Y, REST_Y)]
        ELSE [pulse EXCEPT !.t = 0, !.x = pulse.target_x * PX, !.y = REST_Y * PX,
                           !.state = "WAIT"]

StepDescend ==
    /\ pulse' = Descended
    /\ rings' = IF pulse.y <= BOUNDARY_Y * PX /\ BOUNDARY_Y * PX < Descended.y
                THEN Append(Aged(rings, RING_TTL), Ring(Descended.x \div PX, BOUNDARY_Y))
                ELSE Aged(rings, RING_TTL)
    /\ shownAge' = Older(shownAge, FAIL_RESULT_TTL)

\* Mutant of LandingAge: the moment a result is shown is not recorded.
LandingUnrecorded == Older(shownAge, FAIL_RESULT_TTL)
LandingAge == 0

\* On its last frame the pulse lands and the result it brings is shown.
StepReturn ==
    LET t == pulse.t + 1
    IN  IF t < RETURN_FRAMES
        THEN /\ pulse' = [pulse EXCEPT !.t = t,
                    !.x = Eased(pulse.target_x * PX, pulse.origin_x * PX, t, RETURN_FRAMES),
                    !.y = Eased(pulse.return_from, ORIGIN_Y * PX, t, RETURN_FRAMES)]
             /\ rings' = Aged(rings, RING_TTL)
             /\ shownAge' = Older(shownAge, FAIL_RESULT_TTL)
        ELSE /\ pulse' = None
             /\ rings' = Append(Aged(rings, RING_TTL), Ring(pulse.origin_x, ORIGIN_Y))
             /\ shownAge' = LandingAge

StepStill ==
    /\ rings' = Aged(rings, RING_TTL)
    /\ shownAge' = Older(shownAge, FAIL_RESULT_TTL)
    /\ UNCHANGED pulse

Step ==
    /\ \/ pulse # None /\ pulse.state = "DESCEND" /\ StepDescend
       \/ pulse # None /\ pulse.state = "RETURN" /\ StepReturn
       \/ pulse # None /\ pulse.state = "WAIT" /\ StepStill
       \/ pulse = None /\ StepStill
    /\ splits' = Aged(splits, SPLIT_TTL)
    /\ status' = IF status = None THEN None
                 ELSE [status EXCEPT !.age = Older(@, STATUS_TTL)]
    /\ UNCHANGED rects

-----------------------------------------------------------------------------
\* render(world): what it draws is a function of the world and the scene; what
\* it leaves is the record of the boxes, which notify looks at.
\* Mutant of DrawnBoxes: a box stays where it was first drawn.
BoxesStay == [p \in DOMAIN processes |-> IF p \in DOMAIN rects THEN rects[p] ELSE Boxes[p]]
DrawnBoxes == Boxes

Render ==
    /\ rects' = DrawnBoxes
    /\ UNCHANGED <<pulse, rings, splits, shownAge, status>>

PulseBelow == pulse # None /\ pulse.y > BOUNDARY_Y * PX
PulseWaits == pulse # None /\ pulse.state = "WAIT"

RingBelow == \E i \in 1..Len(rings) : rings[i].y > BOUNDARY_Y

Faded == shownAge # None /\ shownAge > FAIL_RESULT_TTL

\* _draw_result, for the initial process.
ResultShown ==
    LET result == processes[initialPid].last_result
    IN  /\ result # None
        /\ ~(pulse # None /\ pulse.state = "RETURN")
        /\ ~(result < 0 /\ Faded)

StatusShown == status # None /\ status.age <= STATUS_TTL

\* round(6 * frac), by the last age at which each number of pixels is drawn.
Amplitude(split) == Cardinality({age \in {2, 5, 9, 13, 18, 22} : split.age <= age})

SplitOffset(pid) ==
    LET nudge(split) == CASE split.child = pid -> Amplitude(split)
                          [] split.child # pid /\ split.parent = pid -> -Amplitude(split)
                          [] OTHER -> 0
        total[n \in 0..Len(splits)] == IF n = 0 THEN 0 ELSE total[n - 1] + nudge(splits[n])
    IN  total[Len(splits)]

\* Where _draw_process puts the boxes.
NudgedBoxes ==
    LET boxes == DrawnBoxes
    IN  [p \in DOMAIN boxes |-> [boxes[p] EXCEPT !.x = @ + SplitOffset(p)]]
=============================================================================
