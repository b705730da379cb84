------------------------------- MODULE Pacing -------------------------------
(***************************************************************************)
(* The Director between its two threads: the collector's pump thread calls *)
(* feed whenever an event was read, the display loop (app.py, App.step)    *)
(* calls poll once per frame and then advances the frame number.           *)
(*                                                                         *)
(* fed and log are history: what was fed and what was released, each with  *)
(* the frame the display was at.                                           *)
(***************************************************************************)
EXTENDS Director

VARIABLES
    frame,   \* App.frame
    at,      \* the display loop is about to "poll" or to "advance" the frame
    fed,     \* every feed so far, [event, frame]
    log      \* every release so far, [event, frame]

vars == <<queue, last_release, last_phase, frame, at, fed, log>>

Init ==
    /\ DirectorInit
    /\ frame = 0
    /\ at = "poll"
    /\ fed = <<>>
    /\ log = <<>>

CollectorFeed(e) ==
    /\ Feed(e)
    /\ fed' = Append(fed, [event |-> e, frame |-> frame])
    /\ UNCHANGED <<frame, at, log>>

PollReleases ==
    /\ at = "poll"
    /\ Release(frame)
    /\ at' = "advance"
    /\ log' = Append(log, [event |-> Head(queue), frame |-> frame])
    /\ UNCHANGED <<frame, fed>>

PollReturnsNothing ==
    /\ at = "poll"
    /\ PollNothing(frame)
    /\ at' = "advance"
    /\ UNCHANGED <<frame, fed, log>>

\* The rest of App.step: self.frame += 1.
Advance ==
    /\ at = "advance"
    /\ frame' = frame + 1
    /\ at' = "poll"
    /\ UNCHANGED <<queue, last_release, last_phase, fed, log>>

Next ==
    \/ \E e \in Event : CollectorFeed(e)
    \/ PollReleases
    \/ PollReturnsNothing
    \/ Advance

\* The display loop runs on: pyxel calls update, and so App.step, for ever.
\* Nothing is assumed of the collector.
Fairness == WF_vars(PollReleases) /\ WF_vars(PollReturnsNothing) /\ WF_vars(Advance)

SafeSpec == Init /\ [][Next]_vars
Spec == SafeSpec /\ Fairness
-----------------------------------------------------------------------------
Stamped == [event : Event, frame : Nat]

\* What the Director's fields and the histories hold (director.py __init__).
TypeOK ==
    /\ queue \in Seq(Event)
    /\ last_release \in Nat \cup {None}
    /\ last_phase \in {"ENTER", "EXIT", None}
    /\ frame \in Nat
    /\ at \in {"poll", "advance"}
    /\ fed \in Seq(Stamped)
    /\ log \in Seq(Stamped)

Hold(e) == IF e \in EnterEvent THEN ENTER_HOLD_FRAMES ELSE MIN_GAP_FRAMES

\* P1: what was fed is what was released followed by what still waits, in
\* order: no event is lost, doubled or overtaken, however feeds and polls
\* interleave (director.py feed and poll).
ExactlyOnceInOrder ==
    /\ Len(fed) = Len(log) + Len(queue)
    /\ \A i \in 1..Len(log) : fed[i].event = log[i].event
    /\ \A i \in 1..Len(queue) : fed[Len(log) + i].event = queue[i]

\* P2: two consecutive releases are as many frames apart as the first asks
\* for: the hold after an ENTER, the gap after anything else (director.py poll).
Paced ==
    \A i \in 1..(Len(log) - 1) :
        log[i + 1].frame - log[i].frame >= Hold(log[i].event)

\* The pacing is the only delay: an event is released by the frame after it
\* was fed, or the very frame the previous release's hold runs out, whichever
\* is later (director.py poll looks at the queue every frame and keeps no
\* other timer).
Prompt ==
    \A i \in 1..Len(log) :
        \/ log[i].frame <= fed[i].frame + 1
        \/ i > 1 /\ log[i].frame <= log[i - 1].frame + Hold(log[i - 1].event)
-----------------------------------------------------------------------------
\* P1 and P2 as an abstract channel: the frames still to wait are what is
\* left of the last release's gap.
WaitLeft ==
    IF last_release = None \/ frame - last_release >= Gap
    THEN 0 ELSE Gap - (frame - last_release)

Channel == INSTANCE PacedChannel WITH
    sent <- [i \in 1..Len(fed) |-> fed[i].event],
    delivered <- [i \in 1..Len(log) |-> log[i].event],
    wait <- WaitLeft

\* The Director implements the paced channel: every feed is a Send, every
\* release a Deliver, every frame a FramePasses, and nothing else happens.
ImplementsChannel == Channel!SafeSpec
=============================================================================
