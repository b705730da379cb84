------------------------------ MODULE Director ------------------------------
(***************************************************************************)
(* The Director (director.py): a queue fed by the collector thread and     *)
(* polled by the display loop.  feed and poll each hold the same lock for  *)
(* their whole body, so each call is one step.                             *)
(***************************************************************************)
EXTENDS Integers, Sequences

CONSTANTS
    EnterEvent, ExitEvent, ProcessEvent,  \* events by what they set _last_phase to
    MIN_GAP_FRAMES, ENTER_HOLD_FRAMES,
    None                                  \* Python's None

Event == EnterEvent \cup ExitEvent \cup ProcessEvent

\* director.py:14-17; SPEC.md P2 calls the hold "larger" than the gap.
ASSUME GapsAssumption ==
    /\ MIN_GAP_FRAMES \in Nat \ {0}
    /\ ENTER_HOLD_FRAMES \in Nat
    /\ ENTER_HOLD_FRAMES > MIN_GAP_FRAMES

ASSUME NoneAssumption == None \notin Int /\ None \notin {"ENTER", "EXIT"}

ASSUME EventAssumption == EnterEvent \cap ExitEvent = {}

VARIABLES
    queue,         \* _queue
    last_release,  \* _last_release: a frame, None until the first release
    last_phase     \* _last_phase

directorVars == <<queue, last_release, last_phase>>

DirectorInit ==
    /\ queue = <<>>
    /\ last_release = None
    /\ last_phase = None

\* Mutant of PhaseOf: the phase of a release is not remembered.
PhaseLost(e) == None

\* event.phase if isinstance(event, SyscallEvent) else None
PhaseOf(e) == IF e \in EnterEvent THEN "ENTER"
              ELSE IF e \in ExitEvent THEN "EXIT" ELSE None

\* Mutants of Feed: appendleft for append; the list push returns, unopened.
FeedInFront(e) ==
    /\ queue' = <<e>> \o queue
    /\ UNCHANGED <<last_release, last_phase>>

FeedList(e) ==
    /\ queue' = Append(queue, <<e>>)
    /\ UNCHANGED <<last_release, last_phase>>

Feed(e) ==
    /\ queue' = Append(queue, e)
    /\ UNCHANGED <<last_release, last_phase>>

Gap == IF last_phase = "ENTER" THEN ENTER_HOLD_FRAMES ELSE MIN_GAP_FRAMES

\* Mutant of TooEarly: <= for <.
StillTooEarly(frame) == last_release # None /\ frame - last_release <= Gap

TooEarly(frame) == last_release # None /\ frame - last_release < Gap

\* Mutant of PollNothing: an early poll restarts the gap.
PollRestarts(frame) ==
    /\ queue = <<>> \/ TooEarly(frame)
    /\ last_release' = IF queue = <<>> THEN last_release ELSE frame
    /\ UNCHANGED <<queue, last_phase>>

\* poll returns [] and changes nothing.
PollNothing(frame) ==
    /\ queue = <<>> \/ TooEarly(frame)
    /\ UNCHANGED directorVars

\* Mutant of Release: the frame of the release is not recorded.
ReleaseUntimed(frame) ==
    /\ queue # <<>>
    /\ ~TooEarly(frame)
    /\ queue' = Tail(queue)
    /\ last_phase' = PhaseOf(Head(queue))
    /\ UNCHANGED last_release

\* poll returns [Head(queue)].
Release(frame) ==
    /\ queue # <<>>
    /\ ~TooEarly(frame)
    /\ queue' = Tail(queue)
    /\ last_release' = frame
    /\ last_phase' = PhaseOf(Head(queue))
=============================================================================
