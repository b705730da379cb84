---------------------------- MODULE PacedChannel ----------------------------
(***************************************************************************)
(* What the playback side is promised about the stream of events           *)
(* (SPEC.md P1 and P2), without the queue, the lock and the frame          *)
(* numbers the Director uses to keep the promise: whatever is sent is      *)
(* delivered once, in order, and after a delivery nothing is delivered     *)
(* until as many frames have passed as that delivery asks for.             *)
(***************************************************************************)
EXTENDS Integers, Sequences

CONSTANTS
    EnterEvent,        \* the SyscallEvents whose phase is ENTER
    ExitEvent,         \* the SyscallEvents whose phase is EXIT
    ProcessEvent,      \* SpawnEvents and ExitEvents: no phase
    MIN_GAP_FRAMES,    \* frames kept free after any delivery
    ENTER_HOLD_FRAMES  \* frames kept free after the delivery of an ENTER

Event == EnterEvent \cup ExitEvent \cup ProcessEvent

GapAfter(e) == IF e \in EnterEvent THEN ENTER_HOLD_FRAMES ELSE MIN_GAP_FRAMES

VARIABLES
    sent,       \* every event handed to the channel, in order
    delivered,  \* every event handed out of it, in order
    wait        \* frames that must still pass before the next delivery

vars == <<sent, delivered, wait>>

Init == sent = <<>> /\ delivered = <<>> /\ wait = 0

Send(e) ==
    /\ sent' = Append(sent, e)
    /\ UNCHANGED <<delivered, wait>>

Deliver ==
    /\ wait = 0
    /\ Len(delivered) < Len(sent)
    /\ LET e == sent[Len(delivered) + 1]
       IN  /\ delivered' = Append(delivered, e)
           /\ wait' = GapAfter(e)
    /\ UNCHANGED sent

FramePasses ==
    /\ wait' = IF wait > 0 THEN wait - 1 ELSE 0
    /\ UNCHANGED <<sent, delivered>>

Next ==
    \/ \E e \in Event : Send(e)
    \/ Deliver
    \/ FramePasses

SafeSpec == Init /\ [][Next]_vars

Spec == SafeSpec /\ WF_vars(Deliver) /\ WF_vars(FramePasses)
=============================================================================
