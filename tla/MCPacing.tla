------------------------------ MODULE MCPacing ------------------------------
\* Pacing with bounded feeding: at most MaxFed events, all of them before
\* frame LastFeedFrame, and enough frames after it to release them all.
EXTENDS Pacing, TLC

CONSTANTS MaxFed, LastFeedFrame

MaxFrame == LastFeedFrame + 1 + MaxFed * ENTER_HOLD_FRAMES

MCNext ==
    \/ /\ Len(fed) < MaxFed
       /\ frame <= LastFeedFrame
       /\ \E e \in Event : CollectorFeed(e)
    \/ PollReleases
    \/ PollReturnsNothing
    \/ frame < MaxFrame /\ Advance
    \/ frame = MaxFrame /\ at = "advance" /\ UNCHANGED vars  \* the bound on frames

MCSpec ==
    /\ Init /\ [][MCNext]_vars
    /\ WF_vars(PollReleases) /\ WF_vars(PollReturnsNothing)
    /\ WF_vars(frame < MaxFrame /\ Advance)

\* P1 as liveness: the i-th event that is fed is released in the end, however
\* the feeds fall between the polls (director.py poll, called every frame).
EveryEventReleased ==
    \A i \in 1..MaxFed : Len(fed) >= i ~> Len(log) >= i
=============================================================================
