---------------------------- MODULE PacingProofs ----------------------------
(***************************************************************************)
(* Proofs about the Director between its two threads (module Pacing), for  *)
(* every set of events, every pair of gaps, and any number of feeds and    *)
(* frames.                                                                 *)
(***************************************************************************)
EXTENDS Pacing, TLAPS

\* The fields of the director agree with the last entry of the log.
LastInv ==
    /\ (last_release = None) <=> (log = <<>>)
    /\ log = <<>> => last_phase = None
    /\ log # <<>> => /\ last_release = log[Len(log)].frame
                     /\ last_phase = PhaseOf(log[Len(log)].event)
                     /\ last_release <= frame
    /\ \A i \in 1..Len(fed) : fed[i].frame <= frame

\* The head of the queue is never kept past the frame at which it is due: the
\* part of Prompt that concerns the event to be released next.
HeadInv ==
    queue # <<>> =>
        LET n == Len(log)
        IN  \/ frame <= fed[n + 1].frame
            \/ frame = fed[n + 1].frame + 1 /\ at = "poll"
            \/ /\ n > 0
               /\ \/ frame < log[n].frame + Hold(log[n].event)
                  \/ frame = log[n].frame + Hold(log[n].event) /\ at = "poll"

\* The inductive invariant.
IndInv == TypeOK /\ ExactlyOnceInOrder /\ LastInv /\ Paced /\ HeadInv /\ Prompt

\* The types of single entries of the two histories.
LEMMA Entries ==
    ASSUME TypeOK
    PROVE  /\ Len(log) \in Nat /\ Len(fed) \in Nat /\ Len(queue) \in Nat
           /\ \A i \in 1..Len(log) : log[i].event \in Event /\ log[i].frame \in Nat
           /\ \A i \in 1..Len(fed) : fed[i].event \in Event /\ fed[i].frame \in Nat
           /\ log # <<>> <=> Len(log) > 0
           /\ queue # <<>> <=> Len(queue) > 0
<1>1. \A r \in Stamped : r.event \in Event /\ r.frame \in Nat
  BY DEF Stamped
<1>2. \A i \in 1..Len(log) : log[i] \in Stamped
  BY DEF TypeOK
<1>3. \A i \in 1..Len(fed) : fed[i] \in Stamped
  BY DEF TypeOK
<1> QED
  BY <1>1, <1>2, <1>3 DEF TypeOK

\* What Append leaves alone and what it adds.
LEMMA AppendEntries ==
    ASSUME NEW S, NEW s \in Seq(S), NEW x \in S
    PROVE  /\ Len(Append(s, x)) = Len(s) + 1
           /\ \A i \in 1..Len(s) : Append(s, x)[i] = s[i]
           /\ Append(s, x)[Len(s) + 1] = x
           /\ Append(s, x) # <<>>
  OBVIOUS

\* Every hold is a positive number of frames.
LEMMA HoldNat == \A e : Hold(e) \in Nat \ {0}
  BY GapsAssumption DEF Hold

\* What poll computes as the gap is what the last released event asks for.
LEMMA GapOfLast ==
    ASSUME IndInv, log # <<>>
    PROVE  Gap = Hold(log[Len(log)].event)
<1>1. log[Len(log)].event \in Event
  BY Entries DEF IndInv
<1>2. last_phase = PhaseOf(log[Len(log)].event)
  BY DEF IndInv, LastInv
<1> QED
  BY <1>1, <1>2, NoneAssumption DEF Gap, Hold, PhaseOf, Event

\* The type invariant holds initially and is kept by every step of either
\* thread.
LEMMA TypeInit == Init => TypeOK
  BY DEF Init, DirectorInit, TypeOK

\* Every step keeps the types.
LEMMA TypeStep == TypeOK /\ [Next]_vars => TypeOK'
<1> SUFFICES ASSUME TypeOK, [Next]_vars PROVE TypeOK'
  OBVIOUS
<1> USE DEF TypeOK, Stamped
<1>1. ASSUME NEW e \in Event, CollectorFeed(e) PROVE TypeOK'
  BY <1>1 DEF CollectorFeed, Feed
<1>2. CASE PollReleases
  <2>1. Head(queue) \in Event /\ Tail(queue) \in Seq(Event)
    BY <1>2 DEF PollReleases, Release
  <2>2. PhaseOf(Head(queue)) \in {"ENTER", "EXIT", None}
    BY DEF PhaseOf
  <2> QED
    BY <1>2, <2>1, <2>2 DEF PollReleases, Release
<1>3. CASE PollReturnsNothing
  BY <1>3 DEF PollReturnsNothing, PollNothing, directorVars
<1>4. CASE Advance
  BY <1>4 DEF Advance
<1>5. CASE UNCHANGED vars
  BY <1>5 DEF vars
<1> QED
  BY <1>1, <1>2, <1>3, <1>4, <1>5 DEF Next

\* The inductive invariant holds at the start.
LEMMA IndInit == Init => IndInv
<1> SUFFICES ASSUME Init PROVE IndInv
  OBVIOUS
<1>1. TypeOK
  BY TypeInit
<1> QED
  BY <1>1 DEF Init, DirectorInit, IndInv, ExactlyOnceInOrder, LastInv, Paced,
              HeadInv, Prompt

\* A feed appends to the queue and to fed, and touches nothing else.
LEMMA FeedKeeps ==
    ASSUME IndInv, TypeOK', NEW e \in Event, CollectorFeed(e)
    PROVE  IndInv'
<1> USE DEF IndInv
<1>0. /\ log' = log /\ frame' = frame /\ at' = at
      /\ last_release' = last_release /\ last_phase' = last_phase
      /\ Len(log) \in Nat /\ Len(fed) \in Nat /\ Len(queue) \in Nat
      /\ \A i \in 1..Len(fed) : fed[i].frame \in Nat
      /\ frame \in Nat
      /\ queue # <<>> <=> Len(queue) > 0
  BY Entries DEF TypeOK, CollectorFeed, Feed
<1>1. /\ Len(fed') = Len(fed) + 1
      /\ Len(queue') = Len(queue) + 1
      /\ \A i \in 1..Len(fed) : fed'[i] = fed[i]
      /\ fed'[Len(fed) + 1] = [event |-> e, frame |-> frame]
      /\ \A i \in 1..Len(queue) : queue'[i] = queue[i]
      /\ queue'[Len(queue) + 1] = e
  BY DEF TypeOK, Stamped, CollectorFeed, Feed
<1>2. ExactlyOnceInOrder'
  <2>1. \A i \in 1..Len(queue') : fed'[Len(log) + i].event = queue'[i]
    <3> TAKE i \in 1..Len(queue')
    <3>1. CASE i \in 1..Len(queue)
      <4>1. Len(log) + i \in 1..Len(fed)
        BY <1>0, <3>1 DEF ExactlyOnceInOrder
      <4> QED
        BY <1>1, <3>1, <4>1 DEF ExactlyOnceInOrder
    <3>2. CASE i = Len(queue) + 1
      <4>1. Len(log) + i = Len(fed) + 1
        BY <1>0, <3>2 DEF ExactlyOnceInOrder
      <4> QED
        BY <1>1, <3>2, <4>1
    <3> QED
      <4>1. i \in 1..(Len(queue) + 1)
        BY <1>1
      <4> QED
        BY <1>0, <3>1, <3>2, <4>1
  <2>2. \A i \in 1..Len(log) : fed'[i].event = log[i].event
    BY <1>0, <1>1 DEF ExactlyOnceInOrder
  <2> QED
    BY <1>0, <1>1, <2>1, <2>2 DEF ExactlyOnceInOrder
<1>3. LastInv'
  <2>1. \A i \in 1..Len(fed') : fed'[i].frame <= frame
    BY <1>0, <1>1 DEF LastInv
  <2> QED
    BY <1>0, <2>1 DEF LastInv, PhaseOf
<1>4. Paced'
  BY <1>0 DEF Paced, Hold
<1>5. HeadInv'
  <2>1. CASE queue = <<>>
    BY <1>0, <1>1, <2>1 DEF HeadInv, ExactlyOnceInOrder
  <2>2. CASE queue # <<>>
    <3>1. Len(log) + 1 \in 1..Len(fed)
      BY <1>0, <2>2 DEF ExactlyOnceInOrder
    <3> QED
      BY <1>0, <1>1, <2>2, <3>1 DEF HeadInv, Hold
  <2> QED
    BY <2>1, <2>2
<1>6. Prompt'
  BY <1>0, <1>1 DEF Prompt, ExactlyOnceInOrder, Hold
<1> QED
  BY <1>2, <1>3, <1>4, <1>5, <1>6

\* A release moves the head of the queue to the log, in the frame at which
\* the hold of the release before it has run out.
LEMMA ReleaseKeeps ==
    ASSUME IndInv, TypeOK', PollReleases
    PROVE  IndInv'
<1> DEFINE e == Head(queue)
           n == Len(log)
<1> USE DEF IndInv
<1>0. /\ fed' = fed /\ frame' = frame /\ queue # <<>> /\ ~TooEarly(frame)
      /\ last_release' = frame /\ last_phase' = PhaseOf(e) /\ at = "poll"
      /\ n \in Nat /\ Len(fed) \in Nat /\ Len(queue) \in Nat
      /\ \A i \in 1..n : log[i].event \in Event /\ log[i].frame \in Nat
      /\ \A i \in 1..Len(fed) : fed[i].frame \in Nat
      /\ log # <<>> <=> n > 0
      /\ frame \in Nat
  BY Entries DEF TypeOK, PollReleases, Release
<1>1. /\ e = queue[1]
      /\ e \in Event
      /\ Len(queue) > 0
      /\ Len(queue') = Len(queue) - 1
      /\ \A i \in 1..(Len(queue) - 1) : queue'[i] = queue[i + 1]
  BY <1>0 DEF TypeOK, PollReleases, Release
<1>2. /\ Len(log') = n + 1
      /\ \A i \in 1..n : log'[i] = log[i]
      /\ log'[n + 1] = [event |-> e, frame |-> frame]
      /\ log' # <<>>
  <2>1. [event |-> e, frame |-> frame] \in Stamped
    BY <1>0, <1>1 DEF Stamped
  <2>2. log \in Seq(Stamped) /\ log' = Append(log, [event |-> e, frame |-> frame])
    BY DEF TypeOK, PollReleases
  <2> QED
    BY <2>1, <2>2, AppendEntries
<1>3. n > 0 => frame - log[n].frame >= Hold(log[n].event)
  <2> SUFFICES ASSUME n > 0 PROVE frame - log[n].frame >= Hold(log[n].event)
    OBVIOUS
  <2>1. log # <<>> /\ log[n].frame \in Nat
    BY <1>0
  <2>2. last_release = log[n].frame /\ last_release # None
    BY <2>1 DEF LastInv
  <2>3. Gap = Hold(log[n].event)
    BY <2>1, GapOfLast
  <2>4. Hold(log[n].event) \in Nat
    BY GapsAssumption DEF Hold
  <2> QED
    BY <1>0, <2>1, <2>2, <2>3, <2>4 DEF TooEarly
<1>4. ExactlyOnceInOrder'
  <2>1. fed' = fed /\ fed[n + 1].event = e
    BY <1>0, <1>1 DEF ExactlyOnceInOrder
  <2>2. \A i \in 1..Len(queue') : fed[Len(log') + i].event = queue'[i]
    <3> TAKE i \in 1..Len(queue')
    <3>1. i + 1 \in 1..Len(queue) /\ queue'[i] = queue[i + 1]
      BY <1>0, <1>1
    <3>2. fed[n + (i + 1)].event = queue[i + 1]
      BY <3>1 DEF ExactlyOnceInOrder
    <3>3. n + (i + 1) = Len(log') + i
      BY <1>0, <1>2
    <3> QED
      BY <3>1, <3>2, <3>3
  <2>3. \A i \in 1..Len(log') : fed[i].event = log'[i].event
    <3> TAKE i \in 1..Len(log')
    <3>1. CASE i \in 1..n
      BY <1>2, <3>1 DEF ExactlyOnceInOrder
    <3>2. CASE i = n + 1
      BY <1>2, <2>1, <3>2
    <3> QED
      BY <1>0, <1>2, <3>1, <3>2
  <2>4. Len(fed) = Len(log') + Len(queue')
    BY <1>0, <1>1, <1>2 DEF ExactlyOnceInOrder
  <2> QED
    BY <2>1, <2>2, <2>3, <2>4 DEF ExactlyOnceInOrder
<1>5. LastInv'
  <2>1. frame # None
    BY <1>0, NoneAssumption
  <2>2. log'[Len(log')].frame = frame /\ log'[Len(log')].event = e
    BY <1>0, <1>2
  <2> QED
    BY <1>0, <1>2, <2>1, <2>2 DEF LastInv, PhaseOf
<1>6. Paced'
  <2> SUFFICES ASSUME NEW i \in 1..n
               PROVE  log'[i + 1].frame - log'[i].frame >= Hold(log'[i].event)
    <3>1. Len(log') - 1 = n
      BY <1>0, <1>2
    <3> QED
      BY <3>1 DEF Paced, Hold
  <2>1. CASE i = n
    BY <1>0, <1>2, <1>3, <2>1
  <2>2. CASE i # n
    <3>1. i \in 1..(n - 1) /\ log'[i + 1] = log[i + 1] /\ log'[i] = log[i]
      BY <1>0, <1>2, <2>2
    <3> QED
      BY <3>1 DEF Paced
  <2> QED
    BY <2>1, <2>2
<1>7. HeadInv'
  <2>1. log'[Len(log')].frame = frame /\ log'[Len(log')].event = e /\ Len(log') > 0
    BY <1>0, <1>2
  <2>2. frame < frame + Hold(e)
    BY <1>0, HoldNat
  <2> QED
    BY <1>0, <2>1, <2>2 DEF HeadInv, Hold
<1>8. Prompt'
  <2>1. \/ frame <= fed[n + 1].frame + 1
        \/ n > 0 /\ frame <= log[n].frame + Hold(log[n].event)
    <3>1. n + 1 \in 1..Len(fed)
      BY <1>0, <1>1 DEF ExactlyOnceInOrder
    <3>2. n > 0 => log[n].frame + Hold(log[n].event) \in Nat
      BY <1>0, HoldNat
    <3>3. fed[n + 1].frame \in Nat
      BY <1>0, <3>1
    <3>4. \/ frame <= fed[n + 1].frame
          \/ frame = fed[n + 1].frame + 1
          \/ n > 0 /\ frame < log[n].frame + Hold(log[n].event)
          \/ n > 0 /\ frame = log[n].frame + Hold(log[n].event)
      BY <1>0 DEF HeadInv
    <3>5. n > 0 => Hold(log[n].event) \in Nat /\ log[n].frame \in Nat
      BY <1>0, HoldNat
    <3> QED
      BY <1>0, <3>3, <3>4, <3>5
  <2>2. \A i \in 1..n : \/ log'[i].frame <= fed[i].frame + 1
                        \/ i > 1 /\ log'[i].frame <= log'[i - 1].frame + Hold(log'[i - 1].event)
    <3> TAKE i \in 1..n
    <3>1. log'[i] = log[i] /\ (i > 1 => log'[i - 1] = log[i - 1])
      BY <1>0, <1>2
    <3> QED
      BY <3>1 DEF Prompt
  <2>3. n > 0 => log'[n] = log[n]
    BY <1>0, <1>2
  <2> QED
    BY <1>0, <1>2, <2>1, <2>2, <2>3 DEF Prompt, Hold
<1> QED
  BY <1>4, <1>5, <1>6, <1>7, <1>8

\* A poll that returns nothing found the queue empty or the hold running.
LEMMA PollNothingKeeps ==
    ASSUME IndInv, TypeOK', PollReturnsNothing
    PROVE  IndInv'
<1> USE DEF PollReturnsNothing, PollNothing, directorVars, IndInv
<1>1. ExactlyOnceInOrder' /\ LastInv' /\ Paced' /\ Prompt'
  BY DEF ExactlyOnceInOrder, LastInv, Paced, Prompt, Hold, PhaseOf
<1>2. HeadInv'
  <2> SUFFICES ASSUME queue # <<>>
               PROVE  Len(log) > 0 /\ frame < log[Len(log)].frame + Hold(log[Len(log)].event)
    BY DEF HeadInv, Hold
  <2>1. last_release # None /\ frame - last_release < Gap
    BY DEF TooEarly
  <2>2. log # <<>> /\ Len(log) > 0 /\ last_release = log[Len(log)].frame
    BY <2>1 DEF LastInv, TypeOK
  <2>3. Gap = Hold(log[Len(log)].event)
    BY <2>2, GapOfLast
  <2>4. Hold(log[Len(log)].event) \in Nat
    BY GapsAssumption DEF Hold
  <2>5. last_release \in Nat /\ frame \in Nat
    BY <2>1 DEF TypeOK
  <2> QED
    BY <2>1, <2>2, <2>3, <2>4, <2>5
<1> QED
  BY <1>1, <1>2

\* The frame number only moves on after this frame's poll.
LEMMA AdvanceKeeps ==
    ASSUME IndInv, TypeOK', Advance
    PROVE  IndInv'
<1> USE DEF Advance, IndInv
<1>1. ExactlyOnceInOrder' /\ Paced' /\ Prompt'
  BY DEF ExactlyOnceInOrder, Paced, Prompt, Hold
<1>2. LastInv'
  BY Entries DEF LastInv, PhaseOf, TypeOK
<1>3. HeadInv'
  <2> SUFFICES ASSUME queue # <<>> PROVE HeadInv'
    BY DEF HeadInv
  <2>1. Len(log) \in Nat /\ frame \in Nat
    BY Entries DEF TypeOK
  <2>2. Len(log) + 1 \in 1..Len(fed) /\ fed[Len(log) + 1].frame \in Nat
    <3>1. Len(fed) = Len(log) + Len(queue) /\ Len(queue) > 0 /\ Len(queue) \in Nat
      BY Entries DEF ExactlyOnceInOrder
    <3>2. Len(log) + 1 \in 1..Len(fed)
      BY <2>1, <3>1
    <3> QED
      BY Entries, <3>2
  <2>3. Len(log) > 0 => log[Len(log)].frame \in Nat
    BY Entries
  <2>4. \A x : Hold(x) \in Nat
    BY HoldNat
  <2>5. HeadInv /\ at = "advance" /\ at' = "poll" /\ frame' = frame + 1
    OBVIOUS
  <2>6. fed[Len(log) + 1].frame <= frame
    BY <2>2 DEF LastInv
  <2> QED
    BY <2>1, <2>2, <2>3, <2>4, <2>5, <2>6 DEF HeadInv, Hold
<1> QED
  BY <1>1, <1>2, <1>3

\* Every step, and every stutter, keeps the inductive invariant.
LEMMA IndStep == IndInv /\ [Next]_vars => IndInv'
<1> SUFFICES ASSUME IndInv, [Next]_vars PROVE IndInv'
  OBVIOUS
<1>1. TypeOK'
  BY TypeStep DEF IndInv
<1>2. ASSUME NEW e \in Event, CollectorFeed(e) PROVE IndInv'
  BY <1>1, <1>2, FeedKeeps
<1>3. CASE PollReleases
  BY <1>1, <1>3, ReleaseKeeps
<1>4. CASE PollReturnsNothing
  BY <1>1, <1>4, PollNothingKeeps
<1>5. CASE Advance
  BY <1>1, <1>5, AdvanceKeeps
<1>6. CASE UNCHANGED vars
  BY <1>6 DEF vars, IndInv, TypeOK, ExactlyOnceInOrder, LastInv, Paced, HeadInv,
              Prompt, Hold, PhaseOf
<1> QED
  BY <1>2, <1>3, <1>4, <1>5, <1>6 DEF Next

\* The inductive invariant always holds.
LEMMA IndInvariant == SafeSpec => []IndInv
  BY IndInit, IndStep, PTL DEF SafeSpec

\* The state of the director and of its two callers is always well typed.
THEOREM TypeCorrect == SafeSpec => []TypeOK
<1>1. IndInv => TypeOK
  BY DEF IndInv
<1> QED
  BY IndInvariant, <1>1, PTL

\* P1 for every feed pattern: nothing fed is lost, doubled or overtaken.
THEOREM FifoCorrect == SafeSpec => []ExactlyOnceInOrder
<1>1. IndInv => ExactlyOnceInOrder
  BY DEF IndInv
<1> QED
  BY IndInvariant, <1>1, PTL

\* P2 for every pair of gaps: releases are never closer than the first asks.
THEOREM PacingCorrect == SafeSpec => []Paced
<1>1. IndInv => Paced
  BY DEF IndInv
<1> QED
  BY IndInvariant, <1>1, PTL

\* The pacing is the only delay a fed event meets.
THEOREM PromptCorrect == SafeSpec => []Prompt
<1>1. IndInv => Prompt
  BY DEF IndInv
<1> QED
  BY IndInvariant, <1>1, PTL

-----------------------------------------------------------------------------
\* The abstract channel's view of the two histories.
Sent == [i \in 1..Len(fed) |-> fed[i].event]
Delivered == [i \in 1..Len(log) |-> log[i].event]

\* Mapping a history entry by entry commutes with appending to it.
LEMMA EventsOfAppend ==
    ASSUME NEW h \in Seq(Stamped), NEW x \in Stamped
    PROVE  [i \in 1..Len(Append(h, x)) |-> Append(h, x)[i].event]
             = Append([i \in 1..Len(h) |-> h[i].event], x.event)
<1> DEFINE evs == [i \in 1..Len(h) |-> h[i].event]
           lhs == [i \in 1..Len(Append(h, x)) |-> Append(h, x)[i].event]
<1>1. evs \in Seq(Event) /\ Len(evs) = Len(h) /\ x.event \in Event
  <2>1. \A r \in Stamped : r.event \in Event
    BY DEF Stamped
  <2>2. \A i \in 1..Len(h) : h[i] \in Stamped
    OBVIOUS
  <2>3. Len(h) \in Nat /\ evs \in [1..Len(h) -> Event]
    BY <2>1, <2>2
  <2> QED
    BY <2>1, <2>3
<1> HIDE DEF evs
<1>2. /\ Append(evs, x.event) = [i \in 1..(Len(h) + 1) |-> Append(evs, x.event)[i]]
      /\ Len(h) \in Nat
  BY <1>1
<1>3. \A i \in 1..(Len(h) + 1) : Append(h, x)[i].event = Append(evs, x.event)[i]
  <2> TAKE i \in 1..(Len(h) + 1)
  <2>1. CASE i \in 1..Len(h)
    <3>1. Append(h, x)[i] = h[i] /\ Append(evs, x.event)[i] = evs[i]
      BY <1>1, <2>1
    <3> QED
      BY <2>1, <3>1 DEF evs
  <2>2. CASE i = Len(h) + 1
    BY <1>1, <2>2, AppendEntries
  <2> QED
    BY <1>2, <2>1, <2>2
<1>4. Len(Append(h, x)) = Len(h) + 1
  OBVIOUS
<1> QED
  BY <1>2, <1>3, <1>4 DEF evs

\* The frames left to wait depend on the director's fields and the frame only.
LEMMA WaitOfFields ==
    ASSUME last_release' = last_release, last_phase' = last_phase, frame' = frame
    PROVE  WaitLeft' = WaitLeft
  BY DEF WaitLeft, Gap

\* An empty Director is an empty channel that may deliver at once.
LEMMA ChannelInit == Init => Channel!Init
<1> SUFFICES ASSUME Init PROVE Channel!Init
  OBVIOUS
<1>1. Sent = <<>> /\ Delivered = <<>>
  BY DEF Init, Sent, Delivered
<1>2. WaitLeft = 0
  BY DEF Init, DirectorInit, WaitLeft
<1> QED
  BY <1>1, <1>2 DEF Channel!Init, Sent, Delivered

\* A feed of the Director is a Send of the channel.
LEMMA FeedIsSend ==
    ASSUME IndInv, NEW e \in Event, CollectorFeed(e)
    PROVE  Channel!Send(e)
<1>1. Sent' = Append(Sent, e)
  <2>1. [event |-> e, frame |-> frame] \in Stamped /\ fed \in Seq(Stamped)
    BY DEF IndInv, TypeOK, Stamped
  <2>2. fed' = Append(fed, [event |-> e, frame |-> frame])
    BY DEF CollectorFeed
  <2>3. [event |-> e, frame |-> frame].event = e
    OBVIOUS
  <2> QED
    BY <2>1, <2>2, <2>3, EventsOfAppend DEF Sent
<1>2. Delivered' = Delivered
  BY DEF CollectorFeed, Delivered
<1>3. WaitLeft' = WaitLeft
  BY WaitOfFields DEF CollectorFeed, Feed
<1> QED
  BY <1>1, <1>2, <1>3 DEF Channel!Send, Sent, Delivered

\* A release of the Director is a Deliver of the channel.
LEMMA ReleaseIsDeliver ==
    ASSUME IndInv, PollReleases
    PROVE  Channel!Deliver
<1> DEFINE e == Head(queue)
<1>1. /\ queue # <<>> /\ e = queue[1] /\ e \in Event
      /\ Len(queue) \in Nat \ {0}
      /\ fed' = fed /\ frame \in Nat
      /\ last_release \in Nat \cup {None}
  BY DEF PollReleases, Release, IndInv, TypeOK
<1>2. WaitLeft = 0
  <2>1. last_release # None => frame - last_release >= Gap
    <3>1. Gap \in Nat
      BY GapsAssumption DEF Gap
    <3> QED
      BY <1>1, <3>1 DEF PollReleases, Release, TooEarly
  <2> QED
    BY <2>1 DEF WaitLeft
<1>3. Len(Delivered) = Len(log) /\ Len(Sent) = Len(fed) /\ Len(fed) = Len(log) + Len(queue)
      /\ Len(log) \in Nat
  BY Entries DEF Delivered, Sent, IndInv, ExactlyOnceInOrder
<1>4. Sent[Len(Delivered) + 1] = e
  <2>1. Len(log) + 1 \in 1..Len(fed) /\ fed[Len(log) + 1].event = queue[1]
    BY <1>1, <1>3 DEF IndInv, ExactlyOnceInOrder
  <2> QED
    BY <1>1, <1>3, <2>1 DEF Sent
<1>5. Delivered' = Append(Delivered, e)
  <2>1. [event |-> e, frame |-> frame] \in Stamped /\ log \in Seq(Stamped)
    BY <1>1 DEF IndInv, TypeOK, Stamped
  <2>2. log' = Append(log, [event |-> e, frame |-> frame])
    BY DEF PollReleases
  <2>3. [event |-> e, frame |-> frame].event = e
    OBVIOUS
  <2> QED
    BY <2>1, <2>2, <2>3, EventsOfAppend DEF Delivered
<1>6. WaitLeft' = Channel!GapAfter(e)
  <2>1. last_release' = frame /\ frame' = frame /\ last_phase' = PhaseOf(e)
    BY DEF PollReleases, Release
  <2>2. Gap' = Channel!GapAfter(e)
    BY <1>1, <2>1, NoneAssumption DEF Gap, PhaseOf, Channel!GapAfter
  <2>3. Channel!GapAfter(e) \in Nat \ {0}
    BY GapsAssumption DEF Channel!GapAfter
  <2>4. frame # None
    BY <1>1, NoneAssumption
  <2>5. WaitLeft' = IF Channel!GapAfter(e) <= 0 THEN 0 ELSE Channel!GapAfter(e) - (frame - frame)
    BY <1>1, <2>1, <2>2, <2>3, <2>4 DEF WaitLeft
  <2> QED
    BY <1>1, <2>3, <2>5
<1>7. Len(Delivered) < Len(Sent)
  BY <1>1, <1>3
<1> HIDE DEF e
<1> QED
  BY <1>1, <1>2, <1>4, <1>5, <1>6, <1>7 DEF Channel!Deliver, Sent, Delivered

\* A frame of the display is a frame of the channel.
LEMMA AdvanceIsFrame ==
    ASSUME IndInv, Advance
    PROVE  Channel!FramePasses
<1>1. Sent' = Sent /\ Delivered' = Delivered
  BY DEF Advance, Sent, Delivered
<1>2. WaitLeft' = IF WaitLeft > 0 THEN WaitLeft - 1 ELSE 0
  <2>1. /\ frame' = frame + 1 /\ last_release' = last_release /\ Gap' = Gap
        /\ frame \in Nat /\ last_release \in Nat \cup {None}
    BY DEF Advance, Gap, IndInv, TypeOK
  <2>2. Gap \in Nat
    BY GapsAssumption DEF Gap
  <2>3. CASE last_release = None
    BY <2>1, <2>3 DEF WaitLeft
  <2>4. CASE last_release # None
    <3>1. last_release \in Nat
      BY <2>1, <2>4
    <3> QED
      BY <2>1, <2>2, <2>4, <3>1 DEF WaitLeft
  <2> QED
    BY <2>3, <2>4
<1> QED
  BY <1>1, <1>2 DEF Channel!FramePasses, Sent, Delivered

\* Every step is a step of the channel or leaves it alone.
LEMMA ChannelStep == IndInv /\ [Next]_vars => [Channel!Next]_(Channel!vars)
<1> SUFFICES ASSUME IndInv, [Next]_vars PROVE [Channel!Next]_(Channel!vars)
  OBVIOUS
<1>1. ASSUME NEW e \in Event, CollectorFeed(e) PROVE Channel!Next
  BY <1>1, FeedIsSend DEF Channel!Next, Channel!Event, Event
<1>2. CASE PollReleases
  BY <1>2, ReleaseIsDeliver DEF Channel!Next
<1>3. CASE PollReturnsNothing \/ UNCHANGED vars
  <2>1. /\ fed' = fed /\ log' = log /\ frame' = frame
        /\ last_release' = last_release /\ last_phase' = last_phase
    BY <1>3 DEF PollReturnsNothing, PollNothing, directorVars, vars
  <2>2. WaitLeft' = WaitLeft
    BY <2>1, WaitOfFields
  <2> QED
    BY <2>1, <2>2 DEF Channel!vars
<1>4. CASE Advance
  BY <1>4, AdvanceIsFrame DEF Channel!Next
<1> QED
  BY <1>1, <1>2, <1>3, <1>4 DEF Next

\* The Director between its two threads implements the paced channel: P1 and
\* P2 hold of it because they hold of the channel by definition.
THEOREM DirectorImplementsChannel == SafeSpec => ImplementsChannel
  BY ChannelInit, ChannelStep, IndInvariant, PTL
     DEF SafeSpec, ImplementsChannel, Channel!SafeSpec
=============================================================================
