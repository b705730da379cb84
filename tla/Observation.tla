---------------------------- MODULE Observation -----------------------------
(***************************************************************************)
(* From the wire to the world: the pump thread (live.py _pump) decodes     *)
(* each parsed line and feeds the Director; the display loop (app.py,      *)
(* App.step) applies what the Director releases.  Only the Director's      *)
(* queue is here, not its pacing: a release may come at any time, so the   *)
(* decoder runs ahead of the world by whatever is queued.                  *)
(***************************************************************************)
EXTENDS World, Decoder

CONSTANT Wire  \* the wire events that may arrive

VARIABLE queue  \* Director._queue

vars == <<processes, initialPid, pending, decoding, queue>>

WireEnter == [kind : {"ENTER"}, pid : Pid, nr : Nr, args : Args \ {<<>>},
              strings : UNION {[K -> Path] : K \in SUBSET {0, 1}}]
WireExit == [kind : {"EXIT"}, pid : Pid, ret : Result]
WireSpawn == [kind : {"SPAWN"}, pid : Pid, child : Pid]
WireDeath == [kind : {"EXITED", "SIGNALED"}, pid : Pid]

ASSUME WireAssumption == Wire \subseteq WireEnter \cup WireExit \cup WireSpawn \cup WireDeath

ASSUME NamesAssumption ==
    /\ "?" \in CallName
    /\ \A nr \in Nr :
          (IF nr \in DOMAIN NAMES THEN NAMES[nr] ELSE SysName(nr)) \in CallName \ {"?"}

Init == WorldInit /\ DecoderInit /\ queue = <<>>

\* _pump: for event in decoder.push(parsed): director.feed(event)
Observe(w) ==
    /\ Push(w)
    /\ queue' = Append(queue, Decoded(w))
    /\ UNCHANGED worldVars

\* App.step: for event in source.poll(frame): world.apply(event)
Show ==
    /\ queue # <<>>
    /\ Apply(Head(queue))
    /\ queue' = Tail(queue)
    /\ UNCHANGED decoding

Next == (\E w \in Wire : Observe(w)) \/ Show

Spec == Init /\ [][Next]_vars
-----------------------------------------------------------------------------
\* What the decoder remembers and feeds: only well-formed events of event.py
\* reach the World, whatever syscall numbers and lines arrive (decode.py push).
ObservationTypeOK ==
    /\ TypeOK
    /\ decoding \in [DOMAIN decoding -> CallName \ {"?"}] /\ DOMAIN decoding \subseteq Pid
    /\ \A i \in 1..Len(queue) :
          queue[i] \in EnterEvent \cup ExitEvent \cup SpawnEvent \cup DeathEvent

\* The queued events that set or clear what pid has pending.
Touches(e, p) == e.kind \in {"ENTER", "EXIT", "DEATH"} /\ e.pid = p

\* The name pid would have pending once the first n queued events are applied,
\* None if it would have nothing pending.
NameAfter(n, p) ==
    LET touching == {i \in 1..n : Touches(queue[i], p)}
    IN  IF touching = {}
        THEN IF p \in DOMAIN pending THEN pending[p].name ELSE None
        ELSE LET last == CHOOSE i \in touching : \A j \in touching : j <= i
             IN  IF queue[last].kind = "ENTER" THEN queue[last].name ELSE None

NameDecoding(p) == IF p \in DOMAIN decoding THEN decoding[p] ELSE None

(***************************************************************************)
(* The decoder and the world each remember the pending ENTERs, the one     *)
(* when a line is read, the other when its event is shown, possibly much   *)
(* later: applying what is queued makes the world remember exactly what    *)
(* the decoder does (decode.py _pending, model.py _pending).               *)
(***************************************************************************)
WorldCatchesUp == \A p \in Pid : NameAfter(Len(queue), p) = NameDecoding(p)

(***************************************************************************)
(* D2 with S3: an EXIT the decoder could name is applied while the ENTER   *)
(* that named it is pending, so it always pairs; an EXIT it could not name *)
(* finds nothing pending.  A mismatched EXIT, which S3 provides for, does  *)
(* not come out of the pipeline, whatever the wire carries.                *)
(***************************************************************************)
EveryNamedExitPairs ==
    \A i \in 1..Len(queue) :
        queue[i].kind = "EXIT" =>
            NameAfter(i - 1, queue[i].pid) = IF queue[i].name = "?" THEN None ELSE queue[i].name
=============================================================================
