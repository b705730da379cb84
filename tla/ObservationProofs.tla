-------------------------- MODULE ObservationProofs --------------------------
(***************************************************************************)
(* The decoder and the world agree on every pair, for every set of pids,   *)
(* calls and lines, and however far the decoder runs ahead.                *)
(*                                                                         *)
(* The two properties need each other.  Applying an EXIT takes the pending *)
(* ENTER of its pid away only if the names match, which is what            *)
(* EveryNamedExitPairs says of the head of the queue; a line read now      *)
(* yields an EXIT with the right name because the decoder is where the     *)
(* world will be, which is WorldCatchesUp.  Inv adds the types and the     *)
(* Shape of the world, without which looking a pid up might take a pending *)
(* ENTER with it.                                                          *)
(***************************************************************************)
EXTENDS Observation, WorldLemmas, FiniteSetTheorems

AnyEvent == EnterEvent \cup ExitEvent \cup SpawnEvent \cup DeathEvent

DecodingOK == decoding \in [DOMAIN decoding -> CallName \ {"?"}] /\ DOMAIN decoding \subseteq Pid

Types == Shape /\ DecodingOK /\ queue \in Seq(AnyEvent)

-----------------------------------------------------------------------------
\* The definitions of NameAfter, for any queue q and pending table P.

NamePending(P, p) == IF p \in DOMAIN P THEN P[p].name ELSE None

\* What an event that touches a pid leaves pending for it.
Leaves(e) == IF e.kind = "ENTER" THEN e.name ELSE None

NameOver(q, P, n, p) ==
    LET touching == {i \in 1..n : Touches(q[i], p)}
    IN  IF touching = {}
        THEN NamePending(P, p)
        ELSE Leaves(q[CHOOSE i \in touching : \A j \in touching : j <= i])

\* The two properties in these terms.
CatchesUp == \A p \in Pid : NameOver(queue, pending, Len(queue), p) = NameDecoding(p)

ExitsPair ==
    \A i \in 1..Len(queue) :
        queue[i].kind = "EXIT" =>
            NameOver(queue, pending, i - 1, queue[i].pid) =
                IF queue[i].name = "?" THEN None ELSE queue[i].name

\* The inductive invariant.
Inv == Types /\ CatchesUp /\ ExitsPair

\* NameAfter is NameOver of the two variables.
LEMMA NameAfterIsOver ==
    ASSUME NEW n, NEW p
    PROVE  NameAfter(n, p) = NameOver(queue, pending, n, p)
BY DEF NameAfter, NameOver, NamePending, Leaves

\* Events that do not touch p leave what it had pending.
LEMMA NoneTouches ==
    ASSUME NEW q, NEW P, NEW n \in Nat, NEW p, \A i \in 1..n : ~Touches(q[i], p)
    PROVE  NameOver(q, P, n, p) = NamePending(P, p)
BY DEF NameOver

\* The last event that touches p says what it has pending.
LEMMA LastTouches ==
    ASSUME NEW q, NEW P, NEW n \in Nat, NEW p, NEW k \in 1..n,
           Touches(q[k], p), \A i \in 1..n : i > k => ~Touches(q[i], p)
    PROVE  NameOver(q, P, n, p) = Leaves(q[k])
<1> DEFINE T == {i \in 1..n : Touches(q[i], p)}
<1>1. k \in T /\ \A j \in T : j <= k
  OBVIOUS
<1>2. \A i \in T : i \in Int
  OBVIOUS
<1> HIDE DEF T
<1>3. (CHOOSE i \in T : \A j \in T : j <= i) = k
  <2>1. \A i \in T : (\A j \in T : j <= i) => i = k
    BY <1>1, <1>2
  <2> QED  BY <1>1, <2>1
<1> QED  BY <1>1, <1>3 DEF NameOver, T

\* Either no event touches p or one is the last to.
LEMMA TouchedOrNot ==
    ASSUME NEW q, NEW n \in Nat, NEW p
    PROVE  \/ \A i \in 1..n : ~Touches(q[i], p)
           \/ \E k \in 1..n : Touches(q[k], p) /\ \A i \in 1..n : i > k => ~Touches(q[i], p)
<1> DEFINE T == {i \in 1..n : Touches(q[i], p)}
<1>1. CASE T = {}
  BY <1>1
<1>2. CASE T # {}
  <2>1. T \in SUBSET (0..n) /\ T \subseteq 1..n
    OBVIOUS
  <2> HIDE DEF T
  <2>2. PICK k \in T : \A j \in T : j <= k
    BY <1>2, <2>1, LastExists
  <2> QED  BY <2>2 DEF T
<1> QED  BY <1>1, <1>2

\* An event is looked at only if it is among the first n.
LEMMA SamePrefix ==
    ASSUME NEW q, NEW r, NEW P, NEW n \in Nat, NEW p, \A i \in 1..n : r[i] = q[i]
    PROVE  NameOver(r, P, n, p) = NameOver(q, P, n, p)
<1>1. CASE \A i \in 1..n : ~Touches(q[i], p)
  BY <1>1, NoneTouches
<1>2. CASE \E k \in 1..n : Touches(q[k], p) /\ \A i \in 1..n : i > k => ~Touches(q[i], p)
  <2>1. PICK k \in 1..n : Touches(q[k], p) /\ \A i \in 1..n : i > k => ~Touches(q[i], p)
    BY <1>2
  <2>2. NameOver(q, P, n, p) = Leaves(q[k])
    BY <2>1, LastTouches
  <2>3. Touches(r[k], p) /\ \A i \in 1..n : i > k => ~Touches(r[i], p)
    BY <2>1
  <2>4. NameOver(r, P, n, p) = Leaves(r[k])
    BY <2>3, LastTouches
  <2> QED  BY <2>2, <2>4
<1> QED  BY <1>1, <1>2, TouchedOrNot

\* The last of n + 1 events decides if it touches p; if not, the n before it do.
LEMMA OneMore ==
    ASSUME NEW q, NEW P, NEW n \in Nat, NEW p
    PROVE  /\ Touches(q[n + 1], p) => NameOver(q, P, n + 1, p) = Leaves(q[n + 1])
           /\ ~Touches(q[n + 1], p) => NameOver(q, P, n + 1, p) = NameOver(q, P, n, p)
<1>1. CASE Touches(q[n + 1], p)
  <2>1. n + 1 \in Nat /\ n + 1 \in 1..(n + 1) /\ \A i \in 1..(n + 1) : ~(i > n + 1)
    OBVIOUS
  <2> QED  BY <1>1, <2>1, LastTouches
<1>2. CASE ~Touches(q[n + 1], p)
  <2>1. n + 1 \in Nat /\ \A i \in 1..(n + 1) : i \in 1..n \/ i = n + 1
    OBVIOUS
  <2>2. CASE \A i \in 1..n : ~Touches(q[i], p)
    BY <1>2, <2>1, <2>2, NoneTouches
  <2>3. CASE \E k \in 1..n : Touches(q[k], p) /\ \A i \in 1..n : i > k => ~Touches(q[i], p)
    <3>1. PICK k \in 1..n : Touches(q[k], p) /\ \A i \in 1..n : i > k => ~Touches(q[i], p)
      BY <2>3
    <3>2. k \in 1..(n + 1) /\ \A i \in 1..(n + 1) : i > k => ~Touches(q[i], p)
      BY <1>2, <2>1, <3>1
    <3>3. NameOver(q, P, n, p) = Leaves(q[k])
      BY <3>1, LastTouches
    <3>4. NameOver(q, P, n + 1, p) = Leaves(q[k])
      BY <2>1, <3>1, <3>2, LastTouches
    <3> QED  BY <1>2, <3>3, <3>4
  <2> QED  BY <2>2, <2>3, TouchedOrNot
<1> QED  BY <1>1, <1>2

\* Applying the first event, P becoming P2, and looking n events into what is
\* left of the queue is looking n + 1 events into all of it.
LEMMA FirstApplied ==
    ASSUME NEW q, NEW r, NEW P, NEW P2, NEW n \in Nat, NEW p,
           \A i \in 1..n : r[i] = q[i + 1],
           NamePending(P2, p) = IF Touches(q[1], p) THEN Leaves(q[1]) ELSE NamePending(P, p)
    PROVE  NameOver(r, P2, n, p) = NameOver(q, P, n + 1, p)
<1>1. n + 1 \in Nat /\ 1 \in 1..(n + 1)
  OBVIOUS
<1>2. \A i \in 1..(n + 1) : i = 1 \/ (i - 1 \in 1..n /\ q[i] = r[i - 1])
  OBVIOUS
<1>3. CASE \A i \in 1..n : ~Touches(r[i], p)
  <2>1. NameOver(r, P2, n, p) = NamePending(P2, p)
    BY <1>3, NoneTouches
  <2>2. \A i \in 1..(n + 1) : i > 1 => ~Touches(q[i], p)
    BY <1>2, <1>3
  <2>3. CASE Touches(q[1], p)
    <3>1. \A k \in 1..(n + 1) :
             Touches(q[k], p) /\ (\A i \in 1..(n + 1) : i > k => ~Touches(q[i], p))
                => NameOver(q, P, n + 1, p) = Leaves(q[k])
      BY <1>1, LastTouches
    <3>2. NameOver(q, P, n + 1, p) = Leaves(q[1])
      BY <1>1, <2>2, <2>3, <3>1
    <3> QED  BY <2>1, <2>3, <3>2
  <2>4. CASE ~Touches(q[1], p)
    <3>1. \A i \in 1..(n + 1) : ~Touches(q[i], p)
      BY <1>2, <1>3, <2>4
    <3>2. NameOver(q, P, n + 1, p) = NamePending(P, p)
      BY <1>1, <3>1, NoneTouches
    <3> QED  BY <2>1, <2>4, <3>2
  <2> QED  BY <2>3, <2>4
<1>4. CASE \E k \in 1..n : Touches(r[k], p) /\ \A i \in 1..n : i > k => ~Touches(r[i], p)
  <2>1. PICK k \in 1..n : Touches(r[k], p) /\ \A i \in 1..n : i > k => ~Touches(r[i], p)
    BY <1>4
  <2>2. NameOver(r, P2, n, p) = Leaves(r[k])
    BY <2>1, LastTouches
  <2>3. k + 1 \in 1..(n + 1) /\ q[k + 1] = r[k]
    OBVIOUS
  <2>4. \A i \in 1..(n + 1) : i > k + 1 => ~Touches(q[i], p)
    <3> SUFFICES ASSUME NEW i \in 1..(n + 1), i > k + 1 PROVE ~Touches(q[i], p)
      OBVIOUS
    <3>1. i - 1 \in 1..n /\ i - 1 > k
      OBVIOUS
    <3>2. q[i] = r[i - 1]
      BY <1>2
    <3> QED  BY <2>1, <3>1, <3>2
  <2>5. NameOver(q, P, n + 1, p) = Leaves(q[k + 1])
    BY <1>1, <2>1, <2>3, <2>4, LastTouches
  <2> QED  BY <2>2, <2>3, <2>5
<1> QED  BY <1>3, <1>4, TouchedOrNot
-----------------------------------------------------------------------------
\* What an applied event does to the pending ENTERs, if an EXIT carries the
\* name of the ENTER it finds and "?" only where it finds none.
LEMMA ApplyLeaves ==
    ASSUME Shape, NEW e \in AnyEvent, Apply(e), NEW p,
           e.kind = "EXIT" => NamePending(pending, e.pid) = IF e.name = "?" THEN None ELSE e.name
    PROVE  NamePending(pending', p) =
               IF Touches(e, p) THEN Leaves(e) ELSE NamePending(pending, p)
<1>1. CASE e.kind = "ENTER" /\ ApplyEnter(e)
  <2>1. e.pid \in Pid
    BY <1>1 DEF AnyEvent, EnterEvent, ExitEvent, SpawnEvent, DeathEvent
  <2>2. pending' = Put(pending, e.pid, e)
    BY <1>1, <2>1, LookupKeepsPending DEF ApplyEnter
  <2> QED  BY <1>1, <2>2 DEF Put, NamePending, Touches, Leaves
<1>2. CASE e.kind = "EXIT" /\ ApplyExit(e)
  <2>1. e.pid \in Pid
    BY <1>2 DEF AnyEvent, EnterEvent, ExitEvent, SpawnEvent, DeathEvent
  <2>2. pending' = IF e.pid \in DOMAIN pending /\ pending[e.pid].name = e.name
                   THEN Drop(pending, e.pid) ELSE pending
    BY <1>2, <2>1, LookupKeepsPending DEF ApplyExit
  <2>3. CASE e.pid \in DOMAIN pending
    <3>1. pending[e.pid].name = e.name
      BY <1>2, <2>3, PendingIsNamed DEF NamePending
    <3>2. pending' = Drop(pending, e.pid)
      BY <2>2, <2>3, <3>1
    <3> QED  BY <1>2, <3>2 DEF Drop, NamePending, Touches, Leaves
  <2>4. CASE e.pid \notin DOMAIN pending
    BY <1>2, <2>2, <2>4 DEF NamePending, Touches, Leaves
  <2> QED  BY <2>3, <2>4
<1>3. CASE e.kind = "SPAWN" /\ ApplySpawn(e)
  <2>1. e.parent \in Pid
    BY <1>3 DEF AnyEvent, EnterEvent, ExitEvent, SpawnEvent, DeathEvent
  <2>2. pending' = pending
    BY <1>3, <2>1, LookupKeepsPending DEF ApplySpawn
  <2> QED  BY <1>3, <2>2 DEF Touches
<1>4. CASE e.kind = "DEATH" /\ ApplyDeath(e)
  <2>1. pending' = Drop(pending, e.pid)
    BY <1>4 DEF ApplyDeath
  <2> QED  BY <1>4, <2>1 DEF Drop, NamePending, Touches, Leaves
<1> QED  BY <1>1, <1>2, <1>3, <1>4 DEF Apply
-----------------------------------------------------------------------------
\* The decoder makes well-formed events of the lines.
LEMMA DecodedIsEvent ==
    ASSUME DecodingOK, NEW w \in Wire
    PROVE  Decoded(w) \in AnyEvent
<1>1. CASE w \in WireEnter
  <2>1. /\ w.kind = "ENTER" /\ w.pid \in Pid /\ w.nr \in Nr /\ w.args \in Args \ {<<>>}
        /\ \E K \in SUBSET {0, 1} : w.strings \in [K -> Path]
    BY <1>1 DEF WireEnter
  <2>2. NameOf(w.nr) \in CallName
    BY <2>1, NamesAssumption DEF NameOf
  <2>3. PathOf(w) \in Path \cup {None}
    <3>1. \A k \in DOMAIN w.strings : w.strings[k] \in Path
      BY <2>1
    <3> QED  BY <3>1 DEF PathOf, StringAt
  <2>4. w.args[1] \in Number
    BY <2>1, NumberAssumption
  <2> DEFINE fd == IF NameOf(w.nr) \in FD_FIRST THEN w.args[1] ELSE None
  <2>5. fd \in Number \cup {None}
    BY <2>4
  <2>6. Decoded(w) = [kind |-> "ENTER", pid |-> w.pid, name |-> NameOf(w.nr),
                      path |-> PathOf(w), fd |-> fd, args |-> w.args]
    BY <2>1 DEF Decoded
  <2> HIDE DEF fd
  <2> QED  BY <2>1, <2>2, <2>3, <2>5, <2>6 DEF AnyEvent, EnterEvent
<1>2. CASE w \in WireExit
  <2>1. w.kind = "EXIT" /\ w.pid \in Pid /\ w.ret \in Result
    BY <1>2 DEF WireExit
  <2> DEFINE name == IF w.pid \in DOMAIN decoding THEN decoding[w.pid] ELSE "?"
  <2>2. name \in CallName
    BY NamesAssumption DEF DecodingOK
  <2>3. Decoded(w) = [kind |-> "EXIT", pid |-> w.pid, result |-> w.ret, name |-> name]
    BY <2>1 DEF Decoded
  <2> HIDE DEF name
  <2> QED  BY <2>1, <2>2, <2>3 DEF AnyEvent, ExitEvent
<1>3. CASE w \in WireSpawn
  BY <1>3 DEF WireSpawn, Decoded, AnyEvent, SpawnEvent
<1>4. CASE w \in WireDeath
  BY <1>4 DEF WireDeath, Decoded, AnyEvent, DeathEvent
<1> QED  BY <1>1, <1>2, <1>3, <1>4, WireAssumption

\* What the decoder remembers of p after a line is what the line's event leaves
\* p, and an EXIT carries the name the decoder remembered.
LEMMA PushLeaves ==
    ASSUME DecodingOK, NEW w \in Wire, Push(w), NEW p
    PROVE  /\ DecodingOK'
           /\ NameDecoding(p)' =
                  IF Touches(Decoded(w), p) THEN Leaves(Decoded(w)) ELSE NameDecoding(p)
           /\ Decoded(w).kind = "EXIT" =>
                  NameDecoding(Decoded(w).pid) =
                     IF Decoded(w).name = "?" THEN None ELSE Decoded(w).name
<1>1. CASE w \in WireEnter
  <2>1. w.kind = "ENTER" /\ w.pid \in Pid /\ w.nr \in Nr
    BY <1>1 DEF WireEnter
  <2>2. NameOf(w.nr) \in CallName \ {"?"}
    BY <2>1, NamesAssumption DEF NameOf
  <2>3. Decoded(w).kind = "ENTER" /\ Decoded(w).pid = w.pid /\ Decoded(w).name = NameOf(w.nr)
    BY <2>1 DEF Decoded
  <2>4. decoding' = Put(decoding, w.pid, NameOf(w.nr))
    BY <2>1 DEF Push, Forgets
  <2>5. DecodingOK'
    BY <2>1, <2>2, <2>4 DEF DecodingOK, Put
  <2> QED  BY <2>3, <2>4, <2>5 DEF Put, NameDecoding, Touches, Leaves
<1>2. CASE w \in WireExit
  <2>1. w.kind = "EXIT"
    BY <1>2 DEF WireExit
  <2>2. /\ Decoded(w).kind = "EXIT" /\ Decoded(w).pid = w.pid
        /\ Decoded(w).name = IF w.pid \in DOMAIN decoding THEN decoding[w.pid] ELSE "?"
    BY <2>1 DEF Decoded
  <2>3. decoding' = Drop(decoding, w.pid)
    BY <2>1 DEF Push, Forgets
  <2>4. DecodingOK'
    BY <2>3 DEF DecodingOK, Drop
  <2> QED  BY <2>2, <2>3, <2>4 DEF Drop, DecodingOK, NameDecoding, Touches, Leaves
<1>3. CASE w \in WireSpawn
  <2>1. w.kind = "SPAWN"
    BY <1>3 DEF WireSpawn
  <2>2. Decoded(w).kind = "SPAWN" /\ decoding' = decoding
    BY <2>1 DEF Decoded, Push, Forgets
  <2> QED  BY <2>2 DEF DecodingOK, NameDecoding, Touches
<1>4. CASE w \in WireDeath
  <2>1. w.kind \in {"EXITED", "SIGNALED"}
    BY <1>4 DEF WireDeath
  <2>2. Decoded(w).kind = "DEATH" /\ Decoded(w).pid = w.pid
    BY <2>1 DEF Decoded
  <2>3. decoding' = Drop(decoding, w.pid)
    BY <2>1 DEF Push, Forgets
  <2>4. DecodingOK'
    BY <2>3 DEF DecodingOK, Drop
  <2> QED  BY <2>2, <2>3, <2>4 DEF Drop, NameDecoding, Touches, Leaves
<1> QED  BY <1>1, <1>2, <1>3, <1>4, WireAssumption
-----------------------------------------------------------------------------
\* A line read: its event is the last of the queue.
LEMMA ObserveStep ==
    ASSUME Inv, NEW w \in Wire, Observe(w)
    PROVE  Inv'
<1> DEFINE e == Decoded(w)
<1> PICK n \in Nat : n = Len(queue)
  BY DEF Inv, Types
<1>1. e \in AnyEvent
  BY DecodedIsEvent DEF Inv, Types
<1>2. /\ queue' = Append(queue, e) /\ pending' = pending
      /\ UNCHANGED worldVars
  BY DEF Observe, worldVars
<1>3. DecodingOK'
  BY PushLeaves DEF Inv, Types, Observe
<1>4. /\ \A p : NameDecoding(p)' = IF Touches(e, p) THEN Leaves(e) ELSE NameDecoding(p)
      /\ e.kind = "EXIT" => NameDecoding(e.pid) = IF e.name = "?" THEN None ELSE e.name
  BY PushLeaves DEF Inv, Types, Observe
<1> HIDE DEF e
<1>5. /\ queue' \in Seq(AnyEvent) /\ Len(queue') = n + 1
      /\ queue'[n + 1] = e
      /\ \A i \in 1..n : queue'[i] = queue[i]
  BY <1>1, <1>2 DEF Inv, Types
<1>6. Types'
  <2>1. Shape'
    BY <1>2 DEF Inv, Types, worldVars, Shape, Unknown, Coherent
  <2> QED  BY <1>3, <1>5, <2>1 DEF Types
<1>7. \A k \in 0..n : \A p : NameOver(queue', pending', k, p) = NameOver(queue, pending, k, p)
  <2> SUFFICES ASSUME NEW k \in 0..n, NEW p
               PROVE  NameOver(queue', pending', k, p) = NameOver(queue, pending, k, p)
    OBVIOUS
  <2>1. NameOver(queue', pending, k, p) = NameOver(queue, pending, k, p)
    BY <1>5, SamePrefix
  <2> QED  BY <1>2, <2>1
<1>8. CatchesUp'
  <2> SUFFICES ASSUME NEW p \in Pid
               PROVE  NameOver(queue', pending', Len(queue'), p) = NameDecoding(p)'
    BY DEF CatchesUp
  <2>1. NameOver(queue, pending, n, p) = NameDecoding(p)
    BY DEF Inv, CatchesUp
  <2>2. NameOver(queue', pending', n + 1, p) =
            IF Touches(e, p) THEN Leaves(e) ELSE NameOver(queue', pending', n, p)
    BY <1>5, OneMore
  <2> QED  BY <1>4, <1>5, <1>7, <2>1, <2>2
<1>9. ExitsPair'
  <2> SUFFICES ASSUME NEW i \in 1..(n + 1), queue'[i].kind = "EXIT"
               PROVE  NameOver(queue', pending', i - 1, queue'[i].pid) =
                          IF queue'[i].name = "?" THEN None ELSE queue'[i].name
    BY <1>5 DEF ExitsPair
  <2>1. CASE i \in 1..n
    BY <1>5, <1>7, <2>1 DEF Inv, ExitsPair
  <2>2. CASE i = n + 1
    <3>1. e.kind = "EXIT" /\ e.pid \in Pid
      BY <1>1, <1>5, <2>2 DEF AnyEvent, EnterEvent, ExitEvent, SpawnEvent, DeathEvent
    <3>2. NameOver(queue, pending, n, e.pid) = NameDecoding(e.pid)
      BY <3>1 DEF Inv, CatchesUp
    <3> QED  BY <1>4, <1>5, <1>7, <2>2, <3>1, <3>2
  <2> QED  BY <2>1, <2>2
<1> QED  BY <1>6, <1>8, <1>9 DEF Inv

\* An event shown: the queue loses its first, and the world applies it.
LEMMA ShowStep ==
    ASSUME Inv, Show
    PROVE  Inv'
<1> DEFINE e == Head(queue)
<1> PICK n \in Nat : Len(queue) = n + 1
  BY DEF Inv, Types, Show
<1>1. e \in AnyEvent /\ e = queue[1]
  BY DEF Inv, Types, Show
<1>2. /\ queue' \in Seq(AnyEvent) /\ Len(queue') = n
      /\ \A i \in 1..n : queue'[i] = queue[i + 1]
  BY DEF Inv, Types, Show
<1>3. Apply(e) /\ decoding' = decoding
  BY DEF Show
<1> HIDE DEF e
<1>4. Types'
  <2>1. Shape'
    BY <1>1, <1>3, ShapeStep DEF Inv, Types, AnyEvent
  <2> QED  BY <1>2, <1>3, <2>1 DEF Inv, Types, DecodingOK
<1>5. e.kind = "EXIT" => NamePending(pending, e.pid) = IF e.name = "?" THEN None ELSE e.name
  <2> SUFFICES ASSUME e.kind = "EXIT"
               PROVE  NamePending(pending, e.pid) = IF e.name = "?" THEN None ELSE e.name
    OBVIOUS
  <2>1. 1 \in 1..Len(queue) /\ 1 - 1 = 0 /\ 0 \in Nat
    OBVIOUS
  <2>2. NameOver(queue, pending, 1 - 1, e.pid) = IF e.name = "?" THEN None ELSE e.name
    BY <1>1, <2>1 DEF Inv, ExitsPair
  <2>3. NameOver(queue, pending, 0, e.pid) = NamePending(pending, e.pid)
    BY <2>1, NoneTouches
  <2> QED  BY <2>1, <2>2, <2>3
<1>6. \A k \in 0..n : \A p : NameOver(queue', pending', k, p) = NameOver(queue, pending, k + 1, p)
  <2> SUFFICES ASSUME NEW k \in 0..n, NEW p
               PROVE  NameOver(queue', pending', k, p) = NameOver(queue, pending, k + 1, p)
    OBVIOUS
  <2>1. NamePending(pending', p) =
            IF Touches(queue[1], p) THEN Leaves(queue[1]) ELSE NamePending(pending, p)
    BY <1>1, <1>3, <1>5, ApplyLeaves DEF Inv, Types
  <2>2. \A i \in 1..k : queue'[i] = queue[i + 1]
    BY <1>2
  <2>3. NameOver(queue', pending', k, p) = NameOver(queue, pending, k + 1, p)
    BY <2>1, <2>2, FirstApplied
  <2> QED  BY <2>3
<1>7. CatchesUp'
  <2> SUFFICES ASSUME NEW p \in Pid
               PROVE  NameOver(queue', pending', Len(queue'), p) = NameDecoding(p)'
    BY DEF CatchesUp
  <2>1. NameOver(queue, pending, n + 1, p) = NameDecoding(p)
    BY DEF Inv, CatchesUp
  <2>2. NameDecoding(p)' = NameDecoding(p)
    BY <1>3 DEF NameDecoding
  <2> QED  BY <1>2, <1>6, <2>1, <2>2
<1>8. ExitsPair'
  <2> SUFFICES ASSUME NEW i \in 1..n, queue'[i].kind = "EXIT"
               PROVE  NameOver(queue', pending', i - 1, queue'[i].pid) =
                          IF queue'[i].name = "?" THEN None ELSE queue'[i].name
    BY <1>2 DEF ExitsPair
  <2>1. queue'[i] = queue[i + 1] /\ i + 1 \in 1..Len(queue) /\ i - 1 \in 0..n
    BY <1>2
  <2>2. NameOver(queue, pending, i + 1 - 1, queue[i + 1].pid) =
            IF queue[i + 1].name = "?" THEN None ELSE queue[i + 1].name
    BY <2>1 DEF Inv, ExitsPair
  <2>3. i - 1 + 1 = i + 1 - 1
    OBVIOUS
  <2> QED  BY <1>6, <2>1, <2>2, <2>3
<1> QED  BY <1>4, <1>7, <1>8 DEF Inv
-----------------------------------------------------------------------------
\* Nothing is queued, pending or remembered at first.
LEMMA InvInit == Init => Inv
<1> SUFFICES ASSUME Init PROVE Inv
  OBVIOUS
<1>1. Shape
  BY ShapeInit DEF Init
<1>2. decoding = EmptyDict /\ pending = EmptyDict /\ queue = <<>>
  BY DEF Init, WorldInit, DecoderInit
<1>3. DecodingOK
  BY <1>2 DEF DecodingOK, EmptyDict
<1>4. \A p : NameOver(queue, pending, 0, p) = NamePending(pending, p)
  BY NoneTouches
<1>5. CatchesUp
  BY <1>2, <1>4, EmptyIsDict DEF CatchesUp, NameDecoding, NamePending
<1>6. ExitsPair
  BY <1>2 DEF ExitsPair
<1> QED  BY <1>1, <1>2, <1>3, <1>5, <1>6 DEF Inv, Types

\* The invariant is kept by reading a line and by showing an event.
LEMMA InvStep == Inv /\ [Next]_vars => Inv'
<1> SUFFICES ASSUME Inv, [Next]_vars PROVE Inv'
  OBVIOUS
<1>1. ASSUME NEW w \in Wire, Observe(w) PROVE Inv'
  BY <1>1, ObserveStep
<1>2. CASE Show
  BY <1>2, ShowStep
<1>3. CASE UNCHANGED vars
  BY <1>3 DEF vars, Inv, Types, Shape, Unknown, Coherent, DecodingOK, CatchesUp,
              ExitsPair, NameDecoding
<1> QED  BY <1>1, <1>2, <1>3 DEF Next

\* The invariant holds of the pipeline.
LEMMA Invariant == Spec => []Inv
BY InvInit, InvStep, PTL DEF Spec

\* Only well-formed events of event.py reach the World, whatever syscall numbers
\* and lines arrive (decode.py push).
THEOREM OnlyEventsArrive == Spec => []ObservationTypeOK
<1>1. Inv => ObservationTypeOK
  <2> SUFFICES ASSUME Inv PROVE ObservationTypeOK
    OBVIOUS
  <2>1. TypeOK
    BY ShapeIsInvariant DEF Inv, Types
  <2>2. \A i \in 1..Len(queue) : queue[i] \in AnyEvent
    BY DEF Inv, Types
  <2> QED  BY <2>1, <2>2 DEF Inv, Types, DecodingOK, AnyEvent, ObservationTypeOK
<1> QED  BY <1>1, Invariant, PTL

\* Applying what is queued makes the world remember exactly the pending ENTERs
\* the decoder does, however long the queue (decode.py and model.py _pending).
THEOREM TheWorldCatchesUp == Spec => []WorldCatchesUp
<1>1. Inv => WorldCatchesUp
  BY NameAfterIsOver DEF Inv, CatchesUp, WorldCatchesUp
<1> QED  BY <1>1, Invariant, PTL

\* An EXIT the decoder could name always finds its ENTER pending when it is
\* applied, and one it could not name finds nothing (D2, S3).
THEOREM NamedExitsPair == Spec => []EveryNamedExitPairs
<1>1. Inv => EveryNamedExitPairs
  BY NameAfterIsOver DEF Inv, ExitsPair, EveryNamedExitPairs
<1> QED  BY <1>1, Invariant, PTL
=============================================================================
