---------------------------- MODULE PlaybackProofs ----------------------------
(***************************************************************************)
(* What the viewer shows, for any tasks making any calls, and any hold and *)
(* gap of the Director.  First the boxes, from the agreement of the world  *)
(* with the kernel (Mirror); then the pulse and the status line, from the  *)
(* way a pulse moves with the frames since the last event (Flight).  Last  *)
(* the effects: what is left of a sequence of them when it has aged (Aged) *)
(* and the sum of their nudges (SplitOffset) are recursive functions, so   *)
(* their lemmas come first.                                                *)
(***************************************************************************)
EXTENDS Playback, WorldLemmas, FiniteSetTheorems, SequenceTheorems

\* The kernel's table and the world's agree: BoxesTellTheTruth, with the ENTER
\* of each task in a call pending, so that its EXIT pairs and a fork of it is
\* not taken for a thread.
CallingOK ==
    /\ calling \in [DOMAIN calling -> Call \cup {None}]
    /\ DOMAIN calling \subseteq Pid /\ IsFiniteSet(DOMAIN calling)

Mirror ==
    /\ Shape
    /\ CallingOK
    /\ initialPid \in {0, Root}
    /\ initialPid = 0 => /\ DOMAIN processes = {0} /\ processes[0].in_syscall = None
                         /\ DOMAIN calling \subseteq {Root} /\ \A p \in DOMAIN calling : ~InCall(p)
    /\ initialPid # 0 =>
          /\ DOMAIN processes = DOMAIN calling \cup {initialPid}
          /\ \A p \in DOMAIN calling :
                processes[p].in_syscall = IF InCall(p) THEN calling[p].name ELSE None
    /\ \A p \in DOMAIN calling :
          InCall(p) => p \in DOMAIN pending /\ pending[p].name = calling[p].name

\* The world that an event of a task is applied to.
LEMMA LookupOfTask ==
    ASSUME Mirror, NEW p \in DOMAIN calling
    PROVE  LET P == ProcessesWith(p)
           IN  /\ p \in Pid /\ p \in DOMAIN P
               /\ InitialWith(p) = Root
               /\ DOMAIN P = DOMAIN calling \cup {Root}
               /\ \A q \in DOMAIN calling :
                     P[q].in_syscall = IF InCall(q) THEN calling[q].name ELSE None
               /\ PendingWith(p) = pending
               /\ initialPid # 0 => P = processes
<1> DEFINE P == ProcessesWith(p)
<1>1. p \in Pid /\ 0 \notin Pid
  BY PidAssumption DEF Mirror, CallingOK
<1>2. PendingWith(p) = pending
  BY <1>1, LookupKeepsPending DEF Mirror
<1>3. CASE initialPid = 0
  <2>1. Adopting /\ DOMAIN processes = {0} /\ processes[0].in_syscall = None
    BY <1>3 DEF Mirror, Adopting
  <2>2. p = Root /\ DOMAIN calling = {Root} /\ ~InCall(p)
    BY <1>3 DEF Mirror
  <2>3. P = Put(Drop(processes, 0), p, [processes[0] EXCEPT !.pid = p])
    BY <2>1 DEF ProcessesWith
  <2>4. IsProcess(processes[0])
    BY <2>1, ShapeIsInvariant DEF Mirror, TypeOK
  <2>5. [processes[0] EXCEPT !.pid = p].in_syscall = None
    BY <2>1, <2>4 DEF IsProcess
  <2>6. DOMAIN P = {p} /\ P[p].in_syscall = None
    BY <2>1, <2>3, <2>5 DEF Put, Drop
  <2>7. InitialWith(p) = Root
    BY <2>1, <2>2 DEF InitialWith
  <2> QED  BY <1>1, <1>2, <1>3, <2>2, <2>6, <2>7
<1>4. CASE initialPid # 0
  <2>1. ~Adopting /\ p \in DOMAIN processes
    BY <1>4 DEF Mirror, Adopting
  <2>2. P = processes /\ InitialWith(p) = initialPid /\ initialPid = Root
    BY <1>4, <2>1 DEF ProcessesWith, InitialWith, Mirror
  <2> QED  BY <1>1, <1>2, <1>4, <2>1, <2>2 DEF Mirror
<1> QED  BY <1>3, <1>4

\* A call in progress is told from none.
LEMMA CallIsSome ==
    ASSUME NEW name \in CallName, NEW forked \in BOOLEAN
    PROVE  [name |-> name, forked |-> forked] # None
BY NoCallAssumption DEF Call

\* A task goes into a call in the kernel and in the world at once.
LEMMA MirrorEnter ==
    ASSUME Mirror, NEW e \in Released, e.kind = "ENTER", Happens(e), ApplyEnter(e), Shape'
    PROVE  Mirror' /\ initialPid' = Root
<1> DEFINE P == ProcessesWith(e.pid)
           c == [name |-> e.name, forked |-> FALSE]
<1>1. e \in EnterEvent /\ e.name \in CallName
  BY ReleasedAssumption DEF EnterEvent, ExitEvent, SpawnEvent, DeathEvent
<1>2. e.pid \in DOMAIN calling /\ calling' = [calling EXCEPT ![e.pid] = c]
  BY DEF Happens
<1>3. c \in Call /\ c # None /\ c.name = e.name
  BY <1>1, CallIsSome DEF Call
<1>4. /\ e.pid \in Pid /\ e.pid \in DOMAIN P
      /\ DOMAIN P = DOMAIN calling \cup {Root}
      /\ \A q \in DOMAIN calling :
            P[q].in_syscall = IF InCall(q) THEN calling[q].name ELSE None
      /\ InitialWith(e.pid) = Root /\ PendingWith(e.pid) = pending
  BY <1>2, LookupOfTask
<1>5. Coherent(P, Root, pending)
  BY <1>4, LookupIsCoherent DEF Mirror
<1>6. P[e.pid].pid = e.pid /\ IsProcess(P[e.pid])
  BY <1>4, <1>5 DEF Coherent
<1>7. /\ processes' = [P EXCEPT ![e.pid] = [P[e.pid] EXCEPT !.in_syscall = e.name]]
      /\ pending' = Put(pending, e.pid, e)
      /\ initialPid' = Root
  BY <1>4, <1>6 DEF ApplyEnter
<1> HIDE DEF P, c
<1>8. [P[e.pid] EXCEPT !.in_syscall = e.name].in_syscall = e.name
  BY <1>6 DEF IsProcess
<1>9. /\ DOMAIN processes' = DOMAIN P
      /\ processes'[e.pid].in_syscall = e.name
      /\ \A q \in DOMAIN P \ {e.pid} : processes'[q] = P[q]
  BY <1>4, <1>7, <1>8
<1>10. /\ e.pid \in DOMAIN pending' /\ pending'[e.pid] = e
       /\ \A q \in DOMAIN pending \ {e.pid} : q \in DOMAIN pending' /\ pending'[q] = pending[q]
  BY <1>7 DEF Put
<1>11. /\ DOMAIN calling' = DOMAIN calling /\ calling'[e.pid] = c
       /\ \A q \in DOMAIN calling \ {e.pid} : calling'[q] = calling[q]
  BY <1>2 DEF Mirror, CallingOK
<1>12. CallingOK'
  BY <1>2, <1>3 DEF Mirror, CallingOK
<1>13. Root # 0
  BY RootAssumption, PidAssumption
<1> QED  BY <1>3, <1>4, <1>7, <1>9, <1>10, <1>11, <1>12, <1>13 DEF Mirror, InCall

\* The EXIT of the call a task is in finds its ENTER, and leaves its result in the
\* world.
LEMMA MirrorExit ==
    ASSUME Mirror, NEW e \in Released, e.kind = "EXIT", Happens(e), ApplyExit(e), Shape'
    PROVE  /\ Mirror' /\ initialPid' = Root /\ initialPid = Root
           /\ e \in ExitEvent /\ e.result # None
           /\ processes'[e.pid].last_result = e.result
           /\ \A p \in DOMAIN processes \ {e.pid} : processes'[p] = processes[p]
<1>1. e \in ExitEvent /\ e.result # None
  BY ReleasedAssumption DEF EnterEvent, ExitEvent, SpawnEvent, DeathEvent
<1>2. /\ e.pid \in DOMAIN calling /\ InCall(e.pid) /\ calling[e.pid].name = e.name
      /\ calling' = [calling EXCEPT ![e.pid] = None]
  BY DEF Happens, InCall
<1>3. initialPid # 0 /\ initialPid = Root
  BY <1>2 DEF Mirror
<1>4. /\ ProcessesWith(e.pid) = processes /\ PendingWith(e.pid) = pending
      /\ InitialWith(e.pid) = Root /\ e.pid \in DOMAIN processes /\ e.pid \in Pid
  BY <1>2, <1>3, LookupOfTask
<1>5. processes[e.pid].pid = e.pid
  BY <1>4, LookupKeepsPending DEF Mirror
<1>6. PICK r : /\ r.in_syscall = None /\ r.last_result = e.result
               /\ processes' = [processes EXCEPT ![e.pid] = r]
  BY <1>1, <1>4, ExitRewrites DEF Mirror
<1>7. e.pid \in DOMAIN pending /\ pending[e.pid].name = e.name
  BY <1>2 DEF Mirror
<1>8. pending' = Drop(pending, e.pid) /\ initialPid' = Root
  BY <1>4, <1>5, <1>7 DEF ApplyExit
<1>9. /\ DOMAIN processes' = DOMAIN processes /\ processes'[e.pid] = r
      /\ \A q \in DOMAIN processes \ {e.pid} : processes'[q] = processes[q]
  BY <1>4, <1>6
<1>10. \A q \in DOMAIN pending \ {e.pid} : q \in DOMAIN pending' /\ pending'[q] = pending[q]
  BY <1>8 DEF Drop
<1>11. /\ DOMAIN calling' = DOMAIN calling /\ calling'[e.pid] = None
       /\ \A q \in DOMAIN calling \ {e.pid} : calling'[q] = calling[q]
  BY <1>2 DEF Mirror, CallingOK
<1>12. CallingOK'
  BY <1>2 DEF Mirror, CallingOK
<1>13. Mirror'
  BY <1>3, <1>6, <1>8, <1>9, <1>10, <1>11, <1>12 DEF Mirror, InCall
<1> QED  BY <1>1, <1>3, <1>6, <1>8, <1>9, <1>13

\* A fork puts a child at large in the kernel and a box of its own in the world.
LEMMA MirrorSpawn ==
    ASSUME Mirror, NEW e \in Released, e.kind = "SPAWN", Happens(e), ApplySpawn(e), Shape'
    PROVE  /\ Mirror' /\ initialPid' = initialPid
           /\ e.child \notin DOMAIN calling
           /\ \A p \in DOMAIN processes \ {e.child} : processes'[p] = processes[p]
<1> DEFINE c == [name |-> "fork", forked |-> FALSE]
           d == [c EXCEPT !.forked = TRUE]
<1>1. e.parent \in Pid /\ e.child \in Pid
  BY ReleasedAssumption DEF EnterEvent, ExitEvent, SpawnEvent, DeathEvent
<1>2. /\ e.parent \in DOMAIN calling /\ InCall(e.parent) /\ calling[e.parent] = c
      /\ e.child \notin DOMAIN calling
      /\ calling' = Put([calling EXCEPT ![e.parent].forked = TRUE], e.child, None)
  BY DEF Happens, InCall
<1>3. initialPid # 0 /\ initialPid = Root
  BY <1>2 DEF Mirror
<1>4. /\ ProcessesWith(e.parent) = processes /\ PendingWith(e.parent) = pending
      /\ InitialWith(e.parent) = Root /\ e.parent \in DOMAIN processes
  BY <1>2, <1>3, LookupOfTask
<1>5. processes[e.parent].pid = e.parent
  BY <1>1, <1>4, LookupKeepsPending DEF Mirror
<1>6. e.parent \in DOMAIN pending /\ pending[e.parent].name = "fork"
  BY <1>2 DEF Mirror
<1> DEFINE r == NewProcess(e.child, processes[e.parent].name, processes[e.parent].pid,
                           processes[e.parent].fds)
<1>7. processes' = Put(processes, e.child, r) /\ pending' = pending /\ initialPid' = Root
  BY <1>4, <1>5, <1>6 DEF ApplySpawn
<1>8. r.in_syscall = None
  BY DEF NewProcess
<1> HIDE DEF r
<1>9. /\ DOMAIN processes' = DOMAIN processes \cup {e.child} /\ processes'[e.child] = r
      /\ \A q \in DOMAIN processes \ {e.child} : processes'[q] = processes[q]
  BY <1>7 DEF Put
<1>10. "fork" \in CallName
  BY <1>2 DEF Mirror, CallingOK, Call, InCall
<1>11. d \in Call /\ d # None /\ c \in Call
  <2>1. c \in Call /\ d \in Call
    BY <1>10 DEF Call
  <2> QED  BY <2>1, NoCallAssumption
<1>12. [calling EXCEPT ![e.parent].forked = TRUE] = [calling EXCEPT ![e.parent] = d]
  <2> HIDE DEF c
  <2> QED  BY <1>2
<1>13. /\ DOMAIN calling' = DOMAIN calling \cup {e.child}
       /\ calling'[e.child] = None /\ calling'[e.parent] = d
       /\ \A q \in DOMAIN calling \ {e.parent} : calling'[q] = calling[q]
       /\ calling' = [q \in DOMAIN calling' |-> calling'[q]]
  BY <1>2, <1>12 DEF Put, Mirror, CallingOK
<1>14. IsFiniteSet(DOMAIN calling')
  BY <1>13, FS_AddElement DEF Mirror, CallingOK
<1>15. CallingOK'
  BY <1>1, <1>11, <1>13, <1>14 DEF Mirror, CallingOK
<1>16. d.name = "fork" /\ c.name = "fork"
  OBVIOUS
<1> HIDE DEF c, d
<1>17. initialPid' # 0 /\ initialPid' \in {0, Root}
  BY <1>3, <1>7
<1>18. DOMAIN processes' = DOMAIN calling' \cup {initialPid'}
  BY <1>3, <1>7, <1>9, <1>13 DEF Mirror
<1>19. \A q \in DOMAIN calling' :
          processes'[q].in_syscall = IF InCall(q)' THEN calling'[q].name ELSE None
  <2> SUFFICES ASSUME NEW q \in DOMAIN calling'
               PROVE  processes'[q].in_syscall = IF InCall(q)' THEN calling'[q].name ELSE None
    OBVIOUS
  <2>1. CASE q = e.child
    BY <1>8, <1>9, <1>13, <2>1 DEF InCall
  <2>2. CASE q = e.parent
    BY <1>2, <1>3, <1>9, <1>11, <1>13, <1>16, <2>2 DEF Mirror, InCall
  <2>3. CASE q \in DOMAIN calling \ {e.child, e.parent}
    BY <1>3, <1>9, <1>13, <2>3 DEF Mirror, InCall
  <2> QED  BY <1>13, <2>1, <2>2, <2>3
<1>20. \A q \in DOMAIN calling' :
          InCall(q)' => q \in DOMAIN pending' /\ pending'[q].name = calling'[q].name
  <2> SUFFICES ASSUME NEW q \in DOMAIN calling', InCall(q)'
               PROVE  q \in DOMAIN pending' /\ pending'[q].name = calling'[q].name
    OBVIOUS
  <2>1. CASE q = e.child
    BY <1>13, <2>1 DEF InCall
  <2>2. CASE q = e.parent
    BY <1>2, <1>7, <1>13, <1>16, <2>2 DEF Mirror, InCall
  <2>3. CASE q \in DOMAIN calling \ {e.child, e.parent}
    BY <1>7, <1>13, <2>3 DEF Mirror, InCall
  <2> QED  BY <1>13, <2>1, <2>2, <2>3
<1>21. Mirror'
  BY <1>15, <1>17, <1>18, <1>19, <1>20 DEF Mirror
<1> QED  BY <1>2, <1>3, <1>7, <1>9, <1>21

\* A death takes the task away on both sides, but the initial process keeps its box.
LEMMA MirrorDeath ==
    ASSUME Mirror, NEW e \in Released, e.kind = "DEATH", Happens(e), ApplyDeath(e), Shape'
    PROVE  /\ Mirror' /\ initialPid' = initialPid
           /\ \A p \in DOMAIN processes \ {e.pid} : processes'[p] = processes[p]
           /\ e.pid = initialPid => processes' = processes
<1>1. e.pid \in DOMAIN calling /\ calling' = Drop(calling, e.pid)
  BY DEF Happens
<1>2. e.pid \in Pid /\ e.pid # 0
  BY <1>1, PidAssumption DEF Mirror, CallingOK
<1>3. /\ pending' = Drop(pending, e.pid) /\ initialPid' = initialPid
      /\ processes' = IF e.pid = initialPid THEN processes ELSE Drop(processes, e.pid)
  BY DEF ApplyDeath
<1>4. /\ DOMAIN calling' = DOMAIN calling \ {e.pid}
      /\ \A q \in DOMAIN calling' : calling'[q] = calling[q]
      /\ calling' = [q \in DOMAIN calling' |-> calling'[q]]
  BY <1>1 DEF Drop
<1>5. IsFiniteSet(DOMAIN calling')
  BY <1>4, FS_Subset DEF Mirror, CallingOK
<1>6. CallingOK'
  BY <1>4, <1>5 DEF Mirror, CallingOK
<1>7. \A q \in DOMAIN pending \ {e.pid} : q \in DOMAIN pending' /\ pending'[q] = pending[q]
  BY <1>3 DEF Drop
<1>8. /\ \A q \in DOMAIN processes \ {e.pid} :
            q \in DOMAIN processes' /\ processes'[q] = processes[q]
      /\ DOMAIN processes' = IF e.pid = initialPid THEN DOMAIN processes
                             ELSE DOMAIN processes \ {e.pid}
  BY <1>3 DEF Drop
<1>9. Mirror'
  BY <1>1, <1>2, <1>3, <1>4, <1>6, <1>7, <1>8 DEF Mirror, InCall
<1> QED  BY <1>3, <1>8, <1>9

\* Released events are applied by the handler of their kind.
LEMMA ReleaseCases ==
    ASSUME Shape, NEW e \in Released, Release(e)
    PROVE  /\ Shape'
           /\ \/ e.kind = "ENTER" /\ e \in EnterEvent /\ ApplyEnter(e) /\ NotifyEnter(e)
              \/ e.kind = "EXIT" /\ e \in ExitEvent /\ ApplyExit(e) /\ NotifyExit(e)
              \/ e.kind = "SPAWN" /\ e \in SpawnEvent /\ ApplySpawn(e) /\ NotifySpawn(e)
              \/ e.kind = "DEATH" /\ e \in DeathEvent /\ ApplyDeath(e) /\ NotifyDeath(e)
<1>1. Apply(e) /\ Notify(e)
  BY DEF Release
<1>2. Shape'
  BY <1>1, ReleasedAssumption, ShapeStep
<1>3. /\ e.kind = "ENTER" => e \in EnterEvent
      /\ e.kind = "EXIT" => e \in ExitEvent
      /\ e.kind = "SPAWN" => e \in SpawnEvent
      /\ e.kind = "DEATH" => e \in DeathEvent
  BY ReleasedAssumption DEF EnterEvent, ExitEvent, SpawnEvent, DeathEvent
<1> QED  BY <1>1, <1>2, <1>3 DEF Apply, Notify

\* At the start the one task has made no call.
LEMMA MirrorInit == Init => Mirror
<1> SUFFICES ASSUME Init PROVE Mirror
  OBVIOUS
<1>1. Shape /\ WorldInit /\ calling = Put(EmptyDict, Root, None)
  BY ShapeInit DEF Init
<1>2. DOMAIN calling = {Root} /\ calling[Root] = None /\ calling = [p \in DOMAIN calling |-> calling[p]]
  BY <1>1, EmptyIsDict DEF Put
<1>3. CallingOK
  BY <1>2, RootAssumption, FS_Singleton DEF CallingOK
<1> DEFINE r == NewProcess(INITIAL_PID, INITIAL_NAME, 0, EmptyDict)
<1>4. r.in_syscall = None
  BY DEF NewProcess
<1>5. processes = Put(EmptyDict, INITIAL_PID, r) /\ initialPid = INITIAL_PID
  BY <1>1 DEF WorldInit
<1> HIDE DEF r
<1>6. DOMAIN processes = {INITIAL_PID} /\ processes[INITIAL_PID] = r
  BY <1>5, EmptyIsDict DEF Put
<1> QED  BY <1>1, <1>2, <1>3, <1>4, <1>5, <1>6, RootAssumption DEF Mirror, InCall

\* The invariant is kept by every event, frame and draw.
LEMMA MirrorStep == Mirror /\ [Next]_vars => Mirror'
<1> SUFFICES ASSUME Mirror, [Next]_vars PROVE Mirror'
  OBVIOUS
<1>1. ASSUME NEW e \in Released, Release(e) PROVE Mirror'
  BY <1>1, ReleaseCases, MirrorEnter, MirrorExit, MirrorSpawn, MirrorDeath DEF Mirror, Release
<1>2. CASE UNCHANGED <<worldVars, calling>>
  BY <1>2 DEF worldVars, Mirror, CallingOK, InCall, Shape, Unknown, Coherent
<1> QED  BY <1>1, <1>2 DEF Next, Frame, Draw, vars

\* The kernel and the world agree at all times.
LEMMA MirrorInvariant == Spec => []Mirror
BY MirrorInit, MirrorStep, PTL DEF Spec

\* There is a box for each live task, in the call it is in, and one more for the
\* initial process if it died, whatever the tasks do (S9, S11).
THEOREM BoxesTrue == Spec => []BoxesTellTheTruth
<1>1. Mirror => BoxesTellTheTruth
  BY DEF Mirror, BoxesTellTheTruth
<1> QED  BY <1>1, MirrorInvariant, PTL
-----------------------------------------------------------------------------
\* There is a box for each process.
LEMMA BoxesDomain == DOMAIN Ppids = DOMAIN processes /\ DOMAIN Boxes = DOMAIN processes
BY DEF Boxes, BoxesOf, Ppids

\* A box of the layout has whole coordinates.
LEMMA BoxesAreWhole ==
    ASSUME NEW ppids, IsFiniteSet(DOMAIN ppids), NEW p \in DOMAIN ppids
    PROVE  BoxesOf(ppids)[p].x \in Int /\ BoxesOf(ppids)[p].w \in Int
<1> DEFINE D == DOMAIN ppids
<1>1. CASE Cardinality(D) = 1
  <2>1. BoxesOf(ppids) = [q \in D |-> LoneBox]
    BY <1>1 DEF BoxesOf
  <2> QED  BY <2>1 DEF LoneBox, PROC_X, PROC_W
<1>2. CASE Cardinality(D) # 1
  <2> DEFINE depth == [q \in D |-> DepthOf(ppids, q)]
             Row(q) == {o \in D : depth[o] = depth[q]}
             BoxIn(row, q) ==
                 LET slot == SlotOf(Cardinality(row))
                 IN  [x |-> ROW_X + Cardinality({o \in row : o < q}) * (slot + BOX_GAP),
                      y |-> PROC_Y + depth[q] * ROW_STEP,
                      w |-> BoxWidth(slot), h |-> TREE_BOX_H]
  <2>1. BoxesOf(ppids) = [q \in D |-> BoxIn(Row(q), q)]
    BY <1>2 DEF BoxesOf
  <2> DEFINE row == Row(p)
             n == Cardinality(row)
             k == Cardinality({o \in row : o < p})
  <2>2. row \subseteq D /\ p \in row
    OBVIOUS
  <2> HIDE DEF row, Row, depth
  <2>3. IsFiniteSet(row) /\ IsFiniteSet({o \in row : o < p})
    BY <2>2, FS_Subset
  <2>4. n \in Nat /\ k \in Nat
    BY <2>3, FS_CardinalityType
  <2>5. n # 0
    BY <2>2, <2>3, FS_EmptySet
  <2> HIDE DEF n, k
  <2>6. SlotOf(n) \in Int
    BY <2>4, <2>5 DEF SlotOf, ROW_W, BOX_GAP, ROW_X, WIDTH
  <2> DEFINE slot == SlotOf(n)
  <2> HIDE DEF slot
  <2>7. \A a, b \in Int : Max({a, b}) \in Int /\ Min({a, b}) \in Int
    <3> SUFFICES ASSUME NEW a \in Int, NEW b \in Int
                 PROVE  Max({a, b}) \in Int /\ Min({a, b}) \in Int
      OBVIOUS
    <3>1. \E x \in {a, b} : \A y \in {a, b} : x >= y
      OBVIOUS
    <3>2. \E x \in {a, b} : \A y \in {a, b} : x =< y
      OBVIOUS
    <3> QED  BY <3>1, <3>2 DEF Max, Min
  <2>8. slot \in Int
    BY <2>6 DEF slot
  <2>9. BoxWidth(slot) \in Int
    <3>1. MIN_BOX_W \in Int /\ PROC_W \in Int
      BY DEF MIN_BOX_W, PROC_W
    <3>2. Min({PROC_W, slot}) \in Int
      BY <2>7, <2>8, <3>1
    <3> QED  BY <2>7, <3>1, <3>2 DEF BoxWidth
  <2>10. /\ BoxesOf(ppids)[p].x = ROW_X + k * (slot + BOX_GAP)
         /\ BoxesOf(ppids)[p].w = BoxWidth(slot)
    BY <2>1 DEF slot, n, k, row
  <2> QED  BY <2>1, <2>4, <2>8, <2>9, <2>10 DEF ROW_X, BOX_GAP
<1> QED  BY <1>1, <1>2
-----------------------------------------------------------------------------
(***************************************************************************)
(* The pulse and the history of the last syscall event.  A pulse on its    *)
(* way moves with the frames since that event, for every ENTER starts it   *)
(* and every EXIT turns it back.                                           *)
(***************************************************************************)
Capped(n) == IF n < MaxQuiet THEN n ELSE MaxQuiet

WayDown(t) == Eased(ORIGIN_Y * PX, REST_Y * PX, t, DESCEND_FRAMES)

Fields ==
    /\ pulse \in AnyPulse \cup {None}
    /\ status \in AnyStatus \cup {None}
    /\ last \in Observed \cup {None}
    /\ quiet \in Nat /\ wait \in Nat /\ at \in {"poll", "step"}
    /\ \A p \in DOMAIN rects : rects[p].x \in Int /\ rects[p].w \in Int

Trip ==
    pulse # None =>
        /\ pulse.target_x = zone_center(classify(pulse.name))
        /\ pulse.state = "DESCEND" =>
              pulse.t < DESCEND_FRAMES /\ quiet = Capped(pulse.t) /\ pulse.y = WayDown(pulse.t)
        /\ pulse.state = "WAIT" => pulse.x = pulse.target_x * PX /\ pulse.y = REST_Y * PX
        /\ pulse.state = "RETURN" => pulse.t < RETURN_FRAMES /\ quiet = Capped(pulse.t)

Shown ==
    /\ last = None => pulse = None
    /\ LastWas("ENTER") =>
          /\ pulse # None /\ pulse.state # "RETURN" /\ pulse.name = last.event.name
          /\ InCall(last.event.pid) => calling[last.event.pid].name = last.event.name
    /\ LastWas("EXIT") => pulse = None \/ pulse.state = "RETURN"
    /\ last # None /\ last.completes => LastWas("EXIT")

Flight == Mirror /\ Fields /\ Trip /\ Shown /\ StatusIsLastCall

\* The easing stays with the integers.
LEMMA EasedIsWhole ==
    \A from, to, t \in Int : \A frames \in Nat \ {0} : Eased(from, to, t, frames) \in Int
<1> SUFFICES ASSUME NEW from \in Int, NEW to \in Int, NEW t \in Int, NEW frames \in Nat \ {0}
             PROVE  Eased(from, to, t, frames) \in Int
  OBVIOUS
<1> DEFINE a == (to - from) * (t * t * (3 * frames - 2 * t))
           b == frames * frames * frames
<1>1. a \in Int
  OBVIOUS
<1>2. b \in Nat /\ b > 0
  OBVIOUS
<1> HIDE DEF a, b
<1>3. a \div b \in Int
  BY <1>1, <1>2
<1> QED  BY <1>3 DEF Eased, a, b

\* A name's zone has a whole centre.
LEMMA CenterIsWhole == \A name : zone_center(classify(name)) \in Int
BY DEF zone_center, classify, zone_bounds, ZONE_ORDER, ZONE_W, WIDTH

\* The pulse starts at a whole place.
LEMMA OriginIsWhole ==
    ASSUME Fields, NEW p
    PROVE  OriginX(p) \in Int
BY DEF Fields, OriginX, BoxRect, LoneBox, CenterOf, PROC_X, PROC_W

\* A new pulse.
LEMMA NewPulseFacts ==
    ASSUME Fields, NEW e \in EnterEvent
    PROVE  /\ NewPulse(e) \in AnyPulse
           /\ NewPulse(e).name = e.name /\ NewPulse(e).state = "DESCEND" /\ NewPulse(e).t = 0
           /\ NewPulse(e).target_x = zone_center(classify(e.name))
           /\ NewPulse(e).y = WayDown(0)
           /\ NewPulse(e).origin_x = OriginX(e.pid)
<1> DEFINE p == NewPulse(e)
<1>1. /\ zone_center(classify(e.name)) \in Int /\ OriginX(e.pid) \in Int
      /\ e.name \in CallName /\ e.path \in Path \cup {None} /\ e.fd \in Number \cup {None}
  BY CenterIsWhole, OriginIsWhole DEF EnterEvent
<1>2. p \in AnyPulse
  BY <1>1 DEF NewPulse, AnyPulse, PX, ORIGIN_Y, PROC_Y, PROC_H, REST_Y
<1>3. WayDown(0) = ORIGIN_Y * PX
  BY DEF WayDown, Eased, ORIGIN_Y, PROC_Y, PROC_H, PX, REST_Y, DESCEND_FRAMES
<1> QED  BY <1>2, <1>3 DEF NewPulse

\* A pulse turned back.
LEMMA TurnedBackFacts ==
    ASSUME pulse \in AnyPulse, NEW result \in Result
    PROVE  /\ TurnedBack(result) \in AnyPulse
           /\ TurnedBack(result).state = "RETURN" /\ TurnedBack(result).t = 0
           /\ TurnedBack(result).target_x = pulse.target_x
           /\ TurnedBack(result).name = pulse.name
BY DEF TurnedBack, AnyPulse

\* A pulse one frame further down.
LEMMA DescendedFacts ==
    ASSUME pulse \in AnyPulse, pulse.t < DESCEND_FRAMES
    PROVE  /\ Descended \in AnyPulse
           /\ Descended.target_x = pulse.target_x /\ Descended.name = pulse.name
           /\ IF pulse.t + 1 < DESCEND_FRAMES
              THEN /\ Descended.state = pulse.state /\ Descended.t = pulse.t + 1
                   /\ Descended.y = WayDown(pulse.t + 1)
              ELSE /\ Descended.state = "WAIT"
                   /\ Descended.x = pulse.target_x * PX /\ Descended.y = REST_Y * PX
<1> DEFINE t == pulse.t + 1
           from == pulse.origin_x * PX
           to == pulse.target_x * PX
           top == ORIGIN_Y * PX
           rest == REST_Y * PX
           x == Eased(from, to, t, DESCEND_FRAMES)
           y == Eased(top, rest, t, DESCEND_FRAMES)
<1>1. t \in Nat /\ t \in Int /\ from \in Int /\ to \in Int
  BY DEF AnyPulse, PX
<1>2. top \in Int /\ rest \in Int /\ DESCEND_FRAMES \in Nat \ {0}
  BY DEF ORIGIN_Y, PROC_Y, PROC_H, PX, REST_Y, DESCEND_FRAMES
<1>3. x \in Int /\ y \in Int
  <2> HIDE DEF from, to, top, rest, t
  <2> QED  BY <1>1, <1>2, EasedIsWhole
<1>4. y = WayDown(t)
  BY DEF WayDown
<1> HIDE DEF x, y
<1>5. CASE t < DESCEND_FRAMES
  <2>1. Descended = [pulse EXCEPT !.t = t, !.x = x, !.y = y]
    BY <1>5 DEF Descended, x, y
  <2> HIDE DEF t
  <2> QED  BY <1>1, <1>3, <1>4, <1>5, <2>1 DEF AnyPulse, t
<1>6. CASE ~(t < DESCEND_FRAMES)
  <2>1. Descended = [pulse EXCEPT !.t = 0, !.x = pulse.target_x * PX, !.y = REST_Y * PX,
                                  !.state = "WAIT"]
    BY <1>6 DEF Descended
  <2> QED  BY <1>1, <1>2, <1>6, <2>1 DEF AnyPulse
<1> QED  BY <1>5, <1>6

\* A pulse one frame further on its way back.
LEMMA ReturningFacts ==
    ASSUME pulse \in AnyPulse, pulse.t + 1 < RETURN_FRAMES, StepReturn
    PROVE  /\ pulse' \in AnyPulse /\ pulse'.t = pulse.t + 1 /\ pulse'.state = pulse.state
           /\ pulse'.target_x = pulse.target_x /\ pulse'.name = pulse.name
<1> DEFINE t == pulse.t + 1
           from == pulse.target_x * PX
           to == pulse.origin_x * PX
           top == ORIGIN_Y * PX
           x == Eased(from, to, t, RETURN_FRAMES)
           y == Eased(pulse.return_from, top, t, RETURN_FRAMES)
<1>1. pulse' = [pulse EXCEPT !.t = t, !.x = x, !.y = y]
  BY DEF StepReturn
<1>2. /\ t \in Nat /\ t \in Int /\ from \in Int /\ to \in Int /\ pulse.return_from \in Int
      /\ top \in Int /\ RETURN_FRAMES \in Nat \ {0}
  BY DEF AnyPulse, PX, ORIGIN_Y, PROC_Y, PROC_H, RETURN_FRAMES
<1>3. x \in Int /\ y \in Int
  <2> HIDE DEF from, to, top, t
  <2> QED  BY <1>2, EasedIsWhole
<1> HIDE DEF x, y, t
<1>4. /\ pulse' \in AnyPulse /\ pulse'.t = t /\ pulse'.state = pulse.state
      /\ pulse'.target_x = pulse.target_x /\ pulse'.name = pulse.name
  BY <1>1, <1>2, <1>3 DEF AnyPulse
<1> QED  BY <1>4 DEF t

\* A record of the history.
LEMMA ObservedFacts ==
    ASSUME NEW e \in EnterEvent \cup ExitEvent, NEW b \in BOOLEAN
    PROVE  /\ [event |-> e, completes |-> b] \in Observed
           /\ [event |-> e, completes |-> b] # None
BY NoCallAssumption DEF Observed

\* An ENTER starts a pulse of its own.
LEMMA FlightEnter ==
    ASSUME Flight, NEW e \in Released, Release(e), e.kind = "ENTER"
    PROVE  Flight'
<1>1. /\ e \in EnterEvent /\ Happens(e) /\ ApplyEnter(e) /\ Shape' /\ NotifyEnter(e)
  BY ReleaseCases DEF Flight, Mirror, Release, Apply, Notify
<1>2. Mirror'
  BY <1>1, MirrorEnter DEF Flight
<1> DEFINE l == [event |-> e, completes |-> Completes(e)]
<1>3. /\ pulse' = NewPulse(e) /\ rects' = rects /\ status' = status
      /\ last' = l /\ quiet' = 0 /\ at' = "step" /\ wait' = ENTER_HOLD_FRAMES
      /\ calling' = [calling EXCEPT ![e.pid] = [name |-> e.name, forked |-> FALSE]]
      /\ e.pid \in DOMAIN calling
  BY <1>1 DEF Release, NotifyEnter, PulseAfter, IsSyscall, Happens
<1>4. ~Completes(e) /\ Completes(e) \in BOOLEAN
  BY DEF Completes
<1>5. l \in Observed /\ l # None /\ l.event = e /\ ~l.completes
  BY <1>1, <1>4, ObservedFacts
<1> HIDE DEF l
<1> DEFINE p == NewPulse(e)
<1>6. /\ p \in AnyPulse /\ p.name = e.name /\ p.state = "DESCEND" /\ p.t = 0
      /\ p.target_x = zone_center(classify(e.name)) /\ p.y = WayDown(0)
  BY <1>1, NewPulseFacts DEF Flight
<1>7. pulse' = p
  BY <1>3
<1> HIDE DEF p
<1>8. p # None
  BY <1>6, NoPulseAssumption
<1>9. Fields'
  BY <1>3, <1>5, <1>6, <1>7, FramesAssumption DEF Flight, Fields
<1>10. Trip'
  BY <1>3, <1>6, <1>7, FramesAssumption DEF Trip, Capped, DESCEND_FRAMES
<1>11. Shown'
  <2>1. calling'[e.pid].name = e.name
    BY <1>3 DEF Flight, Mirror, CallingOK
  <2> QED  BY <1>3, <1>5, <1>6, <1>7, <1>8, <2>1 DEF Shown, LastWas
<1>12. StatusIsLastCall'
  BY <1>3, <1>5 DEF StatusIsLastCall
<1> QED  BY <1>2, <1>9, <1>10, <1>11, <1>12 DEF Flight

\* An EXIT turns the pulse back, if there is one, and the status line tells it.
LEMMA FlightExit ==
    ASSUME Flight, NEW e \in Released, Release(e), e.kind = "EXIT"
    PROVE  Flight'
<1>1. /\ e \in ExitEvent /\ Happens(e) /\ ApplyExit(e) /\ Shape' /\ NotifyExit(e)
  BY ReleaseCases DEF Flight, Mirror, Release, Apply, Notify
<1>2. Mirror' /\ e.result # None
  BY <1>1, MirrorExit DEF Flight
<1> DEFINE l == [event |-> e, completes |-> Completes(e)]
<1>3. /\ last' = l /\ quiet' = 0 /\ at' = "step" /\ wait' = MIN_GAP_FRAMES
      /\ e.pid \in DOMAIN calling /\ InCall(e.pid) /\ calling[e.pid].name = e.name
  BY <1>1 DEF Release, IsSyscall, Happens, InCall
<1>4. Completes(e) \in BOOLEAN
  BY DEF Completes
<1>5. l \in Observed /\ l # None /\ l.event = e /\ (l.completes <=> Completes(e))
  BY <1>1, <1>4, ObservedFacts
<1> HIDE DEF l
<1>6. e.result \in Result
  BY <1>1, <1>2 DEF ExitEvent
<1>7. CASE pulse = None
  <2>1. UNCHANGED sceneVars
    BY <1>1, <1>7 DEF NotifyExit
  <2>2. ~Completes(e)
    BY <1>7 DEF Flight, Shown, Completes, LastWas
  <2>3. Fields'
    BY <1>3, <1>5, <2>1, FramesAssumption DEF Flight, Fields, sceneVars
  <2>4. Trip'
    BY <1>7, <2>1 DEF Trip, sceneVars
  <2>5. Shown'
    BY <1>1, <1>3, <1>5, <1>7, <2>1 DEF Shown, LastWas, sceneVars
  <2>6. StatusIsLastCall'
    BY <1>3, <1>5, <2>2 DEF StatusIsLastCall
  <2> QED  BY <1>2, <2>3, <2>4, <2>5, <2>6 DEF Flight
<1>8. CASE pulse # None
  <2> DEFINE p == TurnedBack(e.result)
             s == StatusAfter(e.result)
  <2>1. pulse' = p /\ status' = s /\ rects' = rects
    BY <1>1, <1>2, <1>8 DEF NotifyExit, StatusOf
  <2>2. pulse \in AnyPulse
    BY <1>8 DEF Flight, Fields
  <2>3. /\ p \in AnyPulse /\ p.state = "RETURN" /\ p.t = 0
        /\ p.target_x = pulse.target_x /\ p.name = pulse.name
    BY <1>6, <2>2, TurnedBackFacts
  <2>4. /\ s \in AnyStatus /\ s.name = pulse.name
        /\ s.token = format_result(pulse.name, e.result)
    <3> DEFINE token == format_result(pulse.name, e.result)
               arg == [path |-> pulse.path, fd |-> IF pulse.path # None THEN None ELSE pulse.fd]
    <3>1. token \in [value : Result, as : Worded]
      <4> DEFINE how == token.as
      <4>1. how = CASE e.result < 0 -> errno_name(e.result)
                    [] e.result >= 0 /\ pulse.name \in ADDR_RESULT -> "address"
                    [] e.result >= 0 /\ pulse.name \in BYTES_RESULT -> "bytes"
                    [] e.result >= 0 /\ pulse.name \in FD_RESULT -> "fd"
                    [] OTHER -> "number"
        BY DEF format_result
      <4>2. token = [value |-> e.result, as |-> how]
        BY DEF format_result
      <4> HIDE DEF how, token
      <4>3. errno_name(e.result) \in {"errno name", "errno number"}
        BY DEF errno_name
      <4>4. how \in Worded
        BY <4>1, <4>3 DEF Worded
      <4> QED  BY <1>6, <4>2, <4>4
    <3>2. arg \in [path : Path \cup {None}, fd : Number \cup {None}]
      BY <2>2 DEF AnyPulse
    <3>3. s = [name |-> pulse.name, age |-> 0, token |-> token, arg |-> arg]
      BY DEF StatusAfter
    <3> HIDE DEF token, arg
    <3>4. s \in AnyStatus /\ s.name = pulse.name /\ s.token = token
      BY <2>2, <3>1, <3>2, <3>3 DEF AnyStatus, AnyPulse
    <3> QED  BY <3>4 DEF token
  <2> HIDE DEF p, s
  <2>5. p # None /\ s # None
    BY <2>3, <2>4, NoPulseAssumption
  <2>6. Fields'
    BY <1>3, <1>5, <2>1, <2>3, <2>4, FramesAssumption DEF Flight, Fields
  <2>7. Trip'
    BY <1>3, <1>8, <2>1, <2>3, FramesAssumption DEF Flight, Trip, Capped, RETURN_FRAMES
  <2>8. Shown'
    BY <1>1, <1>3, <1>5, <2>1, <2>3 DEF Shown, LastWas
  <2>9. StatusIsLastCall'
    <3>1. Completes(e) => pulse.name = e.name
      BY <1>3, <1>8 DEF Flight, Shown, Completes, LastWas
    <3> QED  BY <1>3, <1>5, <2>1, <2>4, <2>5, <3>1 DEF StatusIsLastCall
  <2> QED  BY <1>2, <2>6, <2>7, <2>8, <2>9 DEF Flight
<1> QED  BY <1>7, <1>8

\* A birth or a death does nothing to the pulse or the status line.
LEMMA FlightOther ==
    ASSUME Flight, NEW e \in Released, Release(e), e.kind \in {"SPAWN", "DEATH"}
    PROVE  Flight'
<1>1. Happens(e) /\ Shape'
  BY ReleaseCases DEF Flight, Mirror, Release
<1>2. Mirror' /\ UNCHANGED <<pulse, rects, status, shownAge>>
  <2>1. CASE e.kind = "SPAWN"
    BY <1>1, <2>1, ReleaseCases, MirrorSpawn DEF Flight, Mirror, NotifySpawn
  <2>2. CASE e.kind = "DEATH"
    BY <1>1, <2>2, ReleaseCases, MirrorDeath DEF Flight, Mirror, NotifyDeath
  <2> QED  BY <2>1, <2>2
<1>3. /\ UNCHANGED <<last, quiet>> /\ at' = "step" /\ wait' = MIN_GAP_FRAMES
  BY DEF Release, IsSyscall
<1>4. Fields' /\ Trip' /\ StatusIsLastCall'
  BY <1>2, <1>3, FramesAssumption DEF Flight, Fields, Trip, StatusIsLastCall
<1>5. \A p \in DOMAIN calling' : InCall(p)' => InCall(p) /\ calling'[p].name = calling[p].name
  <2>1. CASE e.kind = "SPAWN"
    <3>1. calling' = Put([calling EXCEPT ![e.parent].forked = TRUE], e.child, None)
      BY <1>1, <2>1 DEF Happens
    <3>2. /\ e.parent \in DOMAIN calling /\ InCall(e.parent)
          /\ calling[e.parent] = [name |-> "fork", forked |-> FALSE]
      BY <1>1, <2>1 DEF Happens, InCall
    <3> QED  BY <3>1, <3>2 DEF Put, InCall
  <2>2. CASE e.kind = "DEATH"
    BY <1>1, <2>2 DEF Happens, Drop, InCall
  <2> QED  BY <2>1, <2>2
<1>6. Shown'
  BY <1>2, <1>3, <1>5 DEF Flight, Shown, LastWas, InCall
<1> QED  BY <1>2, <1>4, <1>6 DEF Flight

\* A frame moves the pulse one frame on.
LEMMA FlightFrame ==
    ASSUME Flight, Frame
    PROVE  Flight'
<1>1. /\ at' = "poll" /\ Step
      /\ wait' = IF wait > 0 THEN wait - 1 ELSE 0
      /\ quiet' = IF quiet < MaxQuiet THEN quiet + 1 ELSE quiet
      /\ UNCHANGED <<worldVars, calling, last>>
  BY DEF Frame
<1>2. Mirror'
  BY <1>1 DEF worldVars, Flight, Mirror, CallingOK, InCall, Shape, Unknown, Coherent
<1>3. rects' = rects
  BY <1>1 DEF Step
<1>4. /\ status' \in AnyStatus \cup {None}
      /\ status # None => status' # None /\ status'.name = status.name /\ status'.token = status.token
  <2>1. CASE status = None
    BY <1>1, <2>1 DEF Step
  <2>2. CASE status # None
    <3>1. status \in AnyStatus
      BY <2>2 DEF Flight, Fields
    <3>2. status' = [status EXCEPT !.age = Older(@, STATUS_TTL)]
      BY <1>1, <2>2 DEF Step
    <3>3. Older(status.age, STATUS_TTL) \in Nat
      BY <3>1, StatusAssumption DEF Older, AnyStatus
    <3>4. /\ status' \in AnyStatus
          /\ status'.name = status.name /\ status'.token = status.token
      BY <3>1, <3>2, <3>3 DEF AnyStatus
    <3> QED  BY <3>4, NoPulseAssumption
  <2> QED  BY <2>1, <2>2
<1>5. StatusIsLastCall'
  BY <1>1, <1>4 DEF Flight, StatusIsLastCall
<1>6. /\ pulse' \in AnyPulse \cup {None} /\ Trip'
      /\ pulse = None => pulse' = None
      /\ pulse # None /\ pulse.state # "RETURN" =>
            pulse' # None /\ pulse'.state # "RETURN" /\ pulse'.name = pulse.name
      /\ pulse # None /\ pulse.state = "RETURN" => pulse' = None \/ pulse'.state = "RETURN"
  <2>1. CASE pulse = None
    <3>1. pulse' = None
      BY <1>1, <2>1 DEF Step, StepStill
    <3> QED  BY <2>1, <3>1 DEF Trip
  <2>2. CASE pulse # None /\ pulse.state = "DESCEND"
    <3>1. pulse' = Descended
      BY <1>1, <2>2 DEF Step, StepDescend
    <3>2. pulse \in AnyPulse /\ pulse.t < DESCEND_FRAMES /\ pulse.t \in Nat
      BY <2>2 DEF Flight, Fields, Trip, AnyPulse
    <3> DEFINE p == Descended
    <3>3. /\ p \in AnyPulse /\ p.target_x = pulse.target_x /\ p.name = pulse.name
          /\ IF pulse.t + 1 < DESCEND_FRAMES
             THEN p.state = "DESCEND" /\ p.t = pulse.t + 1 /\ p.y = WayDown(pulse.t + 1)
             ELSE p.state = "WAIT" /\ p.x = pulse.target_x * PX /\ p.y = REST_Y * PX
      BY <2>2, <3>2, DescendedFacts
    <3> HIDE DEF p
    <3>4. pulse' = p /\ p # None
      BY <3>1, <3>3, NoPulseAssumption DEF p
    <3>5. Trip'
      BY <1>1, <2>2, <3>2, <3>3, <3>4, FramesAssumption DEF Flight, Fields, Trip, Capped
    <3> QED  BY <2>2, <3>3, <3>4, <3>5
  <2>3. CASE pulse # None /\ pulse.state = "RETURN"
    <3>1. StepReturn
      BY <1>1, <2>3 DEF Step
    <3>2. pulse \in AnyPulse /\ pulse.t < RETURN_FRAMES /\ pulse.t \in Nat
      BY <2>3 DEF Flight, Fields, Trip, AnyPulse
    <3>3. CASE pulse.t + 1 < RETURN_FRAMES
      <4>1. /\ pulse' \in AnyPulse /\ pulse'.t = pulse.t + 1 /\ pulse'.state = pulse.state
            /\ pulse'.target_x = pulse.target_x /\ pulse'.name = pulse.name
        BY <3>1, <3>2, <3>3, ReturningFacts
      <4>2. Trip'
        BY <1>1, <2>3, <3>2, <3>3, <4>1, FramesAssumption DEF Flight, Fields, Trip, Capped
      <4> QED  BY <2>3, <4>1, <4>2
    <3>4. CASE ~(pulse.t + 1 < RETURN_FRAMES)
      <4>1. pulse' = None
        BY <3>1, <3>4 DEF StepReturn
      <4> QED  BY <2>3, <4>1 DEF Trip
    <3> QED  BY <3>3, <3>4
  <2>4. CASE pulse # None /\ pulse.state = "WAIT"
    <3>1. pulse' = pulse
      BY <1>1, <2>4 DEF Step, StepStill
    <3>2. Trip'
      BY <2>4, <3>1 DEF Flight, Trip
    <3> QED  BY <2>4, <3>1, <3>2 DEF Flight, Fields
  <2> QED  BY <2>1, <2>2, <2>3, <2>4 DEF Flight, Fields, AnyPulse
<1>7. Fields'
  BY <1>1, <1>3, <1>4, <1>6, FramesAssumption DEF Flight, Fields
<1>8. Shown'
  BY <1>1, <1>6 DEF Flight, Shown, LastWas, InCall
<1> QED  BY <1>2, <1>5, <1>6, <1>7, <1>8 DEF Flight

\* A draw records the boxes of the layout and does nothing else.
LEMMA FlightDraw ==
    ASSUME Flight, Draw
    PROVE  Flight'
<1>1. /\ rects' = Boxes
      /\ UNCHANGED <<worldVars, pulse, rings, splits, shownAge, status, at, wait, calling, quiet, last>>
  BY DEF Draw, Render, DrawnBoxes
<1>2. IsFiniteSet(DOMAIN processes)
  <2> DEFINE D == DOMAIN calling \cup {initialPid}
  <2>1. DOMAIN processes \subseteq D
    BY DEF Flight, Mirror
  <2>2. IsFiniteSet(D)
    BY FS_AddElement DEF Flight, Mirror, CallingOK
  <2> HIDE DEF D
  <2> QED  BY <2>1, <2>2, FS_Subset
<1>3. DOMAIN Ppids = DOMAIN processes /\ DOMAIN Boxes = DOMAIN processes
  BY BoxesDomain
<1>4. \A p \in DOMAIN rects' : rects'[p].x \in Int /\ rects'[p].w \in Int
  BY <1>1, <1>2, <1>3, BoxesAreWhole DEF Boxes
<1>5. Fields'
  BY <1>1, <1>4 DEF Flight, Fields
<1>6. Mirror'
  BY <1>1 DEF worldVars, Flight, Mirror, CallingOK, InCall, Shape, Unknown, Coherent
<1>7. Trip' /\ Shown' /\ StatusIsLastCall'
  BY <1>1 DEF Flight, Trip, Shown, LastWas, InCall, StatusIsLastCall
<1> QED  BY <1>5, <1>6, <1>7 DEF Flight

\* At the start nothing is on its way.
LEMMA FlightInit == Init => Flight
<1> SUFFICES ASSUME Init PROVE Flight
  OBVIOUS
<1>1. Mirror
  BY MirrorInit
<1>2. /\ pulse = None /\ status = None /\ last = None /\ quiet = 0 /\ wait = 0
      /\ at = "poll" /\ rects = EmptyDict
  BY DEF Init, SceneInit
<1>3. Fields
  BY <1>2, EmptyIsDict DEF Fields
<1> QED  BY <1>1, <1>2, <1>3 DEF Flight, Trip, Shown, LastWas, StatusIsLastCall

\* Every release, frame and draw keeps what is known of the pulse.
LEMMA FlightStep == Flight /\ [Next]_vars => Flight'
<1> SUFFICES ASSUME Flight, [Next]_vars PROVE Flight'
  OBVIOUS
<1>1. ASSUME NEW e \in Released, Release(e) PROVE Flight'
  <2>1. e.kind \in {"ENTER", "EXIT", "SPAWN", "DEATH"}
    BY <1>1, ReleaseCases DEF Flight, Mirror
  <2> QED  BY <1>1, <2>1, FlightEnter, FlightExit, FlightOther
<1>2. CASE Draw
  BY <1>2, FlightDraw
<1>3. CASE Frame
  BY <1>3, FlightFrame
<1>4. CASE UNCHANGED vars
  BY <1>4 DEF vars, historyVars, worldVars, sceneVars, Flight, Mirror, CallingOK, InCall, Shape,
              Unknown, Coherent, Fields, Trip, Shown, LastWas, StatusIsLastCall
<1> QED  BY <1>1, <1>2, <1>3, <1>4 DEF Next

\* What is known of the pulse holds at all times.
LEMMA FlightInvariant == Spec => []Flight
BY FlightInit, FlightStep, PTL DEF Spec

\* R11: the status line gives the name and the result of the last call that
\* nothing came into, whichever task made it.
THEOREM StatusTellsTheCall == Spec => []StatusIsLastCall
<1>1. Flight => StatusIsLastCall
  BY DEF Flight
<1> QED  BY <1>1, FlightInvariant, PTL
-----------------------------------------------------------------------------
\* The way down in figures: a pulse is below the boundary from its tenth frame.
LEMMA BelowFromTheTenth ==
    \A t \in 10..DESCEND_FRAMES : WayDown(t) > BOUNDARY_Y * PX
<1> SUFFICES ASSUME NEW t \in 10..17 \cup {18} PROVE WayDown(t) > BOUNDARY_Y * PX
  BY DEF DESCEND_FRAMES
<1> USE DEF WayDown, Eased, ORIGIN_Y, PROC_Y, PROC_H, REST_Y, PX, DESCEND_FRAMES, BOUNDARY_Y
<1>10. CASE t = 10
  BY <1>10
<1>11. CASE t = 11
  BY <1>11
<1>12. CASE t = 12
  BY <1>12
<1>13. CASE t = 13
  BY <1>13
<1>14. CASE t = 14
  BY <1>14
<1>15. CASE t = 15
  BY <1>15
<1>16. CASE t = 16
  BY <1>16
<1>17. CASE t = 17
  BY <1>17
<1>18. CASE t = 18
  BY <1>18
<1> QED  BY <1>10, <1>11, <1>12, <1>13, <1>14, <1>15, <1>16, <1>17, <1>18

\* The centre of a zone is in that zone and in no other.
LEMMA ZoneOfItsCenter ==
    \A zone \in DOMAIN ZONE_ORDER : HotZones(zone_center(zone)) = {zone}
BY DEF HotZones, zone_center, zone_bounds, ZONE_ORDER, ZONE_W, WIDTH

\* R3, R4 and R9: where the pulse of the last ENTER is, whatever tasks do.
THEOREM LastEnterIsShown == Spec => []LastEnterShown
<1>1. Flight => LastEnterShown
  <2> SUFFICES ASSUME Flight PROVE LastEnterShown
    OBVIOUS
  <2>1. quiet \in Nat /\ MaxQuiet \in Nat /\ (pulse # None => pulse \in AnyPulse)
    BY FramesAssumption DEF Flight, Fields
  <2>2. ASSUME LastWas("ENTER"), quiet >= 10 PROVE PulseBelow
    <3>1. pulse # None /\ pulse.state \in {"DESCEND", "WAIT"} /\ pulse.t \in Nat
      BY <2>1, <2>2 DEF Flight, Shown, AnyPulse
    <3>2. CASE pulse.state = "DESCEND"
      <4>1. pulse.t < DESCEND_FRAMES /\ quiet = Capped(pulse.t) /\ pulse.y = WayDown(pulse.t)
        BY <3>1, <3>2 DEF Flight, Trip
      <4>2. pulse.t \in 10..DESCEND_FRAMES
        BY <2>1, <2>2, <3>1, <4>1 DEF Capped, DESCEND_FRAMES
      <4> QED  BY <3>1, <4>1, <4>2, BelowFromTheTenth DEF PulseBelow
    <3>3. CASE pulse.state = "WAIT"
      <4>1. pulse.y = REST_Y * PX
        BY <3>1, <3>3 DEF Flight, Trip
      <4> QED  BY <3>1, <4>1 DEF PulseBelow, REST_Y, PX, BOUNDARY_Y
    <3> QED  BY <3>1, <3>2, <3>3
  <2>3. ASSUME quiet >= DESCEND_FRAMES PROVE PulseWaits <=> LastWas("ENTER")
    <3>1. ASSUME PulseWaits PROVE LastWas("ENTER")
      <4>1. last # None /\ pulse # None /\ pulse.state = "WAIT"
        BY <3>1 DEF PulseWaits, Flight, Shown
      <4>2. last \in Observed
        BY <4>1 DEF Flight, Fields
      <4>3. last.event.kind \in {"ENTER", "EXIT"}
        BY <4>2 DEF Observed, EnterEvent, ExitEvent
      <4> QED  BY <4>1, <4>3 DEF Flight, Shown, LastWas
    <3>2. ASSUME LastWas("ENTER") PROVE PulseWaits
      <4>1. pulse # None /\ pulse.state \in {"DESCEND", "WAIT"} /\ pulse.t \in Nat
        BY <2>1, <3>2 DEF Flight, Shown, AnyPulse
      <4>2. pulse.state # "DESCEND"
        BY <2>1, <2>3, <4>1 DEF Flight, Trip, Capped, DESCEND_FRAMES
      <4> QED  BY <4>1, <4>2 DEF PulseWaits
    <3> QED  BY <3>1, <3>2
  <2>4. ASSUME PulseWaits, LastWas("ENTER")
        PROVE  /\ pulse.name = last.event.name
               /\ classify(pulse.name) \in DOMAIN ZONE_ORDER =>
                     HotZones(pulse.x \div PX) = {classify(pulse.name)}
    <3>1. /\ pulse # None /\ pulse.name = last.event.name
          /\ pulse.target_x = zone_center(classify(pulse.name)) /\ pulse.x = pulse.target_x * PX
      BY <2>4 DEF PulseWaits, Flight, Trip, Shown
    <3>2. pulse.target_x \in Int
      BY <2>1, <3>1 DEF AnyPulse
    <3>3. pulse.x \div PX = pulse.target_x
      BY <3>1, <3>2 DEF PX
    <3> QED  BY <3>1, <3>3, ZoneOfItsCenter
  <2> QED  BY <2>2, <2>3, <2>4 DEF LastEnterShown
<1> QED  BY <1>1, FlightInvariant, PTL

\* The first half of R5, and sooner: RETURN_FRAMES after an EXIT, with no syscall
\* event since, no pulse is in flight.
ReturnedInTime == LastWas("EXIT") /\ quiet >= RETURN_FRAMES => pulse = None

\* R5: every pulse is home in time, whatever was in flight before the EXIT.
THEOREM PulsesComeHome == Spec => []ReturnedInTime
<1>1. Flight => ReturnedInTime
  <2> SUFFICES ASSUME Flight, LastWas("EXIT"), quiet >= RETURN_FRAMES, pulse # None PROVE FALSE
    BY DEF ReturnedInTime
  <2>1. pulse \in AnyPulse /\ pulse.t < RETURN_FRAMES /\ quiet = Capped(pulse.t)
    BY DEF Flight, Fields, Shown, Trip
  <2> QED  BY <2>1, FramesAssumption DEF AnyPulse, Capped, RETURN_FRAMES
<1> QED  BY <1>1, FlightInvariant, PTL
-----------------------------------------------------------------------------
\* How much of the hold is left while a pulse descends.
Held ==
    pulse # None /\ pulse.state = "DESCEND" => wait = ENTER_HOLD_FRAMES - pulse.t

\* Nothing is released before the hold is over, so a descent is let finish.
LEMMA HeldStep ==
    ASSUME ENTER_HOLD_FRAMES >= DESCEND_FRAMES, Flight, Held, [Next]_vars
    PROVE  Held' /\ (pulse # None /\ pulse.state = "DESCEND" => pulse' \in {pulse, Descended})
<1> USE FramesAssumption
<1>1. ASSUME NEW e \in Released, Release(e)
      PROVE  Held' /\ ~(pulse # None /\ pulse.state = "DESCEND")
  <2>1. ~(pulse # None /\ pulse.state = "DESCEND")
    <3> SUFFICES ASSUME pulse # None, pulse.state = "DESCEND" PROVE FALSE
      OBVIOUS
    <3>1. pulse \in AnyPulse /\ pulse.t < DESCEND_FRAMES
      BY DEF Flight, Fields, Trip
    <3>2. wait = 0 /\ wait = ENTER_HOLD_FRAMES - pulse.t
      BY <1>1 DEF Release, Held
    <3> QED  BY <3>1, <3>2 DEF AnyPulse, DESCEND_FRAMES
  <2>2. CASE e.kind = "ENTER"
    <3>1. e \in EnterEvent /\ pulse' = NewPulse(e) /\ wait' = ENTER_HOLD_FRAMES
      BY <1>1, <2>2, ReleaseCases DEF Flight, Mirror, NotifyEnter, PulseAfter, Release
    <3>2. NewPulse(e).t = 0
      BY <3>1, NewPulseFacts DEF Flight
    <3> QED  BY <2>1, <3>1, <3>2 DEF Held
  <2>3. CASE e.kind = "EXIT"
    <3>1. CASE pulse = None
      BY <1>1, <2>1, <2>3, <3>1, ReleaseCases DEF Flight, Mirror, NotifyExit, sceneVars, Held
    <3>2. CASE pulse # None
      <4>1. e \in ExitEvent /\ e.result # None
        BY <1>1, <2>3, ReleaseCases, ReleasedAssumption DEF Flight, Mirror
      <4>2. pulse' = TurnedBack(e.result) /\ e.result \in Result
        BY <1>1, <2>3, <3>2, <4>1, ReleaseCases DEF Flight, Mirror, NotifyExit, ExitEvent
      <4>3. pulse'.state = "RETURN"
        BY <3>2, <4>2, TurnedBackFacts DEF Flight, Fields
      <4> QED  BY <2>1, <4>3 DEF Held
    <3> QED  BY <3>1, <3>2
  <2>4. CASE e.kind \in {"SPAWN", "DEATH"}
    <3>1. pulse' = pulse
      BY <1>1, <2>4, ReleaseCases DEF Flight, Mirror, NotifySpawn, NotifyDeath
    <3> QED  BY <2>1, <3>1 DEF Held
  <2>5. e.kind \in {"ENTER", "EXIT", "SPAWN", "DEATH"}
    BY <1>1, ReleaseCases DEF Flight, Mirror
  <2> QED  BY <2>1, <2>2, <2>3, <2>4, <2>5
<1>2. CASE Frame
  <2>1. Step /\ wait' = (IF wait > 0 THEN wait - 1 ELSE 0)
    BY <1>2 DEF Frame
  <2>2. CASE pulse = None
    BY <2>1, <2>2 DEF Step, StepStill, Held
  <2>3. CASE pulse # None /\ pulse.state = "DESCEND"
    <3>1. pulse' = Descended /\ pulse \in AnyPulse /\ pulse.t < DESCEND_FRAMES
      BY <2>1, <2>3 DEF Step, StepDescend, Flight, Fields, Trip
    <3>2. wait' = ENTER_HOLD_FRAMES - (pulse.t + 1)
      BY <2>1, <2>3, <3>1 DEF Held, AnyPulse, DESCEND_FRAMES
    <3>3. pulse'.state = "DESCEND" => pulse'.t = pulse.t + 1
      BY <3>1, DescendedFacts
    <3> QED  BY <3>1, <3>2, <3>3 DEF Held
  <2>4. CASE pulse # None /\ pulse.state = "RETURN"
    <3>1. pulse' = None \/ pulse'.state = "RETURN"
      BY <2>1, <2>4 DEF Step, StepReturn, Flight, Fields, AnyPulse
    <3> QED  BY <2>4, <3>1 DEF Held
  <2>5. CASE pulse # None /\ pulse.state = "WAIT"
    BY <2>1, <2>5 DEF Step, StepStill, Held
  <2> QED  BY <2>2, <2>3, <2>4, <2>5 DEF Flight, Fields, AnyPulse
<1>3. CASE Draw \/ UNCHANGED vars
  BY <1>3 DEF Draw, Render, vars, sceneVars, Held
<1> QED  BY <1>1, <1>2, <1>3 DEF Next

\* P2: whenever the hold is as long as the descent, no event of any task takes
\* a pulse off its way down.
THEOREM DescentIsUndisturbed ==
    ENTER_HOLD_FRAMES >= DESCEND_FRAMES => (Spec => DescentUndisturbed)
<1> SUFFICES ASSUME ENTER_HOLD_FRAMES >= DESCEND_FRAMES PROVE Spec => DescentUndisturbed
  OBVIOUS
<1>1. Init => Held
  BY DEF Init, SceneInit, Held
<1>2. Flight /\ Held /\ [Next]_vars => Held'
  BY HeldStep
<1>3. Flight /\ Held /\ [Next]_vars
        => [pulse # None /\ pulse.state = "DESCEND" => pulse' \in {pulse, Descended}]_vars
  BY HeldStep
<1> QED  BY <1>1, <1>2, <1>3, FlightInvariant, PTL DEF Spec, DescentUndisturbed
-----------------------------------------------------------------------------
(***************************************************************************)
(* The boxes drawn last are those of the world, or there are none yet and  *)
(* one process; or else they have been out of date since the last release, *)
(* so that together with the wait they make up a gap.                      *)
(***************************************************************************)
RecordOfBoxes ==
    \/ rects = Boxes
    \/ rects = EmptyDict /\ Cardinality(DOMAIN processes) = 1
    \/ behind + wait >= MIN_GAP_FRAMES

FromItsBox ==
    /\ behind \in 0..MIN_GAP_FRAMES
    /\ RecordOfBoxes
    /\ at = "poll" /\ last # None => quiet > 0
    /\ PulseFromItsBox

\* A box stays where it is when its task enters a call, also when that call
\* is the first one seen.
LEMMA EnterKeepsBoxes ==
    ASSUME Mirror, NEW e \in EnterEvent, e.pid \in DOMAIN calling, ApplyEnter(e)
    PROVE  \/ e.pid \in DOMAIN processes /\ Boxes' = Boxes /\ DOMAIN processes' = DOMAIN processes
           \/ e.pid \notin DOMAIN processes /\ Boxes'[e.pid] = LoneBox
<1> DEFINE P == ProcessesWith(e.pid)
           r == [P[e.pid] EXCEPT !.in_syscall = e.name]
<1>1. e.pid \in DOMAIN P /\ InitialWith(e.pid) = Root /\ DOMAIN P = DOMAIN calling \cup {Root}
  BY LookupOfTask
<1>2. Coherent(P, Root, pending)
  BY <1>1, LookupIsCoherent, LookupOfTask DEF Mirror
<1>3. P[e.pid].pid = e.pid /\ IsProcess(P[e.pid])
  BY <1>1, <1>2 DEF Coherent
<1>4. processes' = [P EXCEPT ![e.pid] = r]
  BY <1>1, <1>3 DEF ApplyEnter
<1>5. r.ppid = P[e.pid].ppid
  BY <1>3 DEF IsProcess
<1>6. CASE initialPid # 0
  <2>1. P = processes /\ e.pid \in DOMAIN processes
    BY <1>6, LookupOfTask DEF Mirror
  <2> HIDE DEF P, r
  <2>2. DOMAIN processes' = DOMAIN processes
    BY <1>4, <2>1
  <2>3. \A p \in DOMAIN processes : processes'[p].ppid = processes[p].ppid
    BY <1>4, <1>5, <2>1
  <2>4. Ppids' = Ppids
    BY <2>2, <2>3 DEF Ppids
  <2>5. Boxes' = Boxes
    BY <2>4 DEF Boxes
  <2> QED  BY <2>1, <2>2, <2>5
<1>7. CASE initialPid = 0
  <2>1. DOMAIN processes = {0} /\ DOMAIN calling = {Root} /\ e.pid = Root /\ e.pid # 0
    BY <1>7, RootAssumption, PidAssumption DEF Mirror
  <2> HIDE DEF P, r
  <2>2. DOMAIN processes' = {e.pid}
    BY <1>1, <1>4, <2>1
  <2>3. DOMAIN Ppids' = {e.pid} /\ Cardinality(DOMAIN Ppids') = 1
    BY <2>2, FS_Singleton DEF Ppids
  <2>4. Boxes'[e.pid] = LoneBox
    BY <2>3 DEF Boxes, BoxesOf
  <2> QED  BY <2>1, <2>4
<1> QED  BY <1>6, <1>7

\* A release starts a new wait, a frame takes one from it, and a draw brings the
\* record up to date.
LEMMA FromItsBoxStep ==
    ASSUME MaxQuiet # 0, MIN_GAP_FRAMES <= ENTER_HOLD_FRAMES, Flight, FromItsBox, [Next]_vars
    PROVE  FromItsBox'
<1> USE FramesAssumption
<1>1. ASSUME NEW e \in Released, Release(e) PROVE FromItsBox'
  <2>1. at = "poll" /\ at' = "step" /\ wait = 0 /\ behind' = behind
    BY <1>1 DEF Release
  <2> DEFINE Known == behind \in 0..MIN_GAP_FRAMES /\ RecordOfBoxes
  <2>6. Known'
    BY <1>1, <2>1 DEF Release, FromItsBox, RecordOfBoxes
  <2>2. CASE e.kind = "ENTER"
    <3>1. /\ e \in EnterEvent /\ e.pid \in DOMAIN calling /\ ApplyEnter(e)
          /\ pulse' = NewPulse(e) /\ last'.event = e
      <4>1. e \in EnterEvent /\ ApplyEnter(e) /\ NotifyEnter(e)
        BY <1>1, <2>2, ReleaseCases DEF Flight, Mirror
      <4>2. Happens(e) /\ last'.event = e
        BY <1>1, <2>2 DEF Release, IsSyscall
      <4> QED  BY <2>2, <4>1, <4>2 DEF NotifyEnter, PulseAfter, Happens
    <3>2. pulse'.origin_x = OriginX(e.pid)
      BY <3>1, NewPulseFacts DEF Flight
    <3>3. ASSUME behind < MIN_GAP_FRAMES PROVE BoxRect(e.pid) = Boxes'[e.pid]
      <4>1. DOMAIN Boxes = DOMAIN processes
        BY BoxesDomain
      <4>2. Cardinality(DOMAIN processes) = 1 => Boxes = [p \in DOMAIN processes |-> LoneBox]
        BY DEF Boxes, BoxesOf, Ppids
      <4>3. CASE rects = Boxes
        BY <3>1, <4>1, <4>3, EnterKeepsBoxes DEF BoxRect, Flight
      <4>4. CASE rects = EmptyDict /\ Cardinality(DOMAIN processes) = 1
        BY <3>1, <4>2, <4>4, EnterKeepsBoxes, EmptyIsDict DEF BoxRect, Flight
      <4> QED  BY <2>1, <3>3, <4>3, <4>4 DEF FromItsBox, RecordOfBoxes
    <3>4. behind' < MIN_GAP_FRAMES => pulse'.origin_x = CenterOf(Boxes'[last'.event.pid])
      BY <2>1, <3>1, <3>2, <3>3 DEF OriginX
    <3> QED  BY <2>1, <2>6, <3>4 DEF FromItsBox, PulseFromItsBox
  <2>3. CASE e.kind = "EXIT"
    <3>1. last'.event = e
      BY <1>1, <2>3 DEF Release, IsSyscall
    <3> QED  BY <2>1, <2>3, <2>6, <3>1 DEF FromItsBox, PulseFromItsBox, LastWas
  <2>4. CASE e.kind \in {"SPAWN", "DEATH"}
    <3>1. last' = last /\ quiet' = quiet
      BY <1>1, <2>4 DEF Release, IsSyscall
    <3> QED  BY <2>1, <2>6, <3>1 DEF FromItsBox, PulseFromItsBox, LastWas
  <2>5. e.kind \in {"ENTER", "EXIT", "SPAWN", "DEATH"}
    BY <1>1, ReleaseCases DEF Flight, Mirror
  <2> QED  BY <2>2, <2>3, <2>4, <2>5
<1>2. CASE Frame
  <2>1. /\ at' = "poll" /\ UNCHANGED <<rects, processes, last>>
        /\ wait' = IF wait > 0 THEN wait - 1 ELSE 0
        /\ quiet' = IF quiet < MaxQuiet THEN quiet + 1 ELSE quiet
        /\ behind' = IF rects = Boxes THEN 0
                     ELSE IF behind < MIN_GAP_FRAMES THEN behind + 1 ELSE behind
    BY <1>2 DEF Frame, Step, worldVars
  <2>2. Boxes' = Boxes
    BY <2>1 DEF Boxes, Ppids
  <2>3. wait \in Nat /\ quiet \in Nat /\ quiet' > 0
    BY <2>1 DEF Flight, Fields
  <2>4. behind' \in 0..MIN_GAP_FRAMES
    BY <2>1 DEF FromItsBox
  <2>5. RecordOfBoxes'
    <3>1. CASE rects = Boxes \/ (rects = EmptyDict /\ Cardinality(DOMAIN processes) = 1)
      BY <2>1, <2>2, <3>1 DEF RecordOfBoxes
    <3>2. CASE rects # Boxes /\ behind + wait >= MIN_GAP_FRAMES
      <4>1. behind' + wait' >= MIN_GAP_FRAMES
        BY <2>1, <2>3, <3>2 DEF FromItsBox
      <4> QED  BY <4>1 DEF RecordOfBoxes
    <3> QED  BY <3>1, <3>2 DEF FromItsBox, RecordOfBoxes
  <2> QED  BY <2>1, <2>3, <2>4, <2>5 DEF FromItsBox, PulseFromItsBox
<1>3. CASE Draw
  <2>1. /\ at = "poll" /\ at' = "poll" /\ rects' = Boxes /\ behind' = 0
        /\ UNCHANGED <<processes, last, quiet>>
    BY <1>3 DEF Draw, Render, DrawnBoxes, worldVars
  <2>2. Boxes' = Boxes
    BY <2>1 DEF Boxes, Ppids
  <2> QED  BY <2>1, <2>2 DEF FromItsBox, RecordOfBoxes, PulseFromItsBox
<1>4. CASE UNCHANGED vars
  <2>1. UNCHANGED <<at, wait, behind, rects, processes, last, quiet, pulse>>
    BY <1>4 DEF vars, sceneVars, worldVars, historyVars
  <2>2. Boxes' = Boxes
    BY <2>1 DEF Boxes, Ppids
  <2> QED  BY <2>1, <2>2 DEF FromItsBox, RecordOfBoxes, PulseFromItsBox, LastWas
<1> QED  BY <1>1, <1>2, <1>3, <1>4 DEF Next

\* A pulse sets out from its own task's box, as laid out after the ENTER, whatever
\* frames are drawn, when one of any MIN_GAP_FRAMES is after boxes moved.  The
\* count of quiet frames tells the ENTER of this frame from an earlier one.
THEOREM PulsesStartAtTheirBox ==
    MaxQuiet # 0 /\ MIN_GAP_FRAMES <= ENTER_HOLD_FRAMES => (Spec => []PulseFromItsBox)
<1> SUFFICES ASSUME MaxQuiet # 0, MIN_GAP_FRAMES <= ENTER_HOLD_FRAMES
             PROVE  Spec => []PulseFromItsBox
  OBVIOUS
<1>1. Init => FromItsBox
  <2> SUFFICES ASSUME Init PROVE FromItsBox
    OBVIOUS
  <2>1. at = "poll" /\ last = None /\ rects = EmptyDict /\ behind = 0
    BY DEF Init, SceneInit
  <2> DEFINE r == NewProcess(INITIAL_PID, INITIAL_NAME, 0, EmptyDict)
  <2>2. processes = Put(EmptyDict, INITIAL_PID, r)
    BY DEF Init, WorldInit
  <2> HIDE DEF r
  <2>3. DOMAIN processes = {INITIAL_PID}
    BY <2>2, EmptyIsDict DEF Put
  <2>4. Cardinality(DOMAIN processes) = 1
    BY <2>3, FS_Singleton
  <2>5. RecordOfBoxes
    BY <2>1, <2>4 DEF RecordOfBoxes
  <2> QED  BY <2>1, <2>5, FramesAssumption DEF FromItsBox, PulseFromItsBox
<1>2. Flight /\ FromItsBox /\ [Next]_vars => FromItsBox'
  BY FromItsBoxStep
<1>3. FromItsBox => PulseFromItsBox
  BY DEF FromItsBox
<1> QED  BY <1>1, <1>2, <1>3, FlightInvariant, PTL DEF Spec
-----------------------------------------------------------------------------
\* From the EXIT that completes a call of the initial process: its result is in
\* the world, and the time since the pulse landed is the age of what is shown.
Landing ==
    last # None /\ last.completes /\ last.event.pid = initialPid =>
        /\ last.event.result \in Result
        /\ processes[initialPid].last_result = last.event.result
        /\ pulse = None =>
              /\ quiet >= RETURN_FRAMES
              /\ shownAge = IF quiet <= RETURN_FRAMES + FAIL_RESULT_TTL
                            THEN quiet - RETURN_FRAMES ELSE FAIL_RESULT_TTL + 1

\* The history counts far enough, and no task is born with the first one's pid.
ResultHypothesis ==
    /\ MaxQuiet > RETURN_FRAMES + FAIL_RESULT_TTL
    /\ \A e \in Released : e.kind = "SPAWN" => e.child # Root

\* The result a completing EXIT leaves stays until the next syscall event.
LEMMA LandingRelease ==
    ASSUME ResultHypothesis, Flight, Landing, NEW e \in Released, Release(e)
    PROVE  Landing'
<1>1. Mirror /\ Shape
  BY DEF Flight, Mirror
<1>2. CASE e.kind = "ENTER"
  <2>1. ~last'.completes
    <3>1. last' = [event |-> e, completes |-> Completes(e)]
      BY <1>2 DEF Release, IsSyscall
    <3>2. Completes(e) = FALSE
      BY <1>2 DEF Completes
    <3> QED  BY <3>1, <3>2
  <2> QED  BY <2>1 DEF Landing
<1>3. CASE e.kind = "EXIT"
  <2>1. /\ Happens(e) /\ ApplyExit(e) /\ NotifyExit(e) /\ Shape'
        /\ last' = [event |-> e, completes |-> Completes(e)]
    BY <1>1, <1>3, ReleaseCases DEF Release, IsSyscall
  <2>2. /\ initialPid' = initialPid /\ processes'[e.pid].last_result = e.result
        /\ e \in ExitEvent /\ e.result # None
    BY <1>1, <1>3, <2>1, MirrorExit
  <2>3. ASSUME Completes(e) PROVE pulse' # None
    <3>1. pulse # None /\ pulse \in AnyPulse
      BY <2>3 DEF Flight, Shown, Fields, Completes, LastWas
    <3>2. e.result \in Result /\ pulse' = TurnedBack(e.result)
      BY <2>1, <2>2, <3>1 DEF NotifyExit, ExitEvent
    <3> QED  BY <3>1, <3>2, TurnedBackFacts, NoPulseAssumption
  <2> QED  BY <2>1, <2>2, <2>3 DEF Landing, ExitEvent
<1>4. CASE e.kind \in {"SPAWN", "DEATH"}
  <2>1. last' = last /\ quiet' = quiet
    BY <1>4 DEF Release, IsSyscall
  <2>2. UNCHANGED <<pulse, shownAge>>
    BY <1>1, <1>4, ReleaseCases DEF NotifySpawn, NotifyDeath
  <2>3. initialPid' = initialPid
    BY <1>1, <1>4, ReleaseCases, MirrorSpawn, MirrorDeath DEF Release
  <2>4. initialPid \in DOMAIN processes /\ processes'[initialPid] = processes[initialPid]
    <3>1. initialPid \in DOMAIN processes /\ initialPid \in {0, Root}
      BY DEF Flight, Mirror
    <3>2. CASE e.kind = "SPAWN"
      <4>1. e.child # 0 /\ e.child # Root
        BY <3>2, ReleaseCases, <1>1, PidAssumption DEF SpawnEvent, ResultHypothesis
      <4> QED  BY <1>1, <3>1, <3>2, <4>1, ReleaseCases, MirrorSpawn DEF Release
    <3>3. CASE e.kind = "DEATH"
      BY <1>1, <3>1, <3>3, ReleaseCases, MirrorDeath DEF Release
    <3> QED  BY <1>4, <3>2, <3>3
  <2> QED  BY <2>1, <2>2, <2>3, <2>4 DEF Landing
<1> QED  BY <1>1, <1>2, <1>3, <1>4, ReleaseCases

\* The frames since the landing are counted by the age of what is shown.
LEMMA LandingFrame ==
    ASSUME ResultHypothesis, Flight, Landing, Frame
    PROVE  Landing'
<1>1. /\ Step /\ UNCHANGED <<processes, initialPid, last>>
      /\ quiet' = IF quiet < MaxQuiet THEN quiet + 1 ELSE quiet
  BY DEF Frame, worldVars
<1>2. quiet \in Nat /\ MaxQuiet \in Nat /\ MaxQuiet > RETURN_FRAMES + FAIL_RESULT_TTL
  BY FramesAssumption DEF ResultHypothesis, Flight, Fields
<1> SUFFICES ASSUME last # None, last.completes, last.event.pid = initialPid, pulse' = None
             PROVE  /\ quiet' >= RETURN_FRAMES
                    /\ shownAge' = IF quiet' <= RETURN_FRAMES + FAIL_RESULT_TTL
                                   THEN quiet' - RETURN_FRAMES ELSE FAIL_RESULT_TTL + 1
  BY <1>1 DEF Landing
<1>3. pulse = None \/ pulse.state = "RETURN"
  BY DEF Flight, Shown
<1>4. CASE pulse = None
  <2>1. shownAge' = Older(shownAge, FAIL_RESULT_TTL)
    BY <1>1, <1>4 DEF Step, StepStill
  <2>2. /\ quiet >= RETURN_FRAMES
        /\ shownAge = IF quiet <= RETURN_FRAMES + FAIL_RESULT_TTL
                      THEN quiet - RETURN_FRAMES ELSE FAIL_RESULT_TTL + 1
    BY <1>4 DEF Landing
  <2>3. shownAge # None
    BY <1>2, <2>2, NoneAssumption DEF RETURN_FRAMES, FAIL_RESULT_TTL
  <2> QED  BY <1>1, <1>2, <2>1, <2>2, <2>3 DEF Older, RETURN_FRAMES, FAIL_RESULT_TTL
<1>5. CASE pulse # None /\ pulse.state = "RETURN"
  <2>1. StepReturn /\ pulse \in AnyPulse /\ pulse.t < RETURN_FRAMES /\ quiet = Capped(pulse.t)
    BY <1>1, <1>5 DEF Step, Flight, Fields, Trip
  <2>2. quiet = pulse.t /\ pulse.t \in Nat
    BY <1>2, <2>1 DEF Capped, AnyPulse, RETURN_FRAMES, FAIL_RESULT_TTL
  <2>3. CASE pulse.t + 1 < RETURN_FRAMES
    BY <2>1, <2>3, ReturningFacts, NoPulseAssumption
  <2>4. CASE ~(pulse.t + 1 < RETURN_FRAMES)
    <3>1. shownAge' = 0 /\ quiet' = RETURN_FRAMES
      BY <1>1, <1>2, <2>1, <2>2, <2>4 DEF StepReturn, LandingAge, RETURN_FRAMES, FAIL_RESULT_TTL
    <3> QED  BY <3>1 DEF RETURN_FRAMES, FAIL_RESULT_TTL
  <2> QED  BY <2>3, <2>4
<1> QED  BY <1>3, <1>4, <1>5

\* R5 and R6: the result of a call of the initial process that nothing came into
\* stands on the screen from the landing of its pulse on; a failure fades.
THEOREM ResultsStand == ResultHypothesis => (Spec => []ResultAfterReturn)
<1> SUFFICES ASSUME ResultHypothesis PROVE Spec => []ResultAfterReturn
  OBVIOUS
<1>1. Init => Landing
  BY DEF Init, Landing
<1>2. Flight /\ Landing /\ [Next]_vars => Landing'
  <2> SUFFICES ASSUME Flight, Landing, [Next]_vars PROVE Landing'
    OBVIOUS
  <2>1. CASE Draw \/ UNCHANGED vars
    BY <2>1 DEF Draw, Render, vars, historyVars, sceneVars, worldVars, Landing
  <2> QED  BY <2>1, LandingRelease, LandingFrame DEF Next
<1>3. Flight /\ Landing => ResultAfterReturn
  <2> SUFFICES ASSUME Flight, Landing, last # None, last.completes, last.event.pid = initialPid,
                      quiet >= RETURN_FRAMES
               PROVE  ResultShown <=> \/ last.event.result >= 0
                                      \/ quiet <= RETURN_FRAMES + FAIL_RESULT_TTL
    BY DEF ResultAfterReturn
  <2>1. quiet \in Nat /\ MaxQuiet \in Nat /\ MaxQuiet > RETURN_FRAMES + FAIL_RESULT_TTL
    BY FramesAssumption DEF ResultHypothesis, Flight, Fields
  <2>2. pulse = None
    <3>1. pulse # None => pulse.state = "RETURN" /\ pulse \in AnyPulse
      BY DEF Flight, Shown, Fields
    <3>2. pulse # None => pulse.t < RETURN_FRAMES /\ quiet = Capped(pulse.t) /\ pulse.t \in Nat
      BY <3>1 DEF Flight, Trip, AnyPulse
    <3> QED  BY <2>1, <3>2 DEF Capped, RETURN_FRAMES, FAIL_RESULT_TTL
  <2>3. /\ processes[initialPid].last_result = last.event.result
        /\ shownAge = IF quiet <= RETURN_FRAMES + FAIL_RESULT_TTL
                      THEN quiet - RETURN_FRAMES ELSE FAIL_RESULT_TTL + 1
    BY <2>2 DEF Landing
  <2>4. last.event.result \in Int /\ last.event.result # None
    BY NumberAssumption, NoneAssumption DEF Landing
  <2>5. Faded <=> ~(quiet <= RETURN_FRAMES + FAIL_RESULT_TTL)
    BY <2>1, <2>3, NoneAssumption DEF Faded, RETURN_FRAMES, FAIL_RESULT_TTL
  <2> QED  BY <2>2, <2>3, <2>4, <2>5 DEF ResultShown
<1> QED  BY <1>1, <1>2, <1>3, FlightInvariant, PTL DEF Spec
-----------------------------------------------------------------------------
(***************************************************************************)
(* Rings and splits.  step() keeps, of a sequence of effects, those that   *)
(* last.  Rings that are below the boundary are as old as the last syscall *)
(* event at least (Settled), and effects that last are on the screen while *)
(* the boxes are (Fits); the splits of one task are spaced out by the      *)
(* pacing of its calls (SplitsApart).                                      *)
(***************************************************************************)
\* An effect a frame older, and what the first n effects leave, from what the ones
\* before the last of them left.
Grown(effect) == [effect EXCEPT !.age = @ + 1]

Kept(effects, ttl, n, from) ==
    IF n = 0 THEN <<>>
    ELSE IF Lasts(Grown(effects[n]).age, ttl) THEN Append(from[n - 1], Grown(effects[n]))
                                              ELSE from[n - 1]

IsKept(effects, ttl, kept) ==
    kept = [n \in 0..Len(effects) |-> Kept(effects, ttl, n, kept)]

\* One more effect leaves a sequence of the kind S, when an effect of the kind R
\* that lasts becomes one of the kind S.
LEMMA KeptType ==
    ASSUME NEW R, NEW S, NEW effects \in Seq(R), NEW ttl,
           \A effect \in R : Lasts(Grown(effect).age, ttl) => Grown(effect) \in S,
           NEW k \in 0..Len(effects), NEW from, k # 0 => from[k - 1] \in Seq(S)
    PROVE  Kept(effects, ttl, k, from) \in Seq(S)
<1>1. CASE k = 0
  BY <1>1 DEF Kept
<1>2. CASE k # 0
  <2>1. k \in 1..Len(effects) /\ from[k - 1] \in Seq(S)
    BY <1>2, LenProperties
  <2>2. effects[k] \in R
    BY <2>1, ElementOfSeq
  <2>3. Lasts(Grown(effects[k]).age, ttl) => Grown(effects[k]) \in S
    BY <2>2
  <2> QED  BY <1>2, <2>1, <2>3, AppendProperties DEF Kept
<1> QED  BY <1>1, <1>2

\* Aged is the last of the sequences the recursion goes through, each of them of
\* the kind S.
LEMMA AgedIsKept ==
    ASSUME NEW R, NEW S, NEW effects \in Seq(R), NEW ttl,
           \A effect \in R : Lasts(Grown(effect).age, ttl) => Grown(effect) \in S
    PROVE  \E kept : /\ \A k \in 0..Len(effects) :
                           kept[k] = Kept(effects, ttl, k, kept) /\ kept[k] \in Seq(S)
                     /\ Aged(effects, ttl) = kept[Len(effects)]
<1> DEFINE n == Len(effects)
           step == [f \in [0..n -> Seq(S)] |-> [k \in 0..n |-> Kept(effects, ttl, k, f)]]
<1>1. n \in Nat
  BY LenProperties
<1>2. ASSUME NEW k \in 0..n, NEW f, k # 0 => f[k - 1] \in Seq(S)
      PROVE  Kept(effects, ttl, k, f) \in Seq(S)
  BY <1>2, KeptType
<1>3. LooksBack(step, n, Seq(S))
  <2>1. step \in [[0..n -> Seq(S)] -> [0..n -> Seq(S)]]
    <3>1. ASSUME NEW f \in [0..n -> Seq(S)], NEW k \in 0..n
          PROVE  Kept(effects, ttl, k, f) \in Seq(S)
      <4>1. k # 0 => k - 1 \in 0..n
        BY <1>1
      <4> QED  BY <1>2, <4>1
    <3> QED  BY <3>1
  <2>2. ASSUME NEW f \in [0..n -> Seq(S)], NEW g \in [0..n -> Seq(S)], NEW k \in 0..n,
               \A j \in 0..(k - 1) : f[j] = g[j]
        PROVE  step[f][k] = step[g][k]
    <3>1. k # 0 => f[k - 1] = g[k - 1]
      BY <1>1, <2>2
    <3> QED  BY <3>1 DEF Kept
  <2> HIDE DEF step, n
  <2> QED  BY <2>1, <2>2 DEF LooksBack
<1>4. \E kept : IsKept(effects, ttl, kept)
  <2>1. Seq(S) # {}
    <3>1. <<>> \in Seq(S)
      OBVIOUS
    <3> QED  BY <3>1
  <2>2. PICK f \in [0..n -> Seq(S)] : \A k \in 0..n : f[k] = step[f][k]
    <3> DEFINE T == Seq(S)
    <3>1. n \in Nat /\ T # {} /\ LooksBack(step, n, T)
      BY <1>1, <1>3, <2>1
    <3> HIDE DEF step, n, T
    <3>2. \E f \in [0..n -> T] : \A k \in 0..n : f[k] = step[f][k]
      BY <3>1, Recursion
    <3> QED  BY <3>2 DEF T
  <2>3. \A k \in 0..n : f[k] = Kept(effects, ttl, k, f)
    BY <2>2
  <2>4. f = [k \in 0..n |-> Kept(effects, ttl, k, f)]
    BY <2>3
  <2> QED  BY <2>4 DEF IsKept
<1>5. PICK kept : IsKept(effects, ttl, kept) /\ Aged(effects, ttl) = kept[n]
  <2> DEFINE kept == CHOOSE kept : IsKept(effects, ttl, kept)
  <2>1. IsKept(effects, ttl, kept)
    BY <1>4
  <2>2. Aged(effects, ttl) = kept[n]
    <3> DEFINE older == [i \in 1..n |-> [effects[i] EXCEPT !.age = @ + 1]]
               Next1(k, from) == IF k = 0 THEN <<>>
                                 ELSE IF Lasts(older[k].age, ttl) THEN Append(from[k - 1], older[k])
                                                                  ELSE from[k - 1]
    <3>1. \A k \in 0..n : \A from : Next1(k, from) = Kept(effects, ttl, k, from)
      BY <1>1 DEF Kept, Grown
    <3>2. \A f : f = [k \in 0..n |-> Next1(k, f)] <=> IsKept(effects, ttl, f)
      BY <3>1 DEF IsKept
    <3>3. Aged(effects, ttl) = (CHOOSE f : f = [k \in 0..n |-> Next1(k, f)])[n]
      BY DEF Aged
    <3> HIDE DEF Next1
    <3> QED  BY <3>2, <3>3
  <2> HIDE DEF kept
  <2> QED  BY <2>1, <2>2
<1> DEFINE G == {k \in 0..n : kept[k] \in Seq(S)}
<1>6. \A k \in 0..n : kept[k] = Kept(effects, ttl, k, kept)
  BY <1>5 DEF IsKept
<1>7. 0 \in G
  BY <1>1, <1>2, <1>6
<1>8. ASSUME NEW k \in 0..(n - 1), k \in G PROVE k + 1 \in G
  <2>1. k + 1 \in 0..n /\ k + 1 - 1 = k
    BY <1>1
  <2> QED  BY <1>2, <1>6, <1>8, <2>1
<1> HIDE DEF G
<1>9. \A k \in 0..n : k \in G
  BY <1>1, <1>7, <1>8, Climb
<1> QED  BY <1>5, <1>6, <1>9 DEF G

\* The effects that last, each a frame older, are of the kind S, when an effect
\* of the kind R that lasts becomes one of the kind S.
LEMMA AgedType ==
    ASSUME NEW R, NEW S, NEW effects \in Seq(R), NEW ttl,
           \A effect \in R : Lasts(Grown(effect).age, ttl) => Grown(effect) \in S
    PROVE  Aged(effects, ttl) \in Seq(S)
<1>1. Len(effects) \in 0..Len(effects)
  BY LenProperties
<1> QED  BY <1>1, AgedIsKept

\* Between two multiples the quotient is between their factors.
LEMMA QuotientBetween ==
    ASSUME NEW b \in Nat \ {0}, NEW low \in Int, NEW high \in Int,
           NEW n \in (low * b)..(high * b)
    PROVE  n \div b \in low..high
<1> DEFINE q == n \div b
<1>1. q \in Int /\ q * b <= n /\ n < (q + 1) * b /\ n \in Int
  OBVIOUS
<1> HIDE DEF q
<1>2. low <= q
  <2> SUFFICES ASSUME q + 1 <= low PROVE FALSE
    BY <1>1
  <2>1. (q + 1) * b <= low * b
    BY <1>1
  <2> QED  BY <1>1, <2>1
<1>3. q <= high
  <2> SUFFICES ASSUME high + 1 <= q PROVE FALSE
    BY <1>1
  <2>1. (high + 1) * b <= q * b
    BY <1>1
  <2> QED  BY <1>1, <2>1
<1> QED  BY <1>1, <1>2, <1>3 DEF q

\* The easing never overshoots: it stays between the ends of the way.
LEMMA EasedBetween ==
    ASSUME NEW frames \in Nat \ {0}, NEW t \in 0..frames,
           NEW low \in Int, NEW high \in Int, NEW from \in low..high, NEW to \in low..high
    PROVE  Eased(from, to, t, frames) \in low..high
<1> DEFINE d == to - from
           k == t * t * (3 * frames - 2 * t)
           b == frames * frames * frames
<1>1. b \in Nat \ {0}
  OBVIOUS
<1>2. k \in 0..b
  <2> DEFINE r == frames - t
  <2>1. r \in Nat /\ t \in Nat /\ frames = t + r
    OBVIOUS
  <2> HIDE DEF r
  <2>2. k = t * t * t + 3 * (t * t * r)
    BY <2>1
  <2>3. b = t * t * t + 3 * (t * t * r) + 3 * (t * r * r) + r * r * r
    BY <2>1
  <2>4. t * t * t \in Nat /\ t * t * r \in Nat /\ t * r * r \in Nat /\ r * r * r \in Nat
    BY <2>1
  <2> QED  BY <2>2, <2>3, <2>4
<1>3. d \in Int
  OBVIOUS
<1> DEFINE q == (d * k) \div b
<1>4. q \in Int /\ (d >= 0 => q \in 0..d) /\ (d <= 0 => q \in d..0)
  <2> HIDE DEF d, k, b
  <2>1. d >= 0 => d * k \in (0 * b)..(d * b)
    BY <1>1, <1>2, <1>3
  <2>2. d <= 0 => d * k \in (d * b)..(0 * b)
    BY <1>1, <1>2, <1>3
  <2>3. d >= 0 => q \in 0..d
    BY <1>1, <1>3, <2>1, QuotientBetween
  <2>4. d <= 0 => q \in d..0
    BY <1>1, <1>3, <2>2, QuotientBetween
  <2> QED  BY <1>3, <2>3, <2>4
<1>5. Eased(from, to, t, frames) = from + q
  BY DEF Eased
<1> HIDE DEF q, k, b
<1> QED  BY <1>4, <1>5
-----------------------------------------------------------------------------
\* No deeper tree than the rows above the boundary, and no wider row than the
\* screen.
Shallow == \A p \in DOMAIN processes : DepthOf(Ppids, p) < ROWS_ABOVE
Narrow == \A p \in DOMAIN processes : RowSize(Ppids, p) <= WIDEST_ROW

\* The layout is made of finitely many processes.
LEMMA ProcessesAreFinite ==
    ASSUME Mirror
    PROVE  /\ IsFiniteSet(DOMAIN processes)
           /\ DOMAIN processes \subseteq Pid \cup {0} /\ DOMAIN processes \subseteq Nat
<1> DEFINE D == DOMAIN calling \cup {initialPid}
<1>1. DOMAIN processes \subseteq D
  BY DEF Mirror
<1>2. IsFiniteSet(D)
  BY FS_AddElement DEF Mirror, CallingOK
<1>3. DOMAIN processes \subseteq Pid \cup {0}
  BY DEF Mirror, Shape, Unknown, Coherent
<1> HIDE DEF D
<1>4. IsFiniteSet(DOMAIN processes)
  BY <1>1, <1>2, FS_Subset
<1>5. \A p \in Pid \cup {0} : p \in Nat
  BY PidAssumption
<1>6. DOMAIN processes \subseteq Nat
  BY <1>3, <1>5
<1> QED  BY <1>3, <1>4, <1>6

\* The boxes drawn last were above the boundary.
RectsAbove ==
    \A p \in DOMAIN rects :
        /\ rects[p].y \in Nat /\ rects[p].h \in Nat
        /\ PROC_Y <= rects[p].y /\ rects[p].y + rects[p].h <= BOUNDARY_Y

\* Rings that are over in time: one below the boundary came with an EXIT, and no
\* syscall event was later than the latest of them.
Settling(frames) ==
    {ring \in [x : Int, y : Int, age : 0..(RING_TTL - 1)] :
        ring.y > BOUNDARY_Y => ring.age >= frames}

Settled == RectsAbove /\ rings \in Seq(Settling(quiet))

\* The boxes of a shallow tree are drawn above the boundary.
LEMMA RectsAboveDraw ==
    ASSUME Mirror, Shallow, Draw
    PROVE  RectsAbove'
<1>1. rects' = Boxes /\ DOMAIN Boxes = DOMAIN processes /\ DOMAIN Ppids = DOMAIN processes
  BY BoxesDomain DEF Draw, Render, DrawnBoxes
<1>2. \A p \in DOMAIN processes :
        LET box == BoxesOf(Ppids)[p]
        IN  box.y \in Nat /\ box.h \in Nat /\ PROC_Y <= box.y /\ box.y + box.h <= BOUNDARY_Y
  BY <1>1, ProcessesAreFinite, BoxIsAbove DEF Shallow
<1> QED  BY <1>1, <1>2 DEF RectsAbove, Boxes

\* A ring that appears, and the rings there are at an event.
LEMMA SettlingRings ==
    ASSUME NEW frames \in Nat, NEW old \in Seq(Settling(frames))
    PROVE  /\ old \in Seq(Settling(0))
           /\ \A x, y \in Int : Append(old, Ring(x, y)) \in Seq(Settling(0))
           /\ \A x, y \in Int : y <= BOUNDARY_Y => Append(old, Ring(x, y)) \in Seq(Settling(frames))
<1>1. Settling(frames) \subseteq Settling(0)
  BY DEF Settling, RING_TTL
<1>2. old \in Seq(Settling(0))
  BY <1>1, SeqMonotonic
<1>3. \A x, y \in Int : /\ Ring(x, y) \in Settling(0)
                        /\ y <= BOUNDARY_Y => Ring(x, y) \in Settling(frames)
  BY DEF Ring, Settling, RING_TTL, BOUNDARY_Y
<1> QED  BY <1>2, <1>3, AppendProperties

\* An event that is no syscall leaves no ring below the boundary, and a syscall
\* event starts the count.
LEMMA SettledRelease ==
    ASSUME Flight, Settled, NEW e \in Released, Release(e)
    PROVE  Settled'
<1>1. Mirror /\ Fields /\ Shape /\ quiet \in Nat
  BY DEF Flight, Mirror, Fields
<1>2. CASE e.kind = "ENTER"
  <2>1. NotifyEnter(e) /\ quiet' = 0
    BY <1>1, <1>2, ReleaseCases DEF Release, IsSyscall
  <2> QED  BY <1>1, <2>1, SettlingRings DEF Settled, RectsAbove, NotifyEnter
<1>3. CASE e.kind = "EXIT"
  <2>1. NotifyExit(e) /\ quiet' = 0
    BY <1>1, <1>3, ReleaseCases DEF Release, IsSyscall
  <2>2. CASE pulse = None
    BY <1>1, <2>1, <2>2, SettlingRings DEF Settled, RectsAbove, NotifyExit, sceneVars
  <2>3. CASE pulse # None
    <3>1. rings' = Append(rings, Ring(pulse.x \div PX, pulse.y \div PX)) /\ rects' = rects
      BY <2>1, <2>3 DEF NotifyExit
    <3>2. pulse.x \div PX \in Int /\ pulse.y \div PX \in Int
      BY <1>1, <2>3 DEF Fields, AnyPulse, PX
    <3> QED  BY <1>1, <2>1, <3>1, <3>2, SettlingRings DEF Settled, RectsAbove
  <2> QED  BY <2>2, <2>3
<1>4. CASE e.kind \in {"SPAWN", "DEATH"}
  <2>1. quiet' = quiet
    BY <1>4 DEF Release, IsSyscall
  <2>2. rects' = rects
    BY <1>1, <1>4, ReleaseCases DEF NotifySpawn, NotifyDeath
  <2>3. CASE rings' = rings
    BY <2>1, <2>2, <2>3 DEF Settled, RectsAbove
  <2>4. CASE rings' # rings
    <3>1. /\ e.pid \in DOMAIN rects
          /\ rings' = Append(rings, Ring(CenterOf(rects[e.pid]),
                                         rects[e.pid].y + rects[e.pid].h \div 2))
      BY <1>1, <1>4, <2>4, ReleaseCases DEF NotifySpawn, NotifyDeath
    <3> DEFINE box == rects[e.pid]
    <3>2. /\ box.x \in Int /\ box.w \in Int /\ box.y \in Nat /\ box.h \in Nat
          /\ box.y + box.h <= BOUNDARY_Y
      BY <1>1, <3>1 DEF Fields, Settled, RectsAbove
    <3>3. rings' = Append(rings, Ring(CenterOf(box), box.y + box.h \div 2))
      BY <3>1
    <3> HIDE DEF box
    <3>4. CenterOf(box) \in Int /\ box.y + box.h \div 2 \in Int /\ box.y + box.h \div 2 <= BOUNDARY_Y
      BY <3>2 DEF CenterOf, BOUNDARY_Y
    <3>5. rings' \in Seq(Settling(quiet))
      BY <1>1, <3>3, <3>4, SettlingRings DEF Settled
    <3> QED  BY <2>1, <2>2, <3>5 DEF Settled, RectsAbove
  <2> QED  BY <2>3, <2>4
<1> QED  BY <1>1, <1>2, <1>3, <1>4, ReleaseCases

\* A ring grows older as the count goes on.
LEMMA SettledFrame ==
    ASSUME Flight, Settled, Frame
    PROVE  Settled'
<1>1. /\ Mirror /\ quiet \in Nat /\ MaxQuiet \in Nat /\ Step
      /\ quiet' = IF quiet < MaxQuiet THEN quiet + 1 ELSE quiet
  BY FramesAssumption DEF Flight, Mirror, Fields, Frame
<1>2. RectsAbove'
  BY <1>1 DEF Step, Settled, RectsAbove
<1>3. quiet' \in Nat /\ quiet' <= quiet + 1
  BY <1>1
<1>4. Aged(rings, RING_TTL) \in Seq(Settling(quiet'))
  <2>1. ASSUME NEW ring \in Settling(quiet), Lasts(Grown(ring).age, RING_TTL)
        PROVE  Grown(ring) \in Settling(quiet')
    <3>1. /\ ring \in [x : Int, y : Int, age : 0..(RING_TTL - 1)]
          /\ ring.y > BOUNDARY_Y => ring.age >= quiet
      BY DEF Settling
    <3>2. ring.age + 1 < RING_TTL
      BY <2>1, <3>1 DEF Lasts, Grown
    <3> QED  BY <1>1, <1>3, <3>1, <3>2 DEF Settling, RING_TTL, BOUNDARY_Y, Grown
  <2> QED  BY <2>1, AgedType DEF Settled
<1>5. \/ rings' = Aged(rings, RING_TTL)
      \/ \E x, y \in Int : y <= BOUNDARY_Y /\ rings' = Append(Aged(rings, RING_TTL), Ring(x, y))
  <2>1. CASE StepStill
    BY <2>1 DEF StepStill
  <2>2. CASE pulse # None /\ pulse.state = "DESCEND" /\ StepDescend
    <3>1. pulse \in AnyPulse /\ pulse.t < DESCEND_FRAMES
      BY <2>2 DEF Flight, Fields, Trip
    <3>2. Descended \in AnyPulse
      BY <3>1, DescendedFacts
    <3>3. Descended.x \div PX \in Int /\ BOUNDARY_Y \in Int /\ BOUNDARY_Y <= BOUNDARY_Y
      BY <3>2 DEF AnyPulse, PX, BOUNDARY_Y
    <3> QED  BY <2>2, <3>3 DEF StepDescend
  <2>3. CASE pulse # None /\ pulse.state = "RETURN" /\ StepReturn
    <3>1. pulse.origin_x \in Int
      BY <2>3 DEF Flight, Fields, AnyPulse
    <3>2. ORIGIN_Y \in Int /\ ORIGIN_Y <= BOUNDARY_Y
      BY DEF ORIGIN_Y, PROC_Y, PROC_H, BOUNDARY_Y
    <3> QED  BY <2>3, <3>1, <3>2 DEF StepReturn
  <2> QED  BY <1>1, <2>1, <2>2, <2>3 DEF Step
<1>6. rings' \in Seq(Settling(quiet'))
  BY <1>3, <1>4, <1>5, SettlingRings
<1> QED  BY <1>2, <1>6 DEF Settled

\* R5: 30 frames after an EXIT with no syscall event since, neither a pulse nor a
\* ring is below the boundary, whatever ends meanwhile, while trees are shallow.
THEOREM ScreenSettles == Spec /\ []Shallow => []SettlesAfterExit
<1>1. Init => Settled
  <2> SUFFICES ASSUME Init PROVE Settled
    OBVIOUS
  <2>1. rings = <<>> /\ rects = EmptyDict
    BY DEF Init, SceneInit
  <2> QED  BY <2>1, EmptyIsDict DEF Settled, RectsAbove
<1>2. Flight /\ Settled /\ Shallow /\ [Next]_vars => Settled'
  <2> SUFFICES ASSUME Flight, Settled, Shallow, [Next]_vars PROVE Settled'
    OBVIOUS
  <2>1. CASE Draw
    BY <2>1, RectsAboveDraw DEF Draw, Render, Flight, Settled
  <2>2. CASE UNCHANGED vars
    BY <2>2 DEF vars, historyVars, sceneVars, Settled, RectsAbove
  <2> QED  BY <2>1, <2>2, SettledRelease, SettledFrame DEF Next
<1>3. Flight /\ Settled => SettlesAfterExit
  <2> SUFFICES ASSUME Flight, Settled, LastWas("EXIT"), quiet >= 30
               PROVE  pulse = None /\ ~RingBelow
    BY DEF SettlesAfterExit
  <2>1. quiet \in Nat
    BY DEF Flight, Fields
  <2>2. pulse = None
    <3>1. pulse # None => pulse \in AnyPulse /\ pulse.t < RETURN_FRAMES /\ quiet = Capped(pulse.t)
      BY DEF Flight, Fields, Shown, Trip
    <3> QED  BY <3>1, <2>1, FramesAssumption DEF AnyPulse, Capped, RETURN_FRAMES
  <2>3. ~RingBelow
    <3> SUFFICES ASSUME NEW i \in 1..Len(rings), rings[i].y > BOUNDARY_Y PROVE FALSE
      BY DEF RingBelow
    <3>1. rings[i] \in Settling(quiet)
      BY ElementOfSeq DEF Settled
    <3> QED  BY <2>1, <3>1 DEF Settling, RING_TTL
  <2> QED  BY <2>2, <2>3
<1> QED  BY <1>1, <1>2, <1>3, FlightInvariant, PTL DEF Spec
-----------------------------------------------------------------------------
\* The boxes drawn last were on the screen.
RectsFit ==
    \A p \in DOMAIN rects :
        rects[p].x \in Nat /\ rects[p].w \in Nat /\ rects[p].x + rects[p].w <= WIDTH

\* The boxes of rows that are not too wide are drawn on the screen.
LEMMA RectsFitDraw ==
    ASSUME Mirror, Narrow, Draw
    PROVE  RectsFit'
<1>1. rects' = Boxes /\ DOMAIN Boxes = DOMAIN processes /\ DOMAIN Ppids = DOMAIN processes
  BY BoxesDomain DEF Draw, Render, DrawnBoxes
<1>2. ASSUME NEW p \in DOMAIN processes
      PROVE  Boxes[p].x \in Nat /\ Boxes[p].w \in Nat /\ Boxes[p].x + Boxes[p].w <= WIDTH
  <2>1. RowSize(Ppids, p) <= WIDEST_ROW
    BY DEF Narrow
  <2> QED  BY <1>1, <2>1, ProcessesAreFinite, BoxIsOnScreen DEF Boxes
<1> QED  BY <1>1, <1>2 DEF RectsFit

\* The middle of a box is on the screen.
LEMMA CenterFits ==
    ASSUME NEW box, box.x \in Nat, box.w \in Nat, box.x + box.w <= WIDTH
    PROVE  CenterOf(box) \in 0..WIDTH
<1> DEFINE a == box.x
           b == box.w
<1>1. a \in Nat /\ b \in Nat /\ a + b <= 256 /\ CenterOf(box) = a + b \div 2
  BY DEF CenterOf, WIDTH
<1> HIDE DEF a, b
<1>2. a + b \div 2 \in 0..256
  BY <1>1
<1> QED  BY <1>1, <1>2 DEF WIDTH

\* Pixels of the width, in thousandths.
LEMMA WidthInThousandths == \A n \in 0..WIDTH : n * PX \in 0..(WIDTH * PX)
<1>1. WIDTH \in Nat /\ PX \in Nat
  BY DEF WIDTH, PX
<1> QED  BY <1>1

\* A pulse sets out from a place on the screen, and for one.
LEMMA NewPulseType ==
    ASSUME RectsFit, NEW e \in EnterEvent
    PROVE  NewPulse(e) \in PulseType
<1> DEFINE from == OriginX(e.pid)
           to == zone_center(classify(e.name))
<1>1. from \in 0..WIDTH
  <2>1. CASE e.pid \in DOMAIN rects
    BY <2>1, CenterFits DEF RectsFit, OriginX, BoxRect
  <2>2. CASE e.pid \notin DOMAIN rects
    BY <2>2 DEF OriginX, BoxRect, CenterOf, LoneBox, PROC_X, PROC_W, WIDTH
  <2> QED  BY <2>1, <2>2
<1>2. to \in 0..WIDTH
  <2> DEFINE sub == classify(e.name)
             k == ZONE_ORDER[sub]
  <2>1. sub \in DOMAIN ZONE_ORDER => k \in 0..3
    BY DEF ZONE_ORDER
  <2>2. sub \in DOMAIN ZONE_ORDER => to = k * ZONE_W + ZONE_W \div 2
    BY DEF zone_center, zone_bounds
  <2>3. sub \notin DOMAIN ZONE_ORDER => to = 128
    BY DEF zone_center, zone_bounds, WIDTH
  <2> HIDE DEF sub, k, to
  <2>4. ZONE_W = 64 /\ WIDTH = 256
    BY DEF ZONE_W, WIDTH
  <2> QED  BY <2>1, <2>2, <2>3, <2>4
<1>3. e.name \in CallName /\ e.path \in Path \cup {None} /\ e.fd \in Number \cup {None}
  BY DEF EnterEvent
<1>4. NewPulse(e) =
         [name |-> e.name, target_x |-> to, origin_x |-> from, path |-> e.path, fd |-> e.fd,
          state |-> "DESCEND", t |-> 0, x |-> from * PX, y |-> ORIGIN_Y * PX,
          return_from |-> REST_Y * PX, result |-> None]
  BY DEF NewPulse
<1> HIDE DEF from, to
<1>5. from * PX \in 0..(WIDTH * PX)
  BY <1>1, WidthInThousandths
<1>6. /\ ORIGIN_Y * PX \in (ORIGIN_Y * PX)..(REST_Y * PX)
      /\ REST_Y * PX \in (ORIGIN_Y * PX)..(REST_Y * PX)
      /\ 0 \in 0..DESCEND_FRAMES
  BY DEF ORIGIN_Y, PROC_Y, PROC_H, REST_Y, PX, DESCEND_FRAMES
<1> QED  BY <1>1, <1>2, <1>3, <1>4, <1>5, <1>6 DEF PulseType

\* A pulse turns back wherever it is.
LEMMA TurnedBackType ==
    ASSUME pulse \in PulseType, NEW result \in Result
    PROVE  TurnedBack(result) \in PulseType
<1>1. 0 \in 0..DESCEND_FRAMES
  BY DEF DESCEND_FRAMES
<1> QED  BY <1>1 DEF TurnedBack, PulseType

\* The ends of a pulse's ways.
LEMMA WaysFit ==
    ASSUME pulse \in PulseType
    PROVE  /\ pulse.origin_x * PX \in 0..(WIDTH * PX) /\ pulse.target_x * PX \in 0..(WIDTH * PX)
           /\ ORIGIN_Y * PX \in (ORIGIN_Y * PX)..(REST_Y * PX)
           /\ REST_Y * PX \in (ORIGIN_Y * PX)..(REST_Y * PX)
           /\ 0 \in Int /\ WIDTH * PX \in Int /\ ORIGIN_Y * PX \in Int /\ REST_Y * PX \in Int
           /\ pulse.return_from \in (ORIGIN_Y * PX)..(REST_Y * PX)
<1>1. pulse.origin_x \in 0..WIDTH /\ pulse.target_x \in 0..WIDTH
  BY DEF PulseType
<1>2. pulse.return_from \in (ORIGIN_Y * PX)..(REST_Y * PX)
  BY DEF PulseType
<1>3. /\ ORIGIN_Y * PX \in (ORIGIN_Y * PX)..(REST_Y * PX)
      /\ REST_Y * PX \in (ORIGIN_Y * PX)..(REST_Y * PX)
      /\ WIDTH * PX \in Int /\ ORIGIN_Y * PX \in Int /\ REST_Y * PX \in Int
  BY DEF PX, WIDTH, ORIGIN_Y, PROC_Y, PROC_H, REST_Y
<1> QED  BY <1>1, <1>2, <1>3, WidthInThousandths

\* A pulse on its way down stays between the box and its resting place.
LEMMA DescendedType ==
    ASSUME pulse \in PulseType, pulse.t < DESCEND_FRAMES
    PROVE  Descended \in PulseType
<1> DEFINE t == pulse.t + 1
           x == Eased(pulse.origin_x * PX, pulse.target_x * PX, t, DESCEND_FRAMES)
           y == Eased(ORIGIN_Y * PX, REST_Y * PX, t, DESCEND_FRAMES)
<1>1. pulse.t \in 0..DESCEND_FRAMES /\ t \in 0..DESCEND_FRAMES /\ DESCEND_FRAMES \in Nat \ {0}
      /\ 0 \in 0..DESCEND_FRAMES
  BY DEF PulseType, DESCEND_FRAMES
<1> HIDE DEF t
<1>2. x \in 0..(WIDTH * PX)
  BY <1>1, WaysFit, EasedBetween
<1>3. y \in (ORIGIN_Y * PX)..(REST_Y * PX)
  BY <1>1, WaysFit, EasedBetween
<1> HIDE DEF x, y
<1>4. CASE t < DESCEND_FRAMES
  <2>1. Descended = [pulse EXCEPT !.t = t, !.x = x, !.y = y]
    BY <1>4 DEF Descended, x, y, t
  <2> QED  BY <1>1, <1>2, <1>3, <2>1 DEF PulseType
<1>5. CASE ~(t < DESCEND_FRAMES)
  <2>1. Descended = [pulse EXCEPT !.t = 0, !.x = pulse.target_x * PX, !.y = REST_Y * PX,
                                  !.state = "WAIT"]
    BY <1>5 DEF Descended, t
  <2> QED  BY <1>1, <2>1, WaysFit DEF PulseType
<1> QED  BY <1>4, <1>5

\* A pulse on its way back stays between where it turned and the box.
LEMMA ReturningType ==
    ASSUME pulse \in PulseType, pulse.t + 1 < RETURN_FRAMES, StepReturn
    PROVE  pulse' \in PulseType
<1> DEFINE t == pulse.t + 1
           x == Eased(pulse.target_x * PX, pulse.origin_x * PX, t, RETURN_FRAMES)
           y == Eased(pulse.return_from, ORIGIN_Y * PX, t, RETURN_FRAMES)
<1>1. pulse' = [pulse EXCEPT !.t = t, !.x = x, !.y = y]
  BY DEF StepReturn
<1>2. t \in 0..RETURN_FRAMES /\ RETURN_FRAMES \in Nat \ {0} /\ t \in 0..DESCEND_FRAMES
  BY DEF PulseType, DESCEND_FRAMES, RETURN_FRAMES
<1> HIDE DEF t
<1>3. x \in 0..(WIDTH * PX)
  BY <1>2, WaysFit, EasedBetween
<1>4. y \in (ORIGIN_Y * PX)..(REST_Y * PX)
  BY <1>2, WaysFit, EasedBetween
<1> HIDE DEF x, y
<1> QED  BY <1>1, <1>2, <1>3, <1>4 DEF PulseType

\* A pulse, a ring and a split that are on the screen and not over.
FitRing == [x : 0..WIDTH, y : PROC_Y..REST_Y, age : 0..(RING_TTL - 1)]
FitSplit == [parent : Pid, child : Pid, age : 0..(SPLIT_TTL - 1)]

Fits ==
    /\ RectsAbove /\ RectsFit
    /\ SceneTypeOK

\* The place of a pulse in pixels.
LEMMA PixelsFit ==
    /\ \A n \in 0..(WIDTH * PX) : n \div PX \in 0..WIDTH
    /\ \A n \in (ORIGIN_Y * PX)..(REST_Y * PX) : n \div PX \in PROC_Y..REST_Y
<1>1. PX \in Nat \ {0} /\ 0 \in Int /\ WIDTH \in Int /\ ORIGIN_Y \in Int /\ REST_Y \in Int
      /\ PROC_Y \in Int /\ PROC_Y <= ORIGIN_Y /\ 0 * PX = 0
  BY DEF PX, WIDTH, ORIGIN_Y, REST_Y, PROC_Y, PROC_H
<1>2. ASSUME NEW n \in 0..(WIDTH * PX) PROVE n \div PX \in 0..WIDTH
  BY <1>1, QuotientBetween
<1>3. ASSUME NEW n \in (ORIGIN_Y * PX)..(REST_Y * PX) PROVE n \div PX \in PROC_Y..REST_Y
  <2>1. n \div PX \in ORIGIN_Y..REST_Y
    BY <1>1, QuotientBetween
  <2> QED  BY <1>1, <2>1
<1> QED  BY <1>2, <1>3

\* What a ring that appears does to the rings.
LEMMA OneMoreRing ==
    ASSUME NEW old \in Seq(FitRing), NEW x \in 0..WIDTH, NEW y \in PROC_Y..REST_Y
    PROVE  Append(old, Ring(x, y)) \in Seq(FitRing)
<1>1. Ring(x, y) \in FitRing
  BY DEF Ring, FitRing, RING_TTL
<1> QED  BY <1>1, AppendProperties

\* What a split that begins, and a frame, do to the splits.
LEMMA OneMoreSplit ==
    ASSUME splits \in Seq(FitSplit), NEW e \in SpawnEvent
    PROVE  splits \o <<[parent |-> e.parent, child |-> e.child, age |-> 0]>> \in Seq(FitSplit)
<1>1. [parent |-> e.parent, child |-> e.child, age |-> 0] \in FitSplit
  BY DEF SpawnEvent, FitSplit, SPLIT_TTL
<1>2. <<[parent |-> e.parent, child |-> e.child, age |-> 0]>> \in Seq(FitSplit)
  BY <1>1
<1> QED  BY <1>2, ConcatProperties

LEMMA AgedSplits ==
    ASSUME splits \in Seq(FitSplit)
    PROVE  Aged(splits, SPLIT_TTL) \in Seq(FitSplit)
<1>1. ASSUME NEW split \in FitSplit, Lasts(Grown(split).age, SPLIT_TTL)
      PROVE  Grown(split) \in FitSplit
  <2>1. split.age \in 0..(SPLIT_TTL - 1) /\ split.age + 1 < SPLIT_TTL
    BY <1>1 DEF FitSplit, Lasts, Grown
  <2>2. split.age + 1 \in 0..(SPLIT_TTL - 1)
    BY <2>1 DEF SPLIT_TTL
  <2> QED  BY <2>2 DEF FitSplit, Grown
<1> QED  BY <1>1, AgedType

\* An event leaves the pulse, the rings and the splits on the screen.
LEMMA FitsRelease ==
    ASSUME Flight, Fits, NEW e \in Released, Release(e)
    PROVE  Fits'
<1>1. Mirror /\ Fields /\ Shape
  BY DEF Flight, Mirror
<1>2. rects' = rects /\ shownAge' = shownAge
  BY <1>1, ReleaseCases DEF NotifyEnter, NotifyExit, NotifySpawn, NotifyDeath, sceneVars
<1>3. CASE e.kind = "ENTER"
  <2>1. /\ e \in EnterEvent /\ pulse' = NewPulse(e)
        /\ rings' = rings /\ splits' = splits /\ status' = status
    BY <1>1, <1>3, ReleaseCases DEF NotifyEnter, PulseAfter
  <2>2. NewPulse(e) \in PulseType
    BY <2>1, NewPulseType DEF Fits
  <2> QED  BY <1>2, <2>1, <2>2 DEF Fits, RectsAbove, RectsFit, SceneTypeOK
<1>4. CASE e.kind = "EXIT"
  <2>1. NotifyExit(e) /\ e \in ExitEvent /\ e.result # None
    BY <1>1, <1>4, ReleaseCases, ReleasedAssumption
  <2>2. CASE pulse = None
    BY <1>2, <2>1, <2>2 DEF Fits, RectsAbove, RectsFit, SceneTypeOK, NotifyExit, sceneVars
  <2>3. CASE pulse # None
    <3>1. /\ pulse' = TurnedBack(e.result) /\ e.result \in Result
          /\ rings' = Append(rings, Ring(pulse.x \div PX, pulse.y \div PX))
          /\ status' = StatusAfter(e.result) /\ splits' = splits
      BY <2>1, <2>3 DEF NotifyExit, StatusOf, ExitEvent
    <3>2. pulse \in PulseType
      BY <2>3 DEF Fits, SceneTypeOK
    <3>3. pulse' \in PulseType
      BY <3>1, <3>2, TurnedBackType
    <3>4. pulse.x \div PX \in 0..WIDTH /\ pulse.y \div PX \in PROC_Y..REST_Y
      <4>1. pulse.x \in 0..(WIDTH * PX) /\ pulse.y \in (ORIGIN_Y * PX)..(REST_Y * PX)
        BY <3>2 DEF PulseType
      <4> QED  BY <4>1, PixelsFit
    <3>5. rings' \in Seq(FitRing)
      BY <3>1, <3>4, OneMoreRing DEF Fits, SceneTypeOK, FitRing
    <3>6. status'.name \in CallName /\ status'.age \in 0..(STATUS_TTL + 1)
      <4>1. status'.name = pulse.name /\ status'.age = 0
        BY <3>1 DEF StatusAfter
      <4>2. pulse.name \in CallName
        BY <3>2 DEF PulseType
      <4> QED  BY <4>1, <4>2, StatusAssumption
    <3> QED  BY <1>2, <3>1, <3>3, <3>5, <3>6 DEF Fits, RectsAbove, RectsFit, SceneTypeOK, FitRing
  <2> QED  BY <2>2, <2>3
<1>5. CASE e.kind = "SPAWN"
  <2>1. /\ e \in SpawnEvent /\ UNCHANGED <<pulse, rings, status>>
        /\ splits' = splits \o <<[parent |-> e.parent, child |-> e.child, age |-> 0]>>
    BY <1>1, <1>5, ReleaseCases DEF NotifySpawn, NewSplits
  <2>2. splits' \in Seq(FitSplit)
    BY <2>1, OneMoreSplit DEF Fits, SceneTypeOK, FitSplit
  <2> QED  BY <1>2, <2>1, <2>2 DEF Fits, RectsAbove, RectsFit, SceneTypeOK, FitSplit
<1>6. CASE e.kind = "DEATH"
  <2>1. /\ UNCHANGED <<pulse, splits, status>>
        /\ rings' = IF e.pid \in DOMAIN rects
                    THEN Append(rings, Ring(CenterOf(rects[e.pid]),
                                            rects[e.pid].y + rects[e.pid].h \div 2))
                    ELSE rings
    BY <1>1, <1>6, ReleaseCases DEF NotifyDeath
  <2>2. rings' \in Seq(FitRing)
    <3>1. CASE e.pid \notin DOMAIN rects
      BY <2>1, <3>1 DEF Fits, SceneTypeOK, FitRing
    <3>2. CASE e.pid \in DOMAIN rects
      <4> DEFINE box == rects[e.pid]
      <4>1. /\ box.x \in Nat /\ box.w \in Nat /\ box.x + box.w <= WIDTH
            /\ box.y \in Nat /\ box.h \in Nat /\ PROC_Y <= box.y /\ box.y + box.h <= BOUNDARY_Y
        BY <3>2 DEF Fits, RectsAbove, RectsFit
      <4>2. rings' = Append(rings, Ring(CenterOf(box), box.y + box.h \div 2))
        BY <2>1, <3>2
      <4> HIDE DEF box
      <4>3. CenterOf(box) \in 0..WIDTH
        BY <4>1, CenterFits
      <4>4. box.y + box.h \div 2 \in PROC_Y..REST_Y
        <5> DEFINE y == box.y
                   h == box.h
        <5>1. y \in Nat /\ h \in Nat /\ 40 <= y /\ y + h <= 128
          BY <4>1 DEF PROC_Y, BOUNDARY_Y
        <5> HIDE DEF y, h
        <5>2. y + h \div 2 \in 40..178
          BY <5>1
        <5> QED  BY <5>2 DEF y, h, PROC_Y, REST_Y
      <4> QED  BY <4>2, <4>3, <4>4, OneMoreRing DEF Fits, SceneTypeOK, FitRing
    <3> QED  BY <3>1, <3>2
  <2> QED  BY <1>2, <2>1, <2>2 DEF Fits, RectsAbove, RectsFit, SceneTypeOK, FitRing
<1> QED  BY <1>1, <1>3, <1>4, <1>5, <1>6, ReleaseCases

\* A frame moves the pulse on its way, and the rings that last grow older.
LEMMA FitsFrame ==
    ASSUME Flight, Fits, Frame
    PROVE  Fits'
<1>1. /\ Mirror /\ Fields /\ Step
  BY DEF Flight, Frame
<1>2. rects' = rects
  BY <1>1 DEF Step
<1>3. RectsAbove' /\ RectsFit' /\ DOMAIN rects' \subseteq Pid \cup {0}
  BY <1>2 DEF Fits, RectsAbove, RectsFit, SceneTypeOK
<1>4. pulse # None => pulse \in PulseType /\ pulse \in AnyPulse
  BY <1>1 DEF Fits, SceneTypeOK, Fields
<1>5. rings \in Seq(FitRing) /\ splits \in Seq(FitSplit)
  BY DEF Fits, SceneTypeOK, FitRing, FitSplit
<1>6. Aged(rings, RING_TTL) \in Seq(FitRing)
  <2>1. ASSUME NEW ring \in FitRing, Lasts(Grown(ring).age, RING_TTL)
        PROVE  Grown(ring) \in FitRing
    <3>1. ring.age \in 0..(RING_TTL - 1) /\ ring.age + 1 < RING_TTL
      BY <2>1 DEF FitRing, Lasts, Grown
    <3>2. ring.age + 1 \in 0..(RING_TTL - 1)
      BY <3>1 DEF RING_TTL
    <3> QED  BY <3>2 DEF FitRing, Grown
  <2> QED  BY <1>5, <2>1, AgedType
<1>7. splits' \in Seq(FitSplit)
  BY <1>1, <1>5, AgedSplits DEF Step
<1>8. status' # None => status'.name \in CallName /\ status'.age \in 0..(STATUS_TTL + 1)
  <2>1. CASE status = None
    BY <1>1, <2>1 DEF Step
  <2>2. CASE status # None
    <3>1. status' = [status EXCEPT !.age = Older(@, STATUS_TTL)]
      BY <1>1, <2>2 DEF Step
    <3>2. status \in AnyStatus /\ status.age \in 0..(STATUS_TTL + 1) /\ status.name \in CallName
      BY <1>1, <2>2 DEF Fields, Fits, SceneTypeOK
    <3>3. status'.name = status.name /\ status'.age = Older(status.age, STATUS_TTL)
      BY <3>1, <3>2 DEF AnyStatus
    <3>4. Older(status.age, STATUS_TTL) \in 0..(STATUS_TTL + 1)
      BY <3>2, StatusAssumption DEF Older
    <3> QED  BY <3>2, <3>3, <3>4
  <2> QED  BY <2>1, <2>2
<1>9. Older(shownAge, FAIL_RESULT_TTL) \in 0..(FAIL_RESULT_TTL + 1) \cup {None}
  <2>1. shownAge \in 0..(FAIL_RESULT_TTL + 1) \cup {None}
    BY DEF Fits, SceneTypeOK
  <2> QED  BY <2>1 DEF Older, FAIL_RESULT_TTL
<1>10. /\ pulse' \in PulseType \cup {None} /\ rings' \in Seq(FitRing)
       /\ shownAge' \in 0..(FAIL_RESULT_TTL + 1) \cup {None}
  <2>1. CASE StepStill
    BY <1>4, <1>6, <1>9, <2>1 DEF StepStill
  <2>2. CASE pulse # None /\ pulse.state = "DESCEND" /\ StepDescend
    <3>1. Descended \in PulseType
      <4>1. pulse.t < DESCEND_FRAMES
        BY <2>2 DEF Flight, Trip
      <4> QED  BY <1>4, <2>2, <4>1, DescendedType
    <3> DEFINE x == Descended.x \div PX
    <3>2. x \in 0..WIDTH
      <4>1. Descended.x \in 0..(WIDTH * PX)
        BY <3>1 DEF PulseType
      <4> QED  BY <4>1, PixelsFit
    <3>3. BOUNDARY_Y \in PROC_Y..REST_Y
      BY DEF BOUNDARY_Y, PROC_Y, REST_Y
    <3>4. /\ pulse' = Descended /\ shownAge' = Older(shownAge, FAIL_RESULT_TTL)
          /\ \/ rings' = Aged(rings, RING_TTL)
             \/ rings' = Append(Aged(rings, RING_TTL), Ring(x, BOUNDARY_Y))
      BY <2>2 DEF StepDescend
    <3> HIDE DEF x
    <3>5. rings' \in Seq(FitRing)
      BY <1>6, <3>2, <3>3, <3>4, OneMoreRing
    <3> QED  BY <1>9, <3>1, <3>4, <3>5
  <2>3. CASE pulse # None /\ pulse.state = "RETURN" /\ StepReturn
    <3>1. pulse.t \in Nat /\ pulse.origin_x \in 0..WIDTH
      BY <1>4, <2>3 DEF PulseType, DESCEND_FRAMES
    <3>2. CASE pulse.t + 1 < RETURN_FRAMES
      <4>1. pulse' \in PulseType
        BY <1>4, <2>3, <3>2, ReturningType
      <4> QED  BY <1>6, <1>9, <2>3, <3>2, <4>1 DEF StepReturn
    <3>3. CASE ~(pulse.t + 1 < RETURN_FRAMES)
      <4>1. /\ pulse' = None /\ shownAge' = 0
            /\ rings' = Append(Aged(rings, RING_TTL), Ring(pulse.origin_x, ORIGIN_Y))
        BY <2>3, <3>3 DEF StepReturn, LandingAge
      <4>2. ORIGIN_Y \in PROC_Y..REST_Y /\ 0 \in 0..(FAIL_RESULT_TTL + 1)
        BY DEF ORIGIN_Y, PROC_Y, PROC_H, REST_Y, FAIL_RESULT_TTL
      <4>3. rings' \in Seq(FitRing)
        BY <1>6, <3>1, <4>1, <4>2, OneMoreRing
      <4> QED  BY <4>1, <4>2, <4>3
    <3> QED  BY <3>2, <3>3
  <2> QED  BY <1>1, <2>1, <2>2, <2>3 DEF Step
<1> QED  BY <1>3, <1>7, <1>8, <1>10 DEF Fits, SceneTypeOK, FitRing, FitSplit

\* A draw records the boxes there are.
LEMMA FitsDraw ==
    ASSUME Flight, Fits, Shallow, Narrow, Draw
    PROVE  Fits'
<1>1. Mirror /\ rects' = Boxes /\ UNCHANGED <<pulse, rings, splits, shownAge, status>>
  BY DEF Flight, Draw, Render, DrawnBoxes
<1>2. RectsAbove' /\ RectsFit'
  BY <1>1, RectsAboveDraw, RectsFitDraw
<1>3. DOMAIN rects' \subseteq Pid \cup {0}
  BY <1>1, BoxesDomain, ProcessesAreFinite
<1> QED  BY <1>1, <1>2, <1>3 DEF Fits, SceneTypeOK

\* Nothing leaves the screen, goes further than its way or outlives its time, while
\* the boxes are on the screen and above the boundary.
THEOREM SceneTypeCorrect == Spec /\ [](Shallow /\ Narrow) => []SceneTypeOK
<1>1. Init => Fits
  <2> SUFFICES ASSUME Init PROVE Fits
    OBVIOUS
  <2>1. /\ pulse = None /\ rings = <<>> /\ splits = <<>> /\ rects = EmptyDict
        /\ shownAge = None /\ status = None
    BY DEF Init, SceneInit
  <2> QED  BY <2>1, EmptyIsDict DEF Fits, RectsAbove, RectsFit, SceneTypeOK
<1>2. Flight /\ Fits /\ (Shallow /\ Narrow) /\ [Next]_vars => Fits'
  <2> SUFFICES ASSUME Flight, Fits, Shallow, Narrow, [Next]_vars PROVE Fits'
    OBVIOUS
  <2>1. CASE UNCHANGED vars
    BY <2>1 DEF vars, sceneVars, Fits, RectsAbove, RectsFit, SceneTypeOK
  <2> QED  BY <2>1, FitsRelease, FitsFrame, FitsDraw DEF Next
<1>3. Fits => SceneTypeOK
  BY DEF Fits
<1> QED  BY <1>1, <1>2, <1>3, FlightInvariant, PTL DEF Spec
-----------------------------------------------------------------------------
\* Each effect that is left is one there was, a frame older, and no two are the same.
Embeds(h, new, effects, k) ==
    /\ h \in [1..Len(new) -> 1..k]
    /\ \A i, j \in 1..Len(new) : h[i] = h[j] => i = j
    /\ \A i \in 1..Len(new) : new[i] = Grown(effects[h[i]])

LEMMA AgedEmbeds ==
    ASSUME NEW R, NEW effects \in Seq(R), NEW ttl
    PROVE  \E h : Embeds(h, Aged(effects, ttl), effects, Len(effects))
<1> DEFINE n == Len(effects)
           S == {Grown(effect) : effect \in R}
<1>1. n \in Nat
  BY LenProperties
<1>2. PICK kept : /\ \A k \in 0..n : kept[k] = Kept(effects, ttl, k, kept) /\ kept[k] \in Seq(S)
                  /\ Aged(effects, ttl) = kept[n]
  <2>1. \A effect \in R : Lasts(Grown(effect).age, ttl) => Grown(effect) \in S
    OBVIOUS
  <2> HIDE DEF S
  <2>2. \E kept : /\ \A k \in 0..Len(effects) :
                        kept[k] = Kept(effects, ttl, k, kept) /\ kept[k] \in Seq(S)
                  /\ Aged(effects, ttl) = kept[Len(effects)]
    BY <2>1, AgedIsKept
  <2> QED  BY <2>2
<1> HIDE DEF S
<1> DEFINE G == {k \in 0..n : \E h : Embeds(h, kept[k], effects, k)}
<1>3. 0 \in G
  <2>1. kept[0] = <<>>
    <3>1. 0 \in 0..n
      BY <1>1
    <3>2. Kept(effects, ttl, 0, kept) = <<>>
      BY DEF Kept
    <3> QED  BY <1>2, <3>1, <3>2
  <2>2. Embeds([i \in 1..0 |-> i], kept[0], effects, 0)
    BY <2>1 DEF Embeds
  <2> QED  BY <1>1, <2>2
<1>4. ASSUME NEW k \in 0..(n - 1), k \in G PROVE k + 1 \in G
  <2> DEFINE old == kept[k]
             older == Grown(effects[k + 1])
             m == Len(old)
  <2>1. k \in 0..n /\ k + 1 \in 0..n /\ k + 1 \in 1..n /\ k + 1 # 0 /\ k + 1 - 1 = k /\ k \in Nat
    BY <1>1
  <2>2. PICK h : Embeds(h, old, effects, k)
    BY <1>4
  <2>3. kept[k + 1] = IF Lasts(older.age, ttl) THEN Append(old, older) ELSE old
    <3>1. kept[k + 1] = Kept(effects, ttl, k + 1, kept)
      BY <1>2, <2>1
    <3>2. Kept(effects, ttl, k + 1, kept) =
             IF Lasts(older.age, ttl) THEN Append(kept[k + 1 - 1], older) ELSE kept[k + 1 - 1]
      BY <2>1 DEF Kept
    <3> HIDE DEF older
    <3> QED  BY <2>1, <3>1, <3>2
  <2>4. old \in Seq(S) /\ m \in Nat
    BY <1>2, <2>1, LenProperties
  <2> HIDE DEF old, older
  <2>5. CASE kept[k + 1] = old
    <3>1. Embeds(h, kept[k + 1], effects, k + 1)
      BY <2>1, <2>2, <2>5 DEF Embeds
    <3> QED  BY <2>1, <3>1
  <2>6. CASE kept[k + 1] = Append(old, older)
    <3> DEFINE g == [i \in 1..(m + 1) |-> IF i = m + 1 THEN k + 1 ELSE h[i]]
               new == Append(old, older)
    <3>1. /\ Len(new) = m + 1 /\ new[m + 1] = older
          /\ \A i \in 1..m : new[i] = old[i]
      <4>1. old \in Seq(S \cup {older}) /\ older \in S \cup {older}
        <5>1. S \subseteq S \cup {older}
          OBVIOUS
        <5> QED  BY <2>4, <5>1, SeqMonotonic
      <4> HIDE DEF m
      <4> QED  BY <4>1, AppendProperties DEF m
    <3> HIDE DEF new, m
    <3>2. \A i \in 1..m : h[i] \in 1..k
      BY <2>2 DEF Embeds, m
    <3>3. \A i \in 1..(m + 1) : i = m + 1 \/ i \in 1..m
      BY <2>4
    <3>4. g \in [1..(m + 1) -> 1..(k + 1)]
      BY <2>1, <3>2, <3>3
    <3>5. g[m + 1] = k + 1 /\ \A i \in 1..m : g[i] = h[i] /\ g[i] # k + 1
      BY <2>1, <2>4, <3>2
    <3> HIDE DEF g
    <3>6. \A i, j \in 1..(m + 1) : g[i] = g[j] => i = j
      BY <2>2, <3>3, <3>5 DEF Embeds, m
    <3>7. \A i \in 1..(m + 1) : new[i] = Grown(effects[g[i]])
      <4>1. new[m + 1] = Grown(effects[g[m + 1]])
        BY <3>1, <3>5 DEF older
      <4>2. \A i \in 1..m : new[i] = Grown(effects[g[i]])
        BY <2>2, <3>1, <3>5 DEF Embeds, m
      <4> QED  BY <3>3, <4>1, <4>2
    <3>8. Embeds(g, new, effects, k + 1)
      BY <3>1, <3>4, <3>6, <3>7 DEF Embeds
    <3> QED  BY <2>1, <2>6, <3>8 DEF new
  <2> QED  BY <2>3, <2>5, <2>6
<1> HIDE DEF G
<1>5. \A k \in 0..n : k \in G
  BY <1>1, <1>3, <1>4, Climb
<1>6. n \in G
  BY <1>1, <1>5
<1> QED  BY <1>2, <1>6 DEF G

\* A nudge is at most six pixels.
LEMMA AmplitudeFits ==
    ASSUME NEW split PROVE Amplitude(split) \in 0..6
<1> DEFINE A == {2, 5, 9, 13, 18, 22}
           T == {age \in A : split.age <= age}
<1>1. IsFiniteSet(A) /\ Cardinality(A) \in Nat /\ Cardinality(A) <= 6
  <2>1. IsFiniteSet({2}) /\ Cardinality({2}) = 1
    BY FS_Singleton
  <2>2. IsFiniteSet({2, 5}) /\ Cardinality({2, 5}) = 2
    BY <2>1, {2} \cup {5} = {2, 5}, 5 \notin {2}, FS_AddElement
  <2>3. IsFiniteSet({2, 5, 9}) /\ Cardinality({2, 5, 9}) = 3
    BY <2>2, {2, 5} \cup {9} = {2, 5, 9}, 9 \notin {2, 5}, FS_AddElement
  <2>4. IsFiniteSet({2, 5, 9, 13}) /\ Cardinality({2, 5, 9, 13}) = 4
    BY <2>3, {2, 5, 9} \cup {13} = {2, 5, 9, 13}, 13 \notin {2, 5, 9}, FS_AddElement
  <2>5. IsFiniteSet({2, 5, 9, 13, 18}) /\ Cardinality({2, 5, 9, 13, 18}) = 5
    BY <2>4, {2, 5, 9, 13} \cup {18} = {2, 5, 9, 13, 18}, 18 \notin {2, 5, 9, 13}, FS_AddElement
  <2>6. IsFiniteSet(A) /\ Cardinality(A) = 6
    BY <2>5, {2, 5, 9, 13, 18} \cup {22} = A, 22 \notin {2, 5, 9, 13, 18}, FS_AddElement
  <2> QED  BY <2>6
<1>2. T \in SUBSET A
  OBVIOUS
<1> HIDE DEF A
<1>3. Amplitude(split) = Cardinality(T)
  BY DEF Amplitude, A
<1> HIDE DEF T
<1>4. IsFiniteSet(T) /\ Cardinality(T) <= Cardinality(A)
  BY <1>1, <1>2, FS_Subset
<1>5. Cardinality(T) \in Nat
  BY <1>4, FS_CardinalityType
<1> QED  BY <1>1, <1>3, <1>4, <1>5

\* The pixels by which one split moves pid's box, and the sum of those of the first
\* n splits from that of the ones before the last of them.
Nudge(split, pid) ==
    CASE split.child = pid -> Amplitude(split)
      [] split.child # pid /\ split.parent = pid -> -Amplitude(split)
      [] OTHER -> 0

Moved(pid, n, from) == IF n = 0 THEN 0 ELSE from[n - 1] + Nudge(splits[n], pid)

IsMoved(pid, total) == total = [n \in 0..Len(splits) |-> Moved(pid, n, total)]

LEMMA NudgeFits ==
    ASSUME NEW split, NEW p
    PROVE  /\ Nudge(split, p) \in -6..6
           /\ split.child # p => Nudge(split, p) <= 0
           /\ split.child = p \/ split.parent # p => Nudge(split, p) >= 0
<1> DEFINE a == Amplitude(split)
<1>1. a \in 0..6
  BY AmplitudeFits
<1>2. Nudge(split, p) = CASE split.child = p -> a
                          [] split.child # p /\ split.parent = p -> -a
                          [] OTHER -> 0
  BY DEF Nudge
<1> HIDE DEF a
<1> QED  BY <1>1, <1>2

\* SplitOffset is the last of the sums the recursion goes through.
LEMMA OffsetIsMoved ==
    ASSUME NEW R, splits \in Seq(R), NEW pid
    PROVE  \E total : /\ \A k \in 0..Len(splits) :
                            total[k] = Moved(pid, k, total) /\ total[k] \in Int
                      /\ SplitOffset(pid) = total[Len(splits)]
<1> DEFINE n == Len(splits)
           step == [f \in [0..n -> Int] |-> [k \in 0..n |-> Moved(pid, k, f)]]
<1>1. n \in Nat /\ Int # {}
  <2>1. n \in Nat
    BY LenProperties
  <2>2. Int # {}
    BY 0 \in Int
  <2> QED  BY <2>1, <2>2
<1>2. LooksBack(step, n, Int)
  <2>1. ASSUME NEW f \in [0..n -> Int], NEW k \in 0..n
        PROVE  Moved(pid, k, f) \in Int
    <3>1. CASE k = 0
      BY <3>1 DEF Moved
    <3>2. CASE k # 0
      <4>1. k - 1 \in 0..n
        BY <1>1, <3>2
      <4>2. f[k - 1] \in Int /\ Nudge(splits[k], pid) \in Int
        BY <4>1, NudgeFits
      <4> QED  BY <3>2, <4>2 DEF Moved
    <3> QED  BY <3>1, <3>2
  <2>2. step \in [[0..n -> Int] -> [0..n -> Int]]
    BY <2>1
  <2>3. ASSUME NEW f \in [0..n -> Int], NEW g \in [0..n -> Int], NEW k \in 0..n,
               \A j \in 0..(k - 1) : f[j] = g[j]
        PROVE  step[f][k] = step[g][k]
    <3>1. k # 0 => f[k - 1] = g[k - 1]
      BY <1>1, <2>3
    <3> QED  BY <3>1 DEF Moved
  <2> HIDE DEF step, n
  <2> QED  BY <2>2, <2>3 DEF LooksBack
<1>3. \E f \in [0..n -> Int] : \A k \in 0..n : f[k] = step[f][k]
  <2> HIDE DEF step, n
  <2> QED  BY <1>1, <1>2, Recursion
<1>4. PICK f \in [0..n -> Int] : \A k \in 0..n : f[k] = Moved(pid, k, f)
  BY <1>3
<1>5. f = [k \in 0..n |-> Moved(pid, k, f)]
  BY <1>4
<1>6. PICK total : IsMoved(pid, total) /\ SplitOffset(pid) = total[n]
  <2> DEFINE total == CHOOSE total : IsMoved(pid, total)
  <2>1. IsMoved(pid, f)
    BY <1>5 DEF IsMoved
  <2>2. IsMoved(pid, total)
    BY <2>1
  <2>3. SplitOffset(pid) = total[n]
    BY DEF SplitOffset, IsMoved, Moved, Nudge
  <2> HIDE DEF total
  <2> QED  BY <2>2, <2>3
<1>7. \A k \in 0..n : total[k] = Moved(pid, k, total)
  BY <1>6 DEF IsMoved
<1> DEFINE G == {k \in 0..n : total[k] \in Int}
<1>8. 0 \in G
  BY <1>1, <1>7 DEF Moved
<1>9. ASSUME NEW k \in 0..(n - 1), k \in G PROVE k + 1 \in G
  <2>1. k + 1 \in 0..n /\ k + 1 - 1 = k /\ k + 1 # 0
    BY <1>1
  <2>2. total[k + 1] = total[k] + Nudge(splits[k + 1], pid)
    BY <1>7, <2>1 DEF Moved
  <2>3. Nudge(splits[k + 1], pid) \in Int /\ total[k] \in Int
    BY <1>9, NudgeFits
  <2> QED  BY <2>1, <2>2, <2>3
<1> HIDE DEF G
<1>10. \A k \in 0..n : k \in G
  BY <1>1, <1>8, <1>9, Climb
<1> QED  BY <1>6, <1>7, <1>10 DEF G

\* Two splits never share a parent, nor a child that was born once.
ParentOnce == \A i, j \in 1..Len(splits) : splits[i].parent = splits[j].parent => i = j
BornOnce == \A i, j \in 1..Len(splits) : splits[i].child = splits[j].child => i = j

\* A process that is the parent of one split and the child of one moves by six
\* pixels at most: among the first splits, only one moves it each way.
LEMMA OffsetFits ==
    ASSUME NEW R, splits \in Seq(R), ParentOnce, BornOnce, NEW pid
    PROVE  SplitOffset(pid) \in -6..6
<1> DEFINE n == Len(splits)
           Right(k) == \E i \in 1..k : splits[i].child = pid
           Left(k) == \E i \in 1..k : splits[i].child # pid /\ splits[i].parent = pid
<1>1. n \in Nat
  BY LenProperties
<1>2. PICK total : /\ \A k \in 0..n : total[k] = Moved(pid, k, total) /\ total[k] \in Int
                   /\ SplitOffset(pid) = total[n]
  BY OffsetIsMoved
<1> DEFINE Bounded(k) == /\ total[k] <= (IF Right(k) THEN 6 ELSE 0)
                         /\ (IF Left(k) THEN -6 ELSE 0) <= total[k]
           G == {k \in 0..n : Bounded(k)}
<1>3. 0 \in G
  <2>1. 0 \in 0..n /\ total[0] = 0
    BY <1>1, <1>2 DEF Moved
  <2>2. ~Right(0) /\ ~Left(0)
    OBVIOUS
  <2> QED  BY <2>1, <2>2
<1>4. ASSUME NEW k \in 0..(n - 1), k \in G PROVE k + 1 \in G
  <2> DEFINE split == splits[k + 1]
             nudge == Nudge(split, pid)
  <2>1. k \in 0..n /\ k + 1 \in 0..n /\ k + 1 \in 1..n /\ k + 1 - 1 = k /\ k + 1 # 0
    BY <1>1
  <2>2. total[k + 1] = total[k] + nudge /\ total[k] \in Int
    BY <1>2, <2>1 DEF Moved
  <2>3. /\ nudge \in -6..6
        /\ split.child # pid => nudge <= 0
        /\ split.child = pid \/ split.parent # pid => nudge >= 0
    BY NudgeFits
  <2>4. \A i \in 1..k : i \in 1..n /\ i # k + 1 /\ i \in 1..(k + 1)
    BY <2>1
  <2>5. /\ Right(k) => Right(k + 1) /\ split.child # pid
        /\ split.child = pid => Right(k + 1)
    BY <2>1, <2>4 DEF BornOnce
  <2>6. /\ Left(k) => Left(k + 1) /\ split.parent # pid
        /\ split.child # pid /\ split.parent = pid => Left(k + 1)
    BY <2>1, <2>4 DEF ParentOnce
  <2>7. Bounded(k)
    BY <1>4
  <2> HIDE DEF Right, Left, nudge, split
  <2>8. Bounded(k + 1)
    BY <2>2, <2>3, <2>5, <2>6, <2>7
  <2> QED  BY <2>1, <2>8
<1> HIDE DEF G
<1>5. \A k \in 0..n : k \in G
  BY <1>1, <1>3, <1>4, Climb
<1>6. Bounded(n) /\ total[n] \in Int
  BY <1>1, <1>2, <1>5 DEF G
<1> HIDE DEF Right, Left
<1> QED  BY <1>2, <1>6
-----------------------------------------------------------------------------
\* Frames from the start of a task's last split to the next event, at the least: the
\* gap after the fork; two gaps once the fork has returned; and the hold as well
\* when its next call was entered. So that call can only fork again when the split
\* is over.
LeastAge(tasks, p) ==
    IF p \notin DOMAIN tasks \/ tasks[p] = None THEN 2 * MIN_GAP_FRAMES
    ELSE IF tasks[p].forked THEN MIN_GAP_FRAMES ELSE 2 * MIN_GAP_FRAMES + ENTER_HOLD_FRAMES

Spaced == \A i \in 1..Len(splits) : splits[i].age + wait >= LeastAge(calling, splits[i].parent)

NudgeHypothesis == 2 * MIN_GAP_FRAMES + ENTER_HOLD_FRAMES >= SPLIT_TTL

SplitsApart == splits \in Seq(FitSplit) /\ ParentOnce /\ Spaced

\* No row of boxes as wide as the screen, so that every box there is has room to
\* move on both sides.
Roomy == \A p \in DOMAIN processes : RowSize(Ppids, p) < WIDEST_ROW

BoxesRoomy ==
    \A p \in DOMAIN Boxes :
        /\ DOMAIN Boxes[p] = {"x", "y", "w", "h"}
        /\ Boxes[p].x \in Nat /\ Boxes[p].w \in Nat
        /\ ROW_X <= Boxes[p].x /\ Boxes[p].x + Boxes[p].w <= WIDTH - ROW_X

\* The boxes of rows with room have room.
LEMMA RowsHaveRoom ==
    ASSUME Mirror, Roomy
    PROVE  BoxesRoomy
<1>1. DOMAIN Boxes = DOMAIN processes /\ DOMAIN Ppids = DOMAIN processes
  BY BoxesDomain
<1>2. ASSUME NEW p \in DOMAIN processes
      PROVE  /\ Boxes[p].x \in Nat /\ Boxes[p].w \in Nat
             /\ ROW_X <= Boxes[p].x /\ Boxes[p].x + Boxes[p].w <= WIDTH - ROW_X
  <2>1. RowSize(Ppids, p) < WIDEST_ROW
    BY DEF Roomy
  <2>2. RowSize(Ppids, p) \in Nat
    <3>1. RowOf(Ppids, p) \subseteq DOMAIN processes
      BY <1>1 DEF RowOf
    <3> QED  BY <3>1, ProcessesAreFinite, FS_Subset, FS_CardinalityType DEF RowSize
  <2>3. RowSize(Ppids, p) <= WIDEST_ROW
    BY <2>1, <2>2 DEF WIDEST_ROW
  <2> QED  BY <1>1, <2>1, <2>3, ProcessesAreFinite, BoxIsOnScreen DEF Boxes
<1>3. ASSUME NEW p \in DOMAIN processes
      PROVE  DOMAIN Boxes[p] = {"x", "y", "w", "h"}
  <2>1. CASE Cardinality(DOMAIN Ppids) = 1
    BY <1>1, <2>1 DEF Boxes, BoxesOf, LoneBox
  <2>2. CASE Cardinality(DOMAIN Ppids) # 1
    <3> DEFINE D == DOMAIN Ppids
               depth == [q \in D |-> DepthOf(Ppids, q)]
               Row(q) == {o \in D : depth[o] = depth[q]}
               BoxIn(row, q) ==
                   LET slot == SlotOf(Cardinality(row))
                   IN  [x |-> ROW_X + Cardinality({o \in row : o < q}) * (slot + BOX_GAP),
                        y |-> PROC_Y + depth[q] * ROW_STEP,
                        w |-> BoxWidth(slot), h |-> TREE_BOX_H]
    <3>1. Boxes = [q \in D |-> BoxIn(Row(q), q)]
      BY <2>2 DEF Boxes, BoxesOf
    <3>2. Boxes[p] = BoxIn(Row(p), p)
      BY <1>1, <3>1
    <3>3. \A row, q : DOMAIN BoxIn(row, q) = {"x", "y", "w", "h"}
      OBVIOUS
    <3> HIDE DEF BoxIn, Row
    <3> QED  BY <3>2, <3>3
  <2> QED  BY <2>1, <2>2
<1> QED  BY <1>1, <1>2, <1>3 DEF BoxesRoomy

\* What an event does to the least age of a task's splits: the next event is so much
\* later, and only a fork, of a task whose splits must be the oldest, starts anew.
LEMMA LeastAges ==
    ASSUME Flight, NEW e \in Released, Release(e), NEW p
    PROVE  /\ LeastAge(calling, p) \in Nat /\ LeastAge(calling', p) \in Nat /\ wait' \in Nat
           /\ e.kind # "SPAWN" \/ p # e.parent =>
                 LeastAge(calling', p) <= LeastAge(calling, p) + wait'
           /\ e.kind = "SPAWN" =>
                 /\ LeastAge(calling, e.parent) = 2 * MIN_GAP_FRAMES + ENTER_HOLD_FRAMES
                 /\ LeastAge(calling', e.parent) <= wait'
<1> DEFINE before == LeastAge(calling, p)
           after == LeastAge(calling', p)
<1>1. MIN_GAP_FRAMES \in Nat /\ ENTER_HOLD_FRAMES \in Nat
  BY FramesAssumption
<1>2. /\ Happens(e) /\ wait' = IF e.kind = "ENTER" THEN ENTER_HOLD_FRAMES ELSE MIN_GAP_FRAMES
      /\ Shape /\ e.kind \in {"ENTER", "EXIT", "SPAWN", "DEATH"}
  BY ReleaseCases DEF Release, Flight, Mirror
<1>3. before \in Nat /\ after \in Nat /\ wait' \in Nat
  BY <1>1, <1>2 DEF LeastAge
<1>4. CASE e.kind = "ENTER"
  <2>1. /\ e.pid \in DOMAIN calling /\ calling[e.pid] = None
        /\ calling' = [calling EXCEPT ![e.pid] = [name |-> e.name, forked |-> FALSE]]
    BY <1>2, <1>4 DEF Happens
  <2>2. CASE p = e.pid
    <3>1. before = 2 * MIN_GAP_FRAMES /\ wait' = ENTER_HOLD_FRAMES
      BY <1>2, <1>4, <2>1, <2>2 DEF LeastAge
    <3>2. after <= 2 * MIN_GAP_FRAMES + ENTER_HOLD_FRAMES
      BY <1>1 DEF LeastAge
    <3> QED  BY <1>3, <1>4, <3>1, <3>2
  <2>3. CASE p # e.pid
    <3>1. after = before
      BY <2>1, <2>3 DEF LeastAge
    <3> QED  BY <1>3, <1>4, <3>1
  <2> QED  BY <2>2, <2>3
<1>5. CASE e.kind \in {"EXIT", "DEATH"}
  <2>1. /\ e.pid \in DOMAIN calling /\ wait' = MIN_GAP_FRAMES
        /\ \/ calling' = [calling EXCEPT ![e.pid] = None]
           \/ calling' = Drop(calling, e.pid)
    BY <1>2, <1>5 DEF Happens, InCall
  <2>2. CASE p = e.pid
    <3>1. after = 2 * MIN_GAP_FRAMES
      BY <2>1, <2>2 DEF LeastAge, Drop
    <3>2. MIN_GAP_FRAMES <= before
      BY <1>1 DEF LeastAge
    <3> QED  BY <1>1, <1>3, <1>5, <2>1, <3>1, <3>2
  <2>3. CASE p # e.pid
    <3>1. after = before
      BY <2>1, <2>3 DEF LeastAge, Drop
    <3> QED  BY <1>3, <1>5, <3>1
  <2> QED  BY <2>2, <2>3
<1>6. CASE e.kind = "SPAWN"
  <2>1. /\ e.parent \in DOMAIN calling /\ calling[e.parent] # None
        /\ calling[e.parent] = [name |-> "fork", forked |-> FALSE]
        /\ e.child \notin DOMAIN calling /\ wait' = MIN_GAP_FRAMES
        /\ calling' = Put([calling EXCEPT ![e.parent].forked = TRUE], e.child, None)
    BY <1>2, <1>6 DEF Happens, InCall
  <2>2. LeastAge(calling, e.parent) = 2 * MIN_GAP_FRAMES + ENTER_HOLD_FRAMES
    <3>1. ~calling[e.parent].forked
      BY <2>1
    <3> QED  BY <2>1, <3>1 DEF LeastAge
  <2>3. LeastAge(calling', e.parent) <= wait'
    <3>1. e.parent \in DOMAIN calling' /\ calling'[e.parent].forked /\ calling'[e.parent] # None
      <4> DEFINE call == calling[e.parent]
                 tasks == [calling EXCEPT ![e.parent].forked = TRUE]
      <4>1. call \in Call
        BY <2>1 DEF Flight, Mirror, CallingOK
      <4>2. tasks[e.parent] = [call EXCEPT !.forked = TRUE] /\ e.parent \in DOMAIN tasks
        BY <2>1
      <4>3. calling'[e.parent] = tasks[e.parent] /\ e.parent \in DOMAIN calling'
        BY <2>1, <4>2 DEF Put
      <4> HIDE DEF call, tasks
      <4>4. [call EXCEPT !.forked = TRUE] \in Call /\ [call EXCEPT !.forked = TRUE].forked
        BY <4>1 DEF Call
      <4> QED  BY <4>2, <4>3, <4>4, NoCallAssumption
    <3> QED  BY <1>1, <2>1, <3>1 DEF LeastAge
  <2>4. p # e.parent => after = before
    BY <2>1 DEF LeastAge, Put
  <2> QED  BY <1>3, <2>2, <2>3, <2>4
<1> QED  BY <1>2, <1>3, <1>4, <1>5, <1>6

\* Whatever an event does to a task, its splits are as old as they should be, and
\* a split that begins is then its only one.
LEMMA ApartRelease ==
    ASSUME Flight, SplitsApart, NudgeHypothesis, NEW e \in Released, Release(e)
    PROVE  SplitsApart'
<1> DEFINE n == Len(splits)
<1>1. Shape /\ wait = 0 /\ n \in Nat
  BY LenProperties DEF Flight, Mirror, Release, SplitsApart
<1>2. \A i \in 1..n : splits[i].age \in Nat /\ splits[i].age < SPLIT_TTL
  <2>1. \A i \in 1..n : splits[i] \in FitSplit
    BY ElementOfSeq DEF SplitsApart
  <2> QED  BY <2>1 DEF FitSplit, SPLIT_TTL
<1>3. ASSUME NEW i \in 1..n
      PROVE  splits[i].age >= LeastAge(calling, splits[i].parent)
  BY <1>1, <1>2 DEF SplitsApart, Spaced
<1>4. ASSUME NEW i \in 1..n, e.kind # "SPAWN" \/ splits[i].parent # e.parent
      PROVE  splits[i].age + wait' >= LeastAge(calling', splits[i].parent)
  BY <1>2, <1>3, <1>4, LeastAges
<1>5. CASE e.kind # "SPAWN"
  <2>1. splits' = splits
    BY <1>1, <1>5, ReleaseCases DEF NotifyEnter, NotifyExit, NotifyDeath, sceneVars
  <2> QED  BY <1>4, <1>5, <2>1 DEF SplitsApart, Spaced, ParentOnce
<1>6. CASE e.kind = "SPAWN"
  <2> DEFINE split == [parent |-> e.parent, child |-> e.child, age |-> 0]
  <2>1. e \in SpawnEvent /\ splits' = splits \o <<split>>
    BY <1>1, <1>6, ReleaseCases DEF NotifySpawn, NewSplits
  <2>2. splits' \in Seq(FitSplit)
    BY <2>1, OneMoreSplit DEF SplitsApart
  <2>3. split.parent = e.parent /\ split.age = 0
    OBVIOUS
  <2> HIDE DEF split
  <2>4. /\ Len(splits') = n + 1 /\ splits'[n + 1] = split
        /\ \A i \in 1..n : splits'[i] = splits[i]
    <3>1. splits \in Seq(FitSplit \cup {split}) /\ <<split>> \in Seq(FitSplit \cup {split})
      <4>1. FitSplit \subseteq FitSplit \cup {split}
        OBVIOUS
      <4> QED  BY <4>1, SeqMonotonic DEF SplitsApart
    <3>2. Len(<<split>>) = 1 /\ <<split>>[1] = split
      OBVIOUS
    <3> QED  BY <1>1, <2>1, <3>1, <3>2, ConcatProperties
  <2>5. \A i \in 1..(n + 1) : i = n + 1 \/ i \in 1..n
    BY <1>1
  <2>6. ASSUME NEW i \in 1..n PROVE splits[i].parent # e.parent
    <3> SUFFICES ASSUME splits[i].parent = e.parent PROVE FALSE
      OBVIOUS
    <3>1. LeastAge(calling, e.parent) >= SPLIT_TTL
      BY <1>6, LeastAges DEF NudgeHypothesis
    <3>2. splits[i].age >= LeastAge(calling, e.parent)
      BY <1>3
    <3>3. LeastAge(calling, e.parent) \in Nat
      BY LeastAges
    <3> QED  BY <1>2, <3>1, <3>2, <3>3 DEF SPLIT_TTL
  <2>7. ASSUME NEW i \in 1..(n + 1)
        PROVE  splits'[i].age + wait' >= LeastAge(calling', splits'[i].parent)
    <3>1. CASE i \in 1..n
      BY <1>4, <2>4, <2>6, <3>1
    <3>2. CASE i = n + 1
      <4>1. LeastAge(calling', e.parent) <= wait' /\ wait' \in Nat
            /\ LeastAge(calling', e.parent) \in Nat
        BY <1>6, LeastAges
      <4> QED  BY <2>3, <2>4, <3>2, <4>1
    <3> QED  BY <2>5, <3>1, <3>2
  <2>8. ASSUME NEW i \in 1..(n + 1), NEW j \in 1..(n + 1), splits'[i].parent = splits'[j].parent
        PROVE  i = j
    <3>1. CASE i \in 1..n /\ j \in 1..n
      BY <2>4, <2>8, <3>1 DEF SplitsApart, ParentOnce
    <3> QED  BY <2>3, <2>4, <2>5, <2>6, <2>8, <3>1
  <2> QED  BY <2>2, <2>4, <2>7, <2>8 DEF SplitsApart, Spaced, ParentOnce
<1> QED  BY <1>5, <1>6

\* A frame makes a split one older, and the next event one nearer.
LEMMA ApartFrame ==
    ASSUME Flight, SplitsApart, Frame
    PROVE  SplitsApart'
<1>1. /\ splits' = Aged(splits, SPLIT_TTL) /\ calling' = calling
      /\ wait' = (IF wait > 0 THEN wait - 1 ELSE 0) /\ wait \in Nat
  BY DEF Frame, Step, Flight, Fields
<1>2. splits' \in Seq(FitSplit)
  BY <1>1, AgedSplits DEF SplitsApart
<1>3. PICK h : Embeds(h, splits', splits, Len(splits))
  BY <1>1, AgedEmbeds DEF SplitsApart
<1>4. ASSUME NEW i \in 1..Len(splits')
      PROVE  /\ h[i] \in 1..Len(splits)
             /\ splits'[i].parent = splits[h[i]].parent
             /\ splits'[i].age + wait' >= LeastAge(calling', splits'[i].parent)
  <2>1. h[i] \in 1..Len(splits) /\ splits'[i] = Grown(splits[h[i]])
    BY <1>3 DEF Embeds
  <2>2. splits[h[i]] \in FitSplit
    BY <2>1, ElementOfSeq DEF SplitsApart
  <2> DEFINE split == splits[h[i]]
  <2>3. splits'[i].parent = split.parent /\ splits'[i].age = split.age + 1 /\ split.age \in Nat
    BY <2>1, <2>2 DEF Grown, FitSplit
  <2>4. split.age + wait >= LeastAge(calling, split.parent)
    BY <2>1 DEF SplitsApart, Spaced
  <2>5. LeastAge(calling, split.parent) \in Nat
    BY FramesAssumption DEF LeastAge
  <2> HIDE DEF split
  <2>6. split.age + 1 + wait' >= LeastAge(calling, split.parent)
    BY <1>1, <2>3, <2>4, <2>5
  <2>7. splits'[i].age + wait' >= LeastAge(calling', splits'[i].parent)
    BY <1>1, <2>3, <2>6
  <2> QED  BY <2>1, <2>3, <2>7 DEF split
<1>5. ASSUME NEW i \in 1..Len(splits'), NEW j \in 1..Len(splits'),
             splits'[i].parent = splits'[j].parent
      PROVE  i = j
  <2>1. h[i] = h[j]
    BY <1>4, <1>5 DEF SplitsApart, ParentOnce
  <2> QED  BY <1>3, <2>1 DEF Embeds
<1> QED  BY <1>2, <1>4, <1>5 DEF SplitsApart, Spaced, ParentOnce

\* R13 with R12: no nudge pushes a box off the screen, if a task's calls are as far
\* apart as a split is long, no row is as wide as the screen, and no pid is born
\* twice while it moves.
THEOREM NudgesStayOnScreen ==
    NudgeHypothesis => (Spec /\ [](Roomy /\ BornOnce) => []NudgedOnScreen)
<1> SUFFICES ASSUME NudgeHypothesis
             PROVE  Spec /\ [](Roomy /\ BornOnce) => []NudgedOnScreen
  OBVIOUS
<1>1. Init => SplitsApart
  <2> SUFFICES ASSUME Init PROVE SplitsApart
    OBVIOUS
  <2>1. splits = <<>>
    BY DEF Init, SceneInit
  <2> QED  BY <2>1 DEF SplitsApart, ParentOnce, Spaced
<1>2. Flight /\ SplitsApart /\ [Next]_vars => SplitsApart'
  <2> SUFFICES ASSUME Flight, SplitsApart, [Next]_vars PROVE SplitsApart'
    OBVIOUS
  <2>1. CASE Draw \/ UNCHANGED vars
    BY <2>1 DEF Draw, Render, vars, sceneVars, SplitsApart, ParentOnce, Spaced
  <2> QED  BY <2>1, ApartRelease, ApartFrame DEF Next
<1>3. Flight /\ SplitsApart /\ (Roomy /\ BornOnce) => NudgedOnScreen
  <2> DEFINE moved == NudgedBoxes
  <2> SUFFICES ASSUME Flight, SplitsApart, Roomy, BornOnce, NEW p \in DOMAIN moved
               PROVE  moved[p].x >= 0 /\ moved[p].x + moved[p].w <= WIDTH
    BY DEF NudgedOnScreen
  <2> DEFINE offset == SplitOffset(p)
  <2>1. offset \in -6..6
    BY OffsetFits DEF SplitsApart
  <2>2. p \in DOMAIN Boxes /\ moved[p] = [Boxes[p] EXCEPT !.x = @ + offset]
    BY DEF NudgedBoxes, DrawnBoxes
  <2>3. BoxesRoomy
    BY RowsHaveRoom DEF Flight
  <2> HIDE DEF offset, moved
  <2>4. moved[p].x = Boxes[p].x + offset /\ moved[p].w = Boxes[p].w
    BY <2>2, <2>3 DEF BoxesRoomy
  <2> QED  BY <2>1, <2>2, <2>3, <2>4 DEF BoxesRoomy, ROW_X, WIDTH
<1> QED  BY <1>1, <1>2, <1>3, FlightInvariant, PTL DEF Spec
=============================================================================
