----------------------------- MODULE WorldProofs ----------------------------
(***************************************************************************)
(* The World, and the picture made of it, for every set of pids, calls and *)
(* paths and every stream of events.  Its tables are well typed and agree  *)
(* with each other, and events of different pids do not cross: TypeOK /\   *)
(* TablesAgree is inductive, and WorldLemmas states it as Shape, one of    *)
(* the two shapes of a world, and shows that each handler keeps it.        *)
(*                                                                         *)
(* Boxes, markers and blocks fit: first that a world stays finite, then    *)
(* where the layout puts a box in its row.  Children are below their       *)
(* parents, by the walks up the tree.                                      *)
(***************************************************************************)
EXTENDS Picture, WorldLemmas, FiniteSetTheorems

\* The world always has one of the two shapes.
LEMMA ShapeInvariant == Spec => []Shape
<1>1. WorldInit => Shape
  BY ShapeInit
<1>2. Shape /\ [Next]_worldVars => Shape'
  <2> SUFFICES ASSUME Shape, [Next]_worldVars PROVE Shape'
    OBVIOUS
  <2>1. CASE Next
    <3>1. PICK e \in Event : Apply(e)
      BY <2>1 DEF Next
    <3> QED  BY <3>1, EventAssumption, ShapeStep
  <2>2. CASE UNCHANGED worldVars
    BY <2>2 DEF worldVars, Shape, Unknown, Coherent
  <2> QED  BY <2>1, <2>2
<1> QED  BY <1>1, <1>2, PTL DEF Spec

\* The world holds processes, descriptors, regions and pending ENTERs and
\* nothing else, whatever events World.apply is given.
THEOREM WorldTypeCorrect == Spec => []TypeOK
<1>1. Shape => TypeOK
  BY ShapeIsInvariant
<1> QED  BY <1>1, ShapeInvariant, PTL

\* The tables of the world agree with each other, whatever events World.apply
\* is given.
THEOREM TablesCorrect == Spec => []TablesAgree
<1>1. Shape => TablesAgree
  BY ShapeIsInvariant
<1> QED  BY <1>1, ShapeInvariant, PTL
-----------------------------------------------------------------------------
\* An event touches the pids it speaks of, and the unknown one, only.
LEMMA ApplyTouchesConcerned ==
    ASSUME Shape, NEW e \in EnterEvent \cup ExitEvent \cup SpawnEvent \cup DeathEvent, Apply(e),
           NEW p, p \notin Concerned(e)
    PROVE  Untouched(p)
<1>1. CASE e.kind = "ENTER" /\ ApplyEnter(e)
  <2>1. e.pid \in Pid /\ p # e.pid /\ p # 0
    BY <1>1 DEF EnterEvent, ExitEvent, SpawnEvent, DeathEvent, Concerned
  <2>2. ProcessesWith(e.pid)[e.pid].pid = e.pid /\ e.pid \in DOMAIN ProcessesWith(e.pid)
    BY <2>1, LookupIsCoherent DEF Coherent
  <2>3. /\ DOMAIN processes' = DOMAIN ProcessesWith(e.pid)
        /\ p \in DOMAIN processes' => processes'[p] = ProcessesWith(e.pid)[p]
    BY <1>1, <2>1 DEF ApplyEnter
  <2>4. /\ p \in DOMAIN pending' <=> p \in DOMAIN PendingWith(e.pid)
        /\ p \in DOMAIN pending' => pending'[p] = PendingWith(e.pid)[p]
    BY <1>1, <2>1, <2>2 DEF ApplyEnter, Put
  <2> QED  BY <2>1, <2>3, <2>4, LookupTouchesOne DEF Untouched
<1>2. CASE e.kind = "EXIT" /\ ApplyExit(e)
  <2>1. e.pid \in Pid /\ p # e.pid /\ p # 0
    BY <1>2 DEF EnterEvent, ExitEvent, SpawnEvent, DeathEvent, Concerned
  <2>2. ProcessesWith(e.pid)[e.pid].pid = e.pid
    BY <2>1, LookupIsCoherent DEF Coherent
  <2>3. /\ DOMAIN processes' = DOMAIN ProcessesWith(e.pid)
        /\ p \in DOMAIN processes' => processes'[p] = ProcessesWith(e.pid)[p]
    BY <1>2, <2>1 DEF ApplyExit
  <2>4. pending' \in {PendingWith(e.pid), Drop(PendingWith(e.pid), e.pid)}
    BY <1>2, <2>2 DEF ApplyExit
  <2>5. /\ p \in DOMAIN pending' <=> p \in DOMAIN PendingWith(e.pid)
        /\ p \in DOMAIN pending' => pending'[p] = PendingWith(e.pid)[p]
    BY <2>1, <2>4 DEF Drop
  <2> QED  BY <2>1, <2>3, <2>5, LookupTouchesOne DEF Untouched
<1>3. CASE e.kind = "SPAWN" /\ ApplySpawn(e)
  <2>1. e.parent \in Pid /\ p # e.parent /\ p # e.child /\ p # 0
    BY <1>3 DEF EnterEvent, ExitEvent, SpawnEvent, DeathEvent, Concerned
  <2>2. pending' = PendingWith(e.parent)
    BY <1>3 DEF ApplySpawn
  <2>3. \/ \E threads : processes' = [ProcessesWith(e.parent) EXCEPT ![e.parent].threads = threads]
        \/ \E child : processes' = Put(ProcessesWith(e.parent), e.child, child)
    BY <1>3 DEF ApplySpawn
  <2>4. /\ p \in DOMAIN processes' <=> p \in DOMAIN ProcessesWith(e.parent)
        /\ p \in DOMAIN processes' => processes'[p] = ProcessesWith(e.parent)[p]
    BY <2>1, <2>3 DEF Put
  <2> QED  BY <2>1, <2>2, <2>4, LookupTouchesOne DEF Untouched
<1>4. CASE e.kind = "DEATH" /\ ApplyDeath(e)
  <2>1. p # e.pid
    BY <1>4 DEF Concerned
  <2> QED  BY <1>4, <2>1 DEF ApplyDeath, Drop, Untouched
<1> QED  BY <1>1, <1>2, <1>3, <1>4 DEF Apply

\* An event of one process changes nothing for another, not even through the
\* descriptors it inherited at the fork, whatever events World.apply is given.
THEOREM EventsDoNotCross == Spec => NoCrossTalk
<1> DEFINE A == \A e \in Event : Apply(e) =>
                   \A p \in (DOMAIN processes \cup DOMAIN processes') \ Concerned(e) :
                      /\ p \in DOMAIN processes \cap DOMAIN processes'
                      /\ processes'[p] = processes[p]
                      /\ p \in DOMAIN pending <=> p \in DOMAIN pending'
                      /\ p \in DOMAIN pending => pending'[p] = pending[p]
<1>1. Shape => A
  BY EventAssumption, ApplyTouchesConcerned DEF Untouched
<1>2. Shape => [A]_worldVars
  BY <1>1
<1> HIDE DEF A
<1>3. Spec => [][A]_worldVars
  BY <1>2, ShapeInvariant, PTL
<1> QED  BY <1>3 DEF NoCrossTalk, A
-----------------------------------------------------------------------------
\* A process with finitely many threads and regions; a world of finitely many.
Small(p) == IsFiniteSet(p.threads) /\ IsFiniteSet(DOMAIN p.regions)
SmallWorld(P) == IsFiniteSet(DOMAIN P) /\ \A k \in DOMAIN P : Small(P[k])

\* Invariant.
Finite == Shape /\ SmallWorld(processes)

\* A new process has no threads and no regions.
LEMMA NewIsSmall ==
    ASSUME NEW pid, NEW name, NEW ppid, NEW fds
    PROVE  Small(NewProcess(pid, name, ppid, fds))
BY FS_EmptySet, EmptyIsDict DEF Small, NewProcess

\* A process put into a world, or written anew.
LEMMA PutIsSmall ==
    ASSUME NEW P, SmallWorld(P), NEW k, NEW r, Small(r)
    PROVE  SmallWorld(Put(P, k, r)) /\ SmallWorld(Drop(P, k)) /\ SmallWorld([P EXCEPT ![k] = r])
<1>1. IsFiniteSet(DOMAIN P \cup {k}) /\ IsFiniteSet(DOMAIN P \ {k}) /\ IsFiniteSet(DOMAIN P)
  BY FS_AddElement, FS_RemoveElement DEF SmallWorld
<1>2. SmallWorld(Put(P, k, r))
  <2>1. DOMAIN Put(P, k, r) = DOMAIN P \cup {k}
    BY DEF Put
  <2>2. \A j \in DOMAIN Put(P, k, r) : Small(Put(P, k, r)[j])
    BY DEF Put, SmallWorld
  <2> QED  BY <1>1, <2>1, <2>2 DEF SmallWorld
<1>3. SmallWorld(Drop(P, k))
  <2>1. DOMAIN Drop(P, k) = DOMAIN P \ {k}
    BY DEF Drop
  <2>2. \A j \in DOMAIN Drop(P, k) : Small(Drop(P, k)[j])
    BY DEF Drop, SmallWorld
  <2> QED  BY <1>1, <2>1, <2>2 DEF SmallWorld
<1>4. SmallWorld([P EXCEPT ![k] = r])
  <2> DEFINE R == [P EXCEPT ![k] = r]
  <2>1. DOMAIN R = DOMAIN P
    OBVIOUS
  <2>2. \A j \in DOMAIN P : R[j] = r \/ R[j] = P[j]
    OBVIOUS
  <2> HIDE DEF R
  <2>3. SmallWorld(R)
    BY <1>1, <2>1, <2>2 DEF SmallWorld
  <2> QED  BY <2>3 DEF R
<1> QED  BY <1>2, <1>3, <1>4

\* Looking a pid up adds a process at most.
LEMMA LookupIsSmall ==
    ASSUME Finite, NEW pid \in Pid
    PROVE  /\ SmallWorld(ProcessesWith(pid)) /\ pid \in DOMAIN ProcessesWith(pid)
           /\ IsProcess(ProcessesWith(pid)[pid]) /\ Small(ProcessesWith(pid)[pid])
<1> DEFINE new == NewProcess(pid, NoName, 0, EmptyDict)
           named == [processes[0] EXCEPT !.pid = pid]
           rest == Drop(processes, 0)
<1>1. CASE Adopting
  <2>1. ProcessesWith(pid) = Put(rest, pid, named)
    BY <1>1 DEF ProcessesWith
  <2>2. SmallWorld(rest)
    BY NewIsSmall, PutIsSmall DEF Finite
  <2>3. Small(named)
    <3>1. IsProcess(processes[0]) /\ Small(processes[0])
      BY <1>1, ShapeIsInvariant DEF Finite, TypeOK, Adopting, SmallWorld
    <3>2. named.threads = processes[0].threads /\ named.regions = processes[0].regions
      BY <3>1 DEF IsProcess
    <3> QED  BY <3>1, <3>2 DEF Small
  <2> HIDE DEF rest, named
  <2>4. SmallWorld(Put(rest, pid, named))
    BY <2>2, <2>3, PutIsSmall
  <2>5. SmallWorld(ProcessesWith(pid))
    BY <2>1, <2>4
  <2> QED  BY <2>5, LookupIsCoherent DEF Finite, Coherent, SmallWorld
<1>2. CASE ~Adopting
  <2>1. Small(new)
    BY NewIsSmall
  <2>2. ProcessesWith(pid) = processes \/ ProcessesWith(pid) = Put(processes, pid, new)
    BY <1>2 DEF ProcessesWith
  <2> HIDE DEF new
  <2>3. SmallWorld(Put(processes, pid, new))
    BY <2>1, PutIsSmall DEF Finite
  <2>4. SmallWorld(ProcessesWith(pid))
    BY <2>2, <2>3 DEF Finite
  <2> QED  BY <2>4, LookupIsCoherent DEF Finite, Coherent, SmallWorld
<1> QED  BY <1>1, <1>2

\* An event adds a process, a thread or a region at most.
LEMMA FiniteStep ==
    ASSUME Finite, NEW e \in Event, Apply(e)
    PROVE  Finite'
<1>1. Shape'
  BY EventAssumption, ShapeStep DEF Finite
<1>2. CASE e.kind = "ENTER"
  <2> DEFINE P == ProcessesWith(e.pid)
             r == [P[e.pid] EXCEPT !.in_syscall = e.name]
  <2>1. e \in EnterEvent /\ e.pid \in Pid /\ ApplyEnter(e)
    BY <1>2, EventAssumption DEF Apply, EnterEvent, ExitEvent, SpawnEvent, DeathEvent
  <2>2. processes' = [P EXCEPT ![e.pid] = r]
    BY <2>1 DEF ApplyEnter
  <2>3. SmallWorld(P) /\ IsProcess(P[e.pid]) /\ Small(P[e.pid])
    BY <2>1, LookupIsSmall
  <2> HIDE DEF P
  <2>4. Small(r)
    BY <2>3 DEF Small, IsProcess
  <2> HIDE DEF r
  <2> QED  BY <1>1, <2>2, <2>3, <2>4, PutIsSmall DEF Finite
<1>3. CASE e.kind = "EXIT"
  <2> DEFINE P == ProcessesWith(e.pid)
  <2>1. e \in ExitEvent /\ e.pid \in Pid /\ ApplyExit(e)
    BY <1>3, EventAssumption DEF Apply, EnterEvent, ExitEvent, SpawnEvent, DeathEvent
  <2>2. PICK r : /\ r.threads = P[e.pid].threads
                 /\ DOMAIN r.regions \subseteq DOMAIN P[e.pid].regions \cup {e.result}
                 /\ processes' = [P EXCEPT ![e.pid] = r]
    BY <2>1, ExitRewrites DEF Finite
  <2>3. SmallWorld(P) /\ Small(P[e.pid])
    BY <2>1, LookupIsSmall
  <2> HIDE DEF P
  <2> DEFINE R == DOMAIN P[e.pid].regions \cup {e.result}
  <2>4. IsFiniteSet(R)
    BY <2>3, FS_AddElement DEF Small
  <2>5. DOMAIN r.regions \in SUBSET R
    BY <2>2
  <2> HIDE DEF R
  <2>6. Small(r)
    BY <2>2, <2>3, <2>4, <2>5, FS_Subset DEF Small
  <2> QED  BY <1>1, <2>2, <2>3, <2>6, PutIsSmall DEF Finite
<1>4. CASE e.kind = "SPAWN"
  <2> DEFINE P == ProcessesWith(e.parent)
             parent == P[e.parent]
             host == [parent EXCEPT !.threads = @ \cup {e.child}]
             child == NewProcess(e.child, parent.name, parent.pid, parent.fds)
  <2>1. e.parent \in Pid /\ ApplySpawn(e)
    BY <1>4, EventAssumption DEF Apply, EnterEvent, ExitEvent, SpawnEvent, DeathEvent
  <2>2. processes' = [P EXCEPT ![e.parent] = host] \/ processes' = Put(P, e.child, child)
    BY <2>1 DEF ApplySpawn
  <2>3. SmallWorld(P) /\ IsProcess(parent) /\ Small(parent)
    BY <2>1, LookupIsSmall
  <2>4. Small(child)
    BY NewIsSmall
  <2> HIDE DEF child, P, parent
  <2>5. Small(host)
    <3>1. host.threads = parent.threads \cup {e.child} /\ host.regions = parent.regions
      BY <2>3 DEF IsProcess
    <3> HIDE DEF host
    <3> QED  BY <2>3, <3>1, FS_AddElement DEF Small
  <2> HIDE DEF host
  <2>6. SmallWorld([P EXCEPT ![e.parent] = host]) /\ SmallWorld(Put(P, e.child, child))
    BY <2>3, <2>4, <2>5, PutIsSmall
  <2> QED  BY <1>1, <2>2, <2>6 DEF Finite
<1>5. CASE e.kind = "DEATH"
  <2>1. processes' = processes \/ processes' = Drop(processes, e.pid)
    BY <1>5 DEF Apply, ApplyDeath
  <2> QED  BY <1>1, <2>1, NewIsSmall, PutIsSmall DEF Finite
<1> QED  BY <1>2, <1>3, <1>4, <1>5 DEF Apply

\* Whatever events come, the world stays finite.
LEMMA FiniteInvariant == Spec => []Finite
<1>1. WorldInit => Finite
  <2> SUFFICES ASSUME WorldInit PROVE Finite
    OBVIOUS
  <2> DEFINE r == NewProcess(INITIAL_PID, INITIAL_NAME, 0, EmptyDict)
  <2>1. processes = Put(EmptyDict, INITIAL_PID, r)
    BY DEF WorldInit
  <2>2. Small(r)
    BY NewIsSmall
  <2> HIDE DEF r
  <2>3. SmallWorld(EmptyDict)
    BY EmptyIsDict, FS_EmptySet DEF SmallWorld
  <2> QED  BY <2>1, <2>2, <2>3, PutIsSmall, ShapeInit DEF Finite
<1>2. Finite /\ [Next]_worldVars => Finite'
  <2>1. Finite /\ UNCHANGED worldVars => Finite'
    BY DEF Finite, worldVars, Shape, Unknown, Coherent, SmallWorld
  <2> QED  BY <2>1, FiniteStep DEF Next
<1> QED  BY <1>1, <1>2, PTL DEF Spec
-----------------------------------------------------------------------------
\* Of two boxes in a row the one of the greater pid comes later.
LEMMA PlacesDiffer ==
    ASSUME NEW ppids, Tree(ppids), NEW p \in DOMAIN ppids, NEW q \in RowOf(ppids, p), p < q
    PROVE  Place(ppids, p) < Place(ppids, q) /\ RowSize(ppids, q) = RowSize(ppids, p)
<1> DEFINE row == RowOf(ppids, p)
           first == Before(ppids, p)
           second == Before(ppids, q)
<1>1. /\ row \in SUBSET (DOMAIN ppids) /\ p \in row /\ RowOf(ppids, q) = row
      /\ q \in DOMAIN ppids /\ \A r \in row : r \in Nat
  BY DEF RowOf, Tree
<1>2. first \in SUBSET second /\ p \in second /\ p \notin first /\ second \in SUBSET row
  <2>1. first = {r \in row : r < p} /\ second = {r \in row : r < q}
    BY <1>1 DEF Before
  <2> QED  BY <1>1, <2>1
<1>3. IsFiniteSet(row)
  BY <1>1, FS_Subset DEF Tree
<1> HIDE DEF row, first, second
<1>4. IsFiniteSet(second)
  BY <1>2, <1>3, FS_Subset
<1>5. /\ IsFiniteSet(first) /\ Cardinality(first) <= Cardinality(second)
      /\ Cardinality(second) # Cardinality(first)
  BY <1>2, <1>4, FS_Subset
<1>6. Cardinality(first) \in Nat /\ Cardinality(second) \in Nat
  BY <1>4, <1>5, FS_CardinalityType
<1>7. Cardinality(first) < Cardinality(second)
  BY <1>5, <1>6
<1> QED  BY <1>1, <1>7 DEF row, first, second, Place, RowSize

\* R12: the boxes of rows that hold up to WIDEST_ROW stay on the screen and
\* share no pixel, whatever tree the events make.
THEOREM BoxesStayApart == Spec => []BoxesApart
<1>1. Finite => BoxesApart
  <2> SUFFICES ASSUME Finite PROVE BoxesApart
    OBVIOUS
  <2> DEFINE D == DOMAIN processes
  <2>1. IsFiniteSet(D) /\ D \subseteq Nat
    BY ShapeIsInvariant, PidAssumption DEF Finite, SmallWorld, TypeOK, IsDict
  <2>2. DOMAIN Ppids = D
    BY DEF Ppids
  <2> HIDE DEF D
  <2>3. CASE Cardinality(D) = 1
    <3>1. Boxes = [p \in D |-> LoneBox]
      BY <2>2, <2>3 DEF Boxes, BoxesOf
    <3>2. \A p, q \in D : p = q
      BY <2>1, <2>3, FS_Singleton
    <3>3. \A p \in D : ~(p < p)
      BY <2>1
    <3> QED  BY <3>1, <3>2, <3>3
             DEF BoxesApart, LoneBox, PROC_X, PROC_Y, PROC_W, PROC_H, WIDTH, BOUNDARY_Y
  <2>4. CASE Cardinality(D) # 1
    <3> DEFINE Depth(p) == DepthOf(Ppids, p)
               Slot(p) == SlotOf(RowSize(Ppids, p))
    <3>1. Tree(Ppids)
      BY <2>1, <2>2, <2>4 DEF Tree
    <3>2. DOMAIN Boxes = D
      BY <2>2 DEF Boxes, BoxesOf
    <3>3. \A p \in D : /\ Boxes[p].x = ROW_X + Place(Ppids, p) * (Slot(p) + BOX_GAP)
                       /\ Boxes[p].y = PROC_Y + Depth(p) * ROW_STEP
                       /\ Boxes[p].w = BoxWidth(Slot(p))
                       /\ Boxes[p].h = TREE_BOX_H
      BY <2>2, <3>1, BoxInItsRow DEF Boxes
    <3>4. \A p \in D : Depth(p) \in Nat
      BY <2>1, <2>2, DepthIsNat
    <3>5. \A p \in D : {q \in D : Boxes[q].y = Boxes[p].y} = RowOf(Ppids, p)
      <4>1. \A p, q \in D : Boxes[q].y = Boxes[p].y <=> Depth(q) = Depth(p)
        BY <3>3, <3>4 DEF PROC_Y, ROW_STEP
      <4> QED  BY <2>2, <4>1 DEF RowOf
    <3>6. SUFFICES ASSUME \A p \in D : RowSize(Ppids, p) <= WIDEST_ROW
                   PROVE  /\ \A p \in D :
                                /\ Boxes[p].x >= 0 /\ Boxes[p].x + Boxes[p].w <= WIDTH
                                /\ Depth(p) < ROWS_ABOVE => Boxes[p].y + Boxes[p].h <= BOUNDARY_Y
                          /\ \A p, q \in D : p < q => Apart(Boxes[p], Boxes[q])
      BY <3>2, <3>5 DEF BoxesApart, RowSize
    <3>7. \A p \in D : /\ RowSize(Ppids, p) \in 1..WIDEST_ROW
                       /\ Place(Ppids, p) \in 0..(RowSize(Ppids, p) - 1)
      BY <2>2, <3>1, <3>6, PlaceInRow DEF WIDEST_ROW
    <3>8. \A p \in D : /\ Slot(p) \in Nat /\ BoxWidth(Slot(p)) \in Nat
                       /\ BoxWidth(Slot(p)) <= Slot(p) + BOX_GAP
                       /\ ROW_X + (RowSize(Ppids, p) - 1) * (Slot(p) + BOX_GAP)
                             + BoxWidth(Slot(p)) <= WIDTH
      BY <3>7, RowFits
    <3> HIDE DEF Depth, Slot
    <3>9. \A p \in D : Boxes[p].x >= 0 /\ Boxes[p].x + Boxes[p].w <= WIDTH
      <4> SUFFICES ASSUME NEW p \in D
                   PROVE  Boxes[p].x >= 0 /\ Boxes[p].x + Boxes[p].w <= WIDTH
        OBVIOUS
      <4>1. RowSize(Ppids, p) <= WIDEST_ROW
        BY <3>6
      <4>2. Boxes[p].x \in Nat /\ Boxes[p].x + Boxes[p].w <= WIDTH
        BY <2>1, <2>2, <4>1, BoxIsOnScreen DEF Boxes
      <4> QED  BY <4>2
    <3>10. \A p \in D : Depth(p) < ROWS_ABOVE => Boxes[p].y + Boxes[p].h <= BOUNDARY_Y
      BY <2>1, <2>2, BoxIsAbove DEF Boxes, Depth
    <3>11. ASSUME NEW p \in D, NEW q \in D, p < q PROVE Apart(Boxes[p], Boxes[q])
      <4>1. CASE Depth(p) = Depth(q)
        <5>1. q \in RowOf(Ppids, p)
          BY <2>2, <4>1 DEF RowOf, Depth
        <5>2. Place(Ppids, p) < Place(Ppids, q) /\ Slot(q) = Slot(p)
          BY <2>2, <3>1, <3>11, <5>1, PlacesDiffer DEF Slot
        <5> DEFINE i == Place(Ppids, p)
                   j == Place(Ppids, q)
                   step == Slot(p) + BOX_GAP
                   w == BoxWidth(Slot(p))
        <5>3. i \in Nat /\ j \in Nat /\ i < j /\ step \in Nat /\ w \in Nat /\ w <= step
          BY <3>7, <3>8, <5>2 DEF BOX_GAP, WIDEST_ROW
        <5>4. Boxes[p].x = ROW_X + i * step /\ Boxes[q].x = ROW_X + j * step /\ Boxes[p].w = w
          BY <3>3, <5>2
        <5> HIDE DEF i, j, step, w
        <5>5. i * step + step <= j * step /\ i * step \in Nat /\ j * step \in Nat
          <6>1. (i + 1) * step <= j * step
            BY <5>3
          <6> QED  BY <5>3, <6>1
        <5> QED  BY <5>3, <5>4, <5>5 DEF Apart, ROW_X
      <4>2. CASE Depth(p) < Depth(q) \/ Depth(q) < Depth(p)
        BY <3>3, <3>4, <4>2 DEF Apart, PROC_Y, ROW_STEP, TREE_BOX_H
      <4> QED  BY <3>4, <4>1, <4>2
    <3> QED  BY <3>9, <3>10, <3>11 DEF Depth
  <2> QED  BY <2>3, <2>4
<1> QED  BY <1>1, FiniteInvariant, PTL
-----------------------------------------------------------------------------
\* As many values as there are arguments, when no two of them are the same.
LEMMA ImageCount ==
    ASSUME NEW S, IsFiniteSet(S), NEW f, f = [x \in S |-> f[x]],
           \A x, y \in S : f[x] = f[y] => x = y
    PROVE  IsFiniteSet({f[x] : x \in S}) /\ Cardinality({f[x] : x \in S}) = Cardinality(S)
<1> DEFINE T == {f[x] : x \in S}
<1>1. f \in [S -> T] /\ \A t \in T : \E x \in S : f[x] = t
  OBVIOUS
<1> HIDE DEF T
<1>2. f \in Surjection(S, T) /\ f \in Injection(S, T)
  BY <1>1 DEF Surjection, Injection, IsInjective
<1>3. IsFiniteSet(T) /\ Cardinality(T) = Cardinality(S)
  BY <1>2, FS_Surjection
<1> QED  BY <1>3 DEF T

\* The markers of a box that is wide enough for LEAST_MARKERS and above the
\* boundary.
LEMMA MarkersFit ==
    ASSUME NEW threads \in Nat, NEW box, box.x \in Int, box.y \in Int, box.w \in Int, box.h \in Int,
           box.w >= MIN_BOX_W, box.h >= TREE_BOX_H, box.y + box.h <= BOUNDARY_Y
    PROVE  /\ Cardinality(Markers(threads, box)) >= Min({threads, LEAST_MARKERS})
           /\ \A m \in Markers(threads, box) :
                 /\ m.x - MARKER_RADIUS >= box.x /\ m.x + MARKER_RADIUS < box.x + box.w
                 /\ m.y - MARKER_RADIUS >= box.y /\ m.y + MARKER_RADIUS < box.y + box.h
<1> DEFINE y == box.y + box.h - 5
           J == {i \in 0..(threads - 1) : box.x + 6 + i * 6 <= box.x + box.w - 4}
           f == [i \in J |-> [x |-> box.x + 6 + i * 6, y |-> y]]
           least == IF threads <= 3 THEN threads ELSE 3
<1>1. Min({y, 125}) = y
  <2>1. y \in Int /\ y <= 125
    BY DEF BOUNDARY_Y
  <2> HIDE DEF y
  <2>2. Min({y, 125}) = IF y =< 125 THEN y ELSE 125
    <3> DEFINE top == 125
    <3>1. top \in Int
      OBVIOUS
    <3> HIDE DEF top
    <3>2. Min({y, top}) = IF y =< top THEN y ELSE top
      BY <2>1, <3>1, MaxMin
    <3> QED  BY <3>2 DEF top
  <2> QED  BY <2>1, <2>2
<1>2. Markers(threads, box) = {f[i] : i \in J}
  <2> HIDE DEF y
  <2>1. Markers(threads, box) = {[x |-> c, y |-> y] :
              c \in {d \in {box.x + 6 + i * 6 : i \in 0..(threads - 1)} : d <= box.x + box.w - 4}}
    BY <1>1 DEF Markers, MarkerFits, MARKER_STEP, BOUNDARY_Y, y
  <2>2. \A c : c \in {d \in {box.x + 6 + i * 6 : i \in 0..(threads - 1)} : d <= box.x + box.w - 4}
               <=> \E i \in J : c = box.x + 6 + i * 6
    OBVIOUS
  <2> QED  BY <2>1, <2>2
<1>3. IsFiniteSet(J) /\ Cardinality(J) \in Nat
  <2>1. J \in SUBSET (0..(threads - 1))
    OBVIOUS
  <2>2. IsFiniteSet(0..(threads - 1))
    <3>1. 0 \in Int /\ threads - 1 \in Int
      OBVIOUS
    <3> DEFINE top == threads - 1
    <3> HIDE DEF top
    <3>2. IsFiniteSet(0..top)
      BY <3>1, FS_Interval DEF top
    <3> QED  BY <3>2 DEF top
  <2> HIDE DEF J
  <2> QED  BY <2>1, <2>2, FS_Subset, FS_CardinalityType
<1>4. \A i, j \in J : f[i] = f[j] => i = j
  <2> SUFFICES ASSUME NEW i \in J, NEW j \in J, f[i].x = f[j].x PROVE i = j
    OBVIOUS
  <2> QED  OBVIOUS
<1>5. Cardinality(Markers(threads, box)) = Cardinality(J)
  <2>1. f = [i \in J |-> f[i]]
    OBVIOUS
  <2> HIDE DEF f, J
  <2> QED  BY <1>2, <1>3, <1>4, <2>1, ImageCount
<1>6. least \in Nat /\ least = Min({threads, LEAST_MARKERS})
  <2> DEFINE top == LEAST_MARKERS
  <2>1. top \in Int /\ threads \in Int
    BY DEF LEAST_MARKERS
  <2> HIDE DEF top
  <2>2. Min({threads, top}) = IF threads =< top THEN threads ELSE top
    BY <2>1, MaxMin
  <2> QED  BY <2>2 DEF top, LEAST_MARKERS
<1>7. Cardinality(J) >= least
  <2> DEFINE top == least - 1
  <2>1. 0..top \in SUBSET J
    BY DEF MIN_BOX_W
  <2>2. 0 \in Int /\ top \in Int /\ (IF 0 > top THEN 0 ELSE top - 0 + 1) = least
    OBVIOUS
  <2> HIDE DEF top
  <2>3. Cardinality(0..top) = least
    BY <2>2, FS_Interval
  <2> HIDE DEF J
  <2> QED  BY <1>3, <2>1, <2>3, FS_Subset
<1>8. ASSUME NEW m \in Markers(threads, box)
      PROVE  /\ m.x - MARKER_RADIUS >= box.x /\ m.x + MARKER_RADIUS < box.x + box.w
             /\ m.y - MARKER_RADIUS >= box.y /\ m.y + MARKER_RADIUS < box.y + box.h
  <2>1. PICK i \in J : m = f[i]
    <3> HIDE DEF J, f
    <3> QED  BY <1>2
  <2>2. m.x = box.x + 6 + i * 6 /\ m.y = y
    BY <2>1
  <2> QED  BY <2>2 DEF MARKER_RADIUS, TREE_BOX_H
<1> QED  BY <1>5, <1>6, <1>7, <1>8

\* The blocks of n regions: the first MOST_BLOCKS, each in a place of its own.
LEMMA BlocksFit ==
    ASSUME NEW n \in Nat, n = Cardinality(DOMAIN processes[initialPid].regions)
    PROVE  /\ Cardinality(Blocks) = Min({n, MOST_BLOCKS})
           /\ \A b \in Blocks :
                 /\ HotZones(b.x) = {"MEMORY"} /\ HotZones(b.x + BLOCK - 1) = {"MEMORY"}
                 /\ b.y > BOUNDARY_Y /\ b.y + BLOCK < FD_SEP_Y
<1> DEFINE J == {j \in 0..(n - 1) : BlockOf(j).y + BLOCK < FD_SEP_Y}
           f == [i \in J |-> BlockOf(i)]
           most == IF n <= 63 THEN n ELSE 63
<1>1. Columns = 7
  <2>1. (ZONE_W - 2 * PAD) \div (BLOCK + BLOCK_GAP) = 7
    BY DEF ZONE_W, WIDTH, PAD, BLOCK, BLOCK_GAP
  <2>2. Max({1, 7}) = 7
    BY MaxMin
  <2> QED  BY <2>1, <2>2 DEF Columns
<1>2. \A i \in Nat : BlockOf(i) = [x |-> 68 + (i % 7) * 8, y |-> 152 + (i \div 7) * 8]
  BY <1>1 DEF BlockOf, zone_bounds, ZONE_ORDER, ZONE_W, WIDTH, PAD, BLOCK, BLOCK_GAP,
              REGIONS_TOP, BOUNDARY_Y
<1>3. Blocks = {f[i] : i \in J}
  BY DEF Blocks
<1>4. J = 0..(most - 1)
  <2>1. \A j \in Nat : BlockOf(j).y + BLOCK < FD_SEP_Y <=> j <= 62
    BY <1>2 DEF BLOCK, FD_SEP_Y, FD_BAR_Y
  <2> QED  BY <2>1
<1>5. most \in Nat /\ most = Min({n, MOST_BLOCKS})
  BY MaxMin DEF MOST_BLOCKS
<1>6. IsFiniteSet(J) /\ Cardinality(J) = most
  <2> DEFINE top == most - 1
  <2>1. 0 \in Int /\ top \in Int /\ (IF 0 > top THEN 0 ELSE top - 0 + 1) = most
    BY <1>5
  <2>2. J = 0..top
    BY <1>4
  <2> HIDE DEF top, J
  <2> QED  BY <2>1, <2>2, FS_Interval
<1>7. \A i, j \in J : f[i] = f[j] => i = j
  <2> SUFFICES ASSUME NEW i \in J, NEW j \in J, f[i] = f[j] PROVE i = j
    OBVIOUS
  <2>1. i \in Nat /\ j \in Nat
    OBVIOUS
  <2>2. BlockOf(i) = BlockOf(j)
    OBVIOUS
  <2>3. /\ BlockOf(i).x = 68 + (i % 7) * 8 /\ BlockOf(i).y = 152 + (i \div 7) * 8
        /\ BlockOf(j).x = 68 + (j % 7) * 8 /\ BlockOf(j).y = 152 + (j \div 7) * 8
    BY <1>2, <2>1
  <2> QED  BY <2>1, <2>2, <2>3
<1>8. Cardinality(Blocks) = most
  <2>1. f = [i \in J |-> f[i]]
    OBVIOUS
  <2> HIDE DEF f, J
  <2> QED  BY <1>3, <1>6, <1>7, <2>1, ImageCount
<1>9. ASSUME NEW b \in Blocks
      PROVE  /\ HotZones(b.x) = {"MEMORY"} /\ HotZones(b.x + BLOCK - 1) = {"MEMORY"}
             /\ b.y > BOUNDARY_Y /\ b.y + BLOCK < FD_SEP_Y
  <2>1. PICK i \in J : b = BlockOf(i)
    BY <1>3
  <2>2. i \in Nat /\ b.y + BLOCK < FD_SEP_Y
    BY <2>1
  <2>3. b.x = 68 + (i % 7) * 8 /\ b.y = 152 + (i \div 7) * 8
    BY <1>2, <2>1, <2>2
  <2>4. i % 7 \in 0..6 /\ i \div 7 \in Nat
    BY <2>2
  <2>5. b.x \in 68..116 /\ b.y \in Nat /\ b.y >= 152
    BY <2>3, <2>4
  <2>6. \A x \in 64..127 : HotZones(x) = {"MEMORY"}
    BY DEF HotZones, zone_bounds, ZONE_ORDER, ZONE_W, WIDTH
  <2> QED  BY <2>2, <2>5, <2>6 DEF BLOCK, BOUNDARY_Y
<1> QED  BY <1>5, <1>8, <1>9

\* A box is at least as wide as the narrowest, however crowded its row.
LEMMA BoxIsWideEnough ==
    \A slot \in Int : BoxWidth(slot) \in Int /\ BoxWidth(slot) >= MIN_BOX_W
<1> SUFFICES ASSUME NEW slot \in Int PROVE BoxWidth(slot) \in Int /\ BoxWidth(slot) >= MIN_BOX_W
  OBVIOUS
<1> DEFINE m == Min({PROC_W, slot})
<1>1. m \in Int /\ MIN_BOX_W \in Int
  <2>1. Min({80, slot}) = IF 80 =< slot THEN 80 ELSE slot
    BY MaxMin
  <2> QED  BY <2>1 DEF PROC_W, MIN_BOX_W
<1>2. BoxWidth(slot) = Max({MIN_BOX_W, m})
  BY DEF BoxWidth
<1> HIDE DEF m
<1> QED  BY <1>1, <1>2, MaxMin

\* R14 and R10: markers stay in their boxes and blocks in their zone, and those
\* that are promised are there, however many threads and regions there are.
THEOREM MarkersAndBlocksFit == Spec => []PanelsFit
<1>1. Finite => PanelsFit
  <2> SUFFICES ASSUME Finite PROVE PanelsFit
    OBVIOUS
  <2>1. IsFiniteSet(DOMAIN processes) /\ DOMAIN processes \subseteq Nat
    BY ShapeIsInvariant, PidAssumption DEF Finite, SmallWorld, TypeOK, IsDict
  <2>2. DOMAIN Ppids = DOMAIN processes
    BY DEF Ppids
  <2>3. ASSUME NEW p \in DOMAIN processes, DepthOf(Ppids, p) < ROWS_ABOVE
        PROVE  LET box == Boxes[p]
               IN  /\ box.x \in Int /\ box.y \in Int /\ box.w \in Int /\ box.h \in Int
                   /\ box.w >= MIN_BOX_W /\ box.h >= TREE_BOX_H /\ box.y + box.h <= BOUNDARY_Y
    <3>1. CASE Cardinality(DOMAIN processes) = 1
      <4>1. Boxes[p] = LoneBox
        BY <2>2, <3>1 DEF Boxes, BoxesOf
      <4> QED  BY <4>1 DEF LoneBox, PROC_X, PROC_Y, PROC_W, PROC_H, MIN_BOX_W, TREE_BOX_H, BOUNDARY_Y
    <3>2. CASE Cardinality(DOMAIN processes) # 1
      <4> DEFINE n == RowSize(Ppids, p)
                 k == Place(Ppids, p)
                 slot == SlotOf(n)
      <4>1. Tree(Ppids)
        BY <2>1, <2>2, <3>2 DEF Tree
      <4>2. /\ Boxes[p].x = ROW_X + k * (slot + BOX_GAP)
            /\ Boxes[p].y = PROC_Y + DepthOf(Ppids, p) * ROW_STEP
            /\ Boxes[p].w = BoxWidth(slot) /\ Boxes[p].h = TREE_BOX_H
        BY <2>2, <4>1, BoxInItsRow DEF Boxes
      <4>3. n \in Nat \ {0} /\ k \in 0..(n - 1)
        BY <2>2, <4>1, PlaceInRow
      <4>4. DepthOf(Ppids, p) \in Nat
        BY <2>1, <2>2, DepthIsNat
      <4> HIDE DEF n, k
      <4>5. slot \in Int /\ k \in Int
        BY <4>3 DEF SlotOf, ROW_W, ROW_X, WIDTH, BOX_GAP
      <4> HIDE DEF slot
      <4>6. BoxWidth(slot) \in Int /\ BoxWidth(slot) >= MIN_BOX_W
        BY <4>5, BoxIsWideEnough
      <4> QED  BY <2>3, <4>2, <4>4, <4>5, <4>6
               DEF ROW_X, BOX_GAP, PROC_Y, ROW_STEP, TREE_BOX_H, BOUNDARY_Y, ROWS_ABOVE
    <3> QED  BY <3>1, <3>2
  <2>4. \A p \in DOMAIN processes : Cardinality(processes[p].threads) \in Nat
    BY FS_CardinalityType DEF Finite, SmallWorld, Small
  <2>5. Cardinality(DOMAIN processes[initialPid].regions) \in Nat
    BY ShapeIsInvariant, FS_CardinalityType DEF Finite, SmallWorld, Small, TablesAgree
  <2>6. ASSUME NEW p \in DOMAIN processes, DepthOf(Ppids, p) < ROWS_ABOVE
        PROVE  LET threads == Cardinality(processes[p].threads)
                   box     == Boxes[p]
               IN  /\ Cardinality(Markers(threads, box)) >= Min({threads, LEAST_MARKERS})
                   /\ \A m \in Markers(threads, box) :
                         /\ m.x - MARKER_RADIUS >= box.x /\ m.x + MARKER_RADIUS < box.x + box.w
                         /\ m.y - MARKER_RADIUS >= box.y /\ m.y + MARKER_RADIUS < box.y + box.h
    <3> DEFINE threads == Cardinality(processes[p].threads)
               box == Boxes[p]
    <3>1. /\ threads \in Nat
          /\ box.x \in Int /\ box.y \in Int /\ box.w \in Int /\ box.h \in Int
          /\ box.w >= MIN_BOX_W /\ box.h >= TREE_BOX_H /\ box.y + box.h <= BOUNDARY_Y
      BY <2>3, <2>4, <2>6
    <3> HIDE DEF threads, box
    <3>2. /\ Cardinality(Markers(threads, box)) >= Min({threads, LEAST_MARKERS})
          /\ \A m \in Markers(threads, box) :
                /\ m.x - MARKER_RADIUS >= box.x /\ m.x + MARKER_RADIUS < box.x + box.w
                /\ m.y - MARKER_RADIUS >= box.y /\ m.y + MARKER_RADIUS < box.y + box.h
      BY <3>1, MarkersFit
    <3> QED  BY <3>2 DEF threads, box
  <2> DEFINE n == Cardinality(DOMAIN processes[initialPid].regions)
  <2>7. /\ Cardinality(Blocks) = Min({n, MOST_BLOCKS})
        /\ \A b \in Blocks :
              /\ HotZones(b.x) = {"MEMORY"} /\ HotZones(b.x + BLOCK - 1) = {"MEMORY"}
              /\ b.y > BOUNDARY_Y /\ b.y + BLOCK < FD_SEP_Y
    BY <2>5, BlocksFit
  <2> QED  BY <2>6, <2>7 DEF PanelsFit
<1> QED  BY <1>1, FiniteInvariant, PTL
-----------------------------------------------------------------------------
\* Every process has a rank above its parent's: nobody is an ancestor of its own.
Ranks(ppids, rank) ==
    /\ rank \in [DOMAIN ppids -> Nat]
    /\ \A p \in DOMAIN ppids : ParentOf(ppids, p) # 0 => rank[ParentOf(ppids, p)] < rank[p]
Acyclic(ppids) == \E rank : Ranks(ppids, rank)

\* Each step of a walk goes from a process to its parent, or the walk is over and
\* stays at 0.
LEMMA WalkSteps ==
    ASSUME NEW ppids, 0 \notin DOMAIN ppids, NEW n \in Nat, NEW p \in DOMAIN ppids,
           NEW f, IsWalk(f, ppids, p, n)
    PROVE  /\ f[0] = p /\ DOMAIN f = 0..n
           /\ \A k \in 0..(n - 1) : f[k + 1] = ParentOf(ppids, f[k])
           /\ \A q : ParentOf(ppids, q) \in DOMAIN ppids \cup {0}
           /\ \A q : ParentOf(ppids, q) # 0 => q \in DOMAIN ppids
<1>1. /\ DOMAIN f = 0..n
      /\ \A k \in 0..n : f[k] = IF k = 0 THEN p ELSE ParentOf(ppids, f[k - 1])
  BY DEF IsWalk
<1>2. ASSUME NEW k \in 0..(n - 1) PROVE f[k + 1] = ParentOf(ppids, f[k])
  <2>1. k + 1 \in 0..n /\ k + 1 # 0 /\ (k + 1) - 1 = k
    OBVIOUS
  <2> QED  BY <1>1, <2>1
<1> QED  BY <1>1, <1>2 DEF ParentOf

\* A walk in a ranked tree goes down the ranks as long as it is not over.
LEMMA WalkDescends ==
    ASSUME NEW ppids, 0 \notin DOMAIN ppids, NEW rank, Ranks(ppids, rank), NEW n \in Nat,
           NEW p \in DOMAIN ppids, NEW f, IsWalk(f, ppids, p, n)
    PROVE  \A j \in 0..n : f[j] # 0 =>
              /\ f[j] \in DOMAIN ppids
              /\ \A i \in 0..(j - 1) : f[i] \in DOMAIN ppids /\ rank[f[j]] < rank[f[i]]
<1> DEFINE D == DOMAIN ppids
           Down(j) == f[j] # 0 => /\ f[j] \in D
                                  /\ \A i \in 0..(j - 1) : f[i] \in D /\ rank[f[j]] < rank[f[i]]
           S == {m \in 0..n : \A j \in 0..m : Down(j)}
<1>1. /\ f[0] = p
      /\ \A k \in 0..(n - 1) : f[k + 1] = ParentOf(ppids, f[k])
      /\ \A q : ParentOf(ppids, q) \in D \cup {0}
      /\ \A q : ParentOf(ppids, q) # 0 => q \in D
  BY WalkSteps
<1>2. \A q \in D : rank[q] \in Nat /\ (ParentOf(ppids, q) # 0 => rank[ParentOf(ppids, q)] < rank[q])
  BY DEF Ranks
<1>3. 0 \in S
  <2>1. Down(0)
    BY <1>1
  <2> HIDE DEF Down
  <2>2. \A j \in 0..0 : Down(j)
    <3>1. \A j \in 0..0 : j = 0
      OBVIOUS
    <3> QED  BY <2>1, <3>1
  <2> QED  BY <2>2
<1>4. S \in SUBSET (0..n) /\ S # {}
  BY <1>3
<1>5. PICK m \in S : \A j \in S : j <= m
  <2> HIDE DEF S
  <2> QED  BY <1>4, LastExists
<1>6. m \in 0..n /\ \A j \in 0..m : Down(j)
  BY <1>5
<1>7. ASSUME m < n PROVE FALSE
  <2>1. m \in 0..(n - 1) /\ m \in 0..m
    BY <1>6, <1>7
  <2>2. f[m + 1] = ParentOf(ppids, f[m]) /\ Down(m)
    BY <1>1, <1>6, <2>1
  <2>3. Down(m + 1)
    <3> SUFFICES ASSUME f[m + 1] # 0 PROVE Down(m + 1)
      OBVIOUS
    <3>1. f[m + 1] \in D /\ f[m] \in D /\ f[m] # 0
      BY <1>1, <2>2
    <3>2. rank[f[m + 1]] < rank[f[m]] /\ rank[f[m + 1]] \in Nat /\ rank[f[m]] \in Nat
      BY <1>2, <2>2, <3>1
    <3>3. ASSUME NEW i \in 0..m PROVE f[i] \in D /\ rank[f[m + 1]] < rank[f[i]]
      <4>1. CASE i = m
        BY <3>1, <3>2, <4>1
      <4>2. CASE i # m
        <5>1. i \in 0..(m - 1)
          BY <1>6, <4>2
        <5>2. f[i] \in D /\ rank[f[m]] < rank[f[i]]
          BY <2>2, <3>1, <5>1
        <5> QED  BY <1>2, <3>2, <5>2
      <4> QED  BY <4>1, <4>2
    <3>4. (m + 1) - 1 = m
      BY <1>6
    <3> QED  BY <3>1, <3>3, <3>4
  <2> HIDE DEF Down
  <2>4. \A j \in 0..(m + 1) : j \in 0..m \/ j = m + 1
    BY <1>6
  <2>5. m + 1 \in S
    BY <1>6, <1>7, <2>3, <2>4
  <2> HIDE DEF S
  <2> QED  BY <1>5, <1>6, <2>5
<1>8. m = n
  BY <1>6, <1>7
<1> QED  BY <1>6, <1>8

\* Such a walk meets nobody twice, so it is over when it met everybody.
LEMMA WalkEnds ==
    ASSUME NEW ppids, 0 \notin DOMAIN ppids, IsFiniteSet(DOMAIN ppids), Acyclic(ppids),
           NEW p \in DOMAIN ppids, NEW f, IsWalk(f, ppids, p, Cardinality(DOMAIN ppids))
    PROVE  f[Cardinality(DOMAIN ppids)] = 0
<1> DEFINE D == DOMAIN ppids
           n == Cardinality(D)
<1>1. PICK rank : Ranks(ppids, rank)
  BY DEF Acyclic
<1>2. n \in Nat
  BY FS_CardinalityType
<1> SUFFICES ASSUME f[n] # 0 PROVE FALSE
  OBVIOUS
<1>3. DOMAIN f = 0..n /\ f = [k \in 0..n |-> f[k]]
  BY DEF IsWalk
<1> HIDE DEF n
<1>4. IsWalk(f, ppids, p, n)
  BY DEF n
<1>5. \A j \in 0..n : f[j] # 0 =>
         /\ f[j] \in D
         /\ \A i \in 0..(j - 1) : f[i] \in D /\ rank[f[j]] < rank[f[i]]
  BY <1>1, <1>2, <1>4, WalkDescends
<1>6. \A j \in 0..n : f[j] \in D
  <2>1. n \in 0..n /\ \A j \in 0..n : j = n \/ j \in 0..(n - 1)
    BY <1>2
  <2> QED  BY <1>5, <2>1
<1>7. \A q \in D : rank[q] \in Nat
  BY <1>1 DEF Ranks
<1>8. ASSUME NEW i \in 0..n, NEW j \in 0..n, f[i] = f[j] PROVE i = j
  <2>1. f[i] # 0 /\ f[j] # 0
    BY <1>6
  <2>2. ~(i < j)
    <3>1. i < j => i \in 0..(j - 1)
      BY <1>2
    <3> QED  BY <1>5, <1>6, <1>7, <1>8, <2>1, <3>1
  <2>3. ~(j < i)
    <3>1. j < i => j \in 0..(i - 1)
      BY <1>2
    <3> QED  BY <1>5, <1>6, <1>7, <1>8, <2>1, <3>1
  <2> QED  BY <1>2, <2>2, <2>3
<1>9. IsFiniteSet(0..n) /\ Cardinality(0..n) = n + 1
  BY <1>2, FS_Interval
<1> DEFINE T == {f[k] : k \in 0..n}
<1>10. Cardinality(T) = n + 1
  <2> DEFINE I == 0..n
  <2>1. IsFiniteSet(I) /\ f = [k \in I |-> f[k]] /\ \A x, y \in I : f[x] = f[y] => x = y
    BY <1>3, <1>8, <1>9
  <2> HIDE DEF I
  <2>2. Cardinality({f[k] : k \in I}) = Cardinality(I)
    BY <2>1, ImageCount
  <2> QED  BY <1>9, <2>2 DEF I
<1>11. T \in SUBSET D
  BY <1>6
<1> HIDE DEF T
<1>12. Cardinality(T) <= n
  <2>1. Cardinality(T) <= Cardinality(D)
    BY <1>11, FS_Subset
  <2> QED  BY <2>1 DEF n
<1> QED  BY <1>2, <1>10, <1>12

\* The depth is the last step of the walk before it is over.
LEMMA DepthIsLast ==
    ASSUME NEW ppids, 0 \notin DOMAIN ppids, IsFiniteSet(DOMAIN ppids), Acyclic(ppids),
           NEW p \in DOMAIN ppids
    PROVE  \E f : /\ IsWalk(f, ppids, p, Cardinality(DOMAIN ppids))
                  /\ LET S == {k \in 0..Cardinality(DOMAIN ppids) : \A i \in 1..k : f[i] # 0}
                     IN  DepthOf(ppids, p) \in S /\ \A k \in S : k <= DepthOf(ppids, p)
<1> DEFINE n == Cardinality(DOMAIN ppids)
           up == AncestorOf(ppids, p)
           T == {k \in DOMAIN up :
                    /\ \A i \in 1..k : up[i] # 0
                    /\ \A i, j \in 0..k : up[i] = up[j] => i = j}
           S == {k \in 0..n : \A i \in 1..k : up[i] # 0}
<1>1. n \in Nat
  BY FS_CardinalityType
<1>2. IsWalk(up, ppids, p, n)
  <2>1. PICK f : IsWalk(f, ppids, p, n)
    <3> HIDE DEF n
    <3> QED  BY <1>1, WalkExists
  <2> QED  BY <2>1 DEF IsWalk, AncestorOf
<1>3. DOMAIN up = 0..n
  BY <1>2 DEF IsWalk
<1>4. DepthOf(ppids, p) = Max(T)
  BY DEF DepthOf
<1>5. PICK rank : Ranks(ppids, rank)
  BY DEF Acyclic
<1> HIDE DEF up, n
<1>6. \A j \in 0..n : up[j] # 0 =>
         /\ up[j] \in DOMAIN ppids
         /\ \A i \in 0..(j - 1) : up[i] \in DOMAIN ppids /\ rank[up[j]] < rank[up[i]]
  BY <1>1, <1>2, <1>5, WalkDescends
<1>7. up[0] # 0
  BY <1>1, <1>2, WalkSteps
<1>8. \A q \in DOMAIN ppids : rank[q] \in Nat
  BY <1>5 DEF Ranks
<1>9. ASSUME NEW k \in 0..n, \A i \in 1..k : up[i] # 0, NEW i \in 0..k, NEW j \in 0..k, i < j
      PROVE  up[i] # up[j]
  <2>1. j \in 1..k /\ j \in 0..n /\ i \in 0..(j - 1)
    BY <1>1, <1>9
  <2>2. up[j] # 0
    BY <1>9, <2>1
  <2>3. up[i] \in DOMAIN ppids /\ up[j] \in DOMAIN ppids /\ rank[up[j]] < rank[up[i]]
    BY <1>6, <2>1, <2>2
  <2> QED  BY <1>8, <2>3
<1>10. ASSUME NEW k \in 0..n, \A i \in 1..k : up[i] # 0, NEW i \in 0..k, NEW j \in 0..k,
              up[i] = up[j]
       PROVE  i = j
  <2>1. ~(i < j) /\ ~(j < i)
    BY <1>9, <1>10
  <2> QED  BY <1>1, <2>1
<1>11. T = S
  BY <1>3, <1>10
<1>12. 0 \in S /\ S \in SUBSET (0..n)
  BY <1>1
<1> HIDE DEF S, T
<1>13. PICK m \in S : \A j \in S : j <= m
  BY <1>1, <1>12, LastExists
<1>14. \E k \in S : \A j \in S : k >= j
  BY <1>1, <1>12, <1>13
<1>15. Max(S) \in S /\ \A k \in S : Max(S) >= k
  BY <1>14 DEF Max
<1>16. DepthOf(ppids, p) \in S /\ \A k \in S : k <= DepthOf(ppids, p)
  BY <1>1, <1>4, <1>11, <1>12, <1>15
<1> QED  BY <1>2, <1>16 DEF S, n

\* The walk from a child is a step ahead of the walk from its parent.
LEMMA WalkAhead ==
    ASSUME NEW ppids, 0 \notin DOMAIN ppids, NEW n \in Nat \ {0},
           NEW p \in DOMAIN ppids, ParentOf(ppids, p) # 0,
           NEW f, IsWalk(f, ppids, p, n), NEW g, IsWalk(g, ppids, ParentOf(ppids, p), n)
    PROVE  \A k \in 0..(n - 1) : g[k] = f[k + 1]
<1> DEFINE q == ParentOf(ppids, p)
           S == {m \in 0..(n - 1) : \A k \in 0..m : g[k] = f[k + 1]}
<1>1. q \in DOMAIN ppids
  BY DEF ParentOf
<1>2. f[0] = p /\ \A k \in 0..(n - 1) : f[k + 1] = ParentOf(ppids, f[k])
  BY WalkSteps
<1>3. g[0] = q /\ \A k \in 0..(n - 1) : g[k + 1] = ParentOf(ppids, g[k])
  BY <1>1, WalkSteps
<1>4. 0 \in S
  <2>1. 0 \in 0..(n - 1) /\ \A k \in 0..0 : k = 0
    OBVIOUS
  <2> QED  BY <1>2, <1>3, <2>1
<1>5. n - 1 \in Nat /\ S \in SUBSET (0..(n - 1)) /\ S # {}
  BY <1>4
<1>6. PICK m \in S : \A j \in S : j <= m
  <2> DEFINE l == n - 1
  <2>1. l \in Nat /\ S \in SUBSET (0..l) /\ S # {}
    BY <1>5
  <2> HIDE DEF S, l
  <2> QED  BY <2>1, LastExists
<1>7. m \in 0..(n - 1) /\ \A k \in 0..m : g[k] = f[k + 1]
  BY <1>6
<1>8. ASSUME m < n - 1 PROVE FALSE
  <2>1. m \in 0..m /\ m \in 0..(n - 1) /\ m + 1 \in 0..(n - 1)
    BY <1>7, <1>8
  <2>2. g[m + 1] = ParentOf(ppids, g[m]) /\ f[(m + 1) + 1] = ParentOf(ppids, f[m + 1])
    BY <1>2, <1>3, <2>1
  <2>3. g[m + 1] = f[(m + 1) + 1]
    BY <1>7, <2>1, <2>2
  <2>4. \A k \in 0..(m + 1) : k \in 0..m \/ k = m + 1
    BY <1>7
  <2>5. m + 1 \in S
    BY <1>7, <2>1, <2>3, <2>4
  <2> HIDE DEF S
  <2> QED  BY <1>6, <1>7, <2>5
<1>9. m = n - 1
  BY <1>7, <1>8
<1> QED  BY <1>7, <1>9

\* A child is one deeper than its parent, and who has none is not deep at all.
LEMMA ChildIsDeeper ==
    ASSUME NEW ppids, 0 \notin DOMAIN ppids, IsFiniteSet(DOMAIN ppids), Acyclic(ppids),
           NEW p \in DOMAIN ppids
    PROVE  DepthOf(ppids, p) = IF ParentOf(ppids, p) = 0 THEN 0
                               ELSE DepthOf(ppids, ParentOf(ppids, p)) + 1
<1> DEFINE n == Cardinality(DOMAIN ppids)
           q == ParentOf(ppids, p)
           d == DepthOf(ppids, p)
           Before0(f) == {k \in 0..n : \A i \in 1..k : f[i] # 0}
<1>1. n \in Nat \ {0}
  BY FS_CardinalityType, FS_EmptySet
<1>2. PICK f : /\ IsWalk(f, ppids, p, n)
               /\ d \in Before0(f) /\ \A k \in Before0(f) : k <= d
  BY DepthIsLast
<1>3. f[0] = p /\ \A k \in 0..(n - 1) : f[k + 1] = ParentOf(ppids, f[k])
  <2> HIDE DEF n
  <2> QED  BY <1>1, <1>2, WalkSteps
<1>4. f[1] = q
  <2>1. 0 \in 0..(n - 1) /\ 0 + 1 = 1
    BY <1>1
  <2> QED  BY <1>3, <2>1
<1>5. d \in 0..n
  BY <1>2
<1>6. CASE q = 0
  <2>1. d >= 1 => 1 \in 1..d
    BY <1>1, <1>5
  <2>2. ~(d >= 1)
    BY <1>2, <1>4, <1>6, <2>1
  <2> QED  BY <1>1, <1>5, <1>6, <2>2
<1>7. CASE q # 0
  <2> DEFINE e == DepthOf(ppids, q)
  <2>1. q \in DOMAIN ppids
    BY <1>7 DEF ParentOf
  <2>2. PICK g : /\ IsWalk(g, ppids, q, n)
                 /\ e \in Before0(g) /\ \A k \in Before0(g) : k <= e
    BY <2>1, DepthIsLast
  <2>3. \A k \in 0..(n - 1) : g[k] = f[k + 1]
    <3> HIDE DEF n
    <3> QED  BY <1>1, <1>2, <1>7, <2>2, WalkAhead
  <2>4. g[n] = 0
    BY <2>1, <2>2, WalkEnds
  <2> HIDE DEF n, d, e, q
  <2>5. e \in 0..(n - 1)
    <3>1. e = n => n \in 1..e
      BY <1>1
    <3> QED  BY <1>1, <2>2, <2>4, <3>1
  <2>6. e + 1 \in Before0(f)
    <3> SUFFICES ASSUME NEW i \in 1..(e + 1) PROVE f[i] # 0
      BY <1>1, <2>5
    <3>1. CASE i = 1
      BY <1>4, <1>7, <3>1
    <3>2. CASE i # 1
      <4>1. i - 1 \in 1..e /\ i - 1 \in 0..(n - 1) /\ (i - 1) + 1 = i
        BY <1>1, <2>5, <3>2
      <4> QED  BY <2>2, <2>3, <4>1
    <3> QED  BY <3>1, <3>2
  <2>7. d - 1 <= e
    <3>1. CASE d = 0
      BY <1>1, <2>5, <3>1
    <3>2. CASE d # 0
      <4>1. d - 1 \in 0..n
        BY <1>1, <1>5, <3>2
      <4>2. ASSUME NEW i \in 1..(d - 1) PROVE g[i] # 0
        <5>1. i + 1 \in 1..d /\ i \in 0..(n - 1)
          BY <1>1, <1>5, <3>2
        <5> QED  BY <1>2, <2>3, <5>1
      <4> QED  BY <2>2, <4>1, <4>2
    <3> QED  BY <3>1, <3>2
  <2>8. d = e + 1
    BY <1>1, <1>2, <1>5, <2>5, <2>6, <2>7
  <2> QED  BY <1>7, <2>8 DEF d, e, q
<1> QED  BY <1>6, <1>7
-----------------------------------------------------------------------------
\* R12: a child is drawn in the row under its parent's, and who has no parent in
\* the first, whatever forks and deaths there are, as long as nobody is an
\* ancestor of its own.
THEOREM ChildrenAreBelow == Spec => [](Acyclic(Ppids) => ChildBelowParent)
<1>1. Finite => (Acyclic(Ppids) => ChildBelowParent)
  <2> SUFFICES ASSUME Finite, Acyclic(Ppids), NEW p \in DOMAIN Boxes
               PROVE  LET parent == ParentOf(Ppids, p)
                      IN  IF parent = 0 THEN Boxes[p].y = PROC_Y
                          ELSE /\ Boxes[p].y = Boxes[parent].y + ROW_STEP
                               /\ Boxes[p].y >= Boxes[parent].y + Boxes[parent].h
    BY DEF ChildBelowParent
  <2> DEFINE D == DOMAIN processes
             q == ParentOf(Ppids, p)
  <2>1. IsFiniteSet(D) /\ D \subseteq Nat
    BY ShapeIsInvariant, PidAssumption DEF Finite, SmallWorld, TypeOK, IsDict
  <2>2. DOMAIN Ppids = D /\ DOMAIN Boxes = D
    BY DEF Ppids, Boxes, BoxesOf
  <2>3. q # 0 => q \in D
    BY <2>2 DEF ParentOf
  <2>4. CASE Cardinality(D) = 1
    <3>1. Boxes = [k \in D |-> LoneBox]
      BY <2>2, <2>4 DEF Boxes, BoxesOf
    <3>2. \A k, l \in D : k = l
      BY <2>1, <2>4, FS_Singleton
    <3>3. PICK rank : Ranks(Ppids, rank)
      BY DEF Acyclic
    <3>4. q = 0
      <4> SUFFICES ASSUME q # 0 PROVE FALSE
        OBVIOUS
      <4>1. q = p /\ p \in D
        BY <2>2, <2>3, <3>2
      <4>2. rank[q] < rank[p] /\ rank[p] \in Nat
        BY <2>2, <3>3, <4>1 DEF Ranks
      <4> QED  BY <4>1, <4>2
    <3> QED  BY <2>2, <3>1, <3>4 DEF LoneBox
  <2>5. CASE Cardinality(D) # 1
    <3>1. 0 \notin D
      <4>1. Unknown(processes, initialPid, pending) => D = {0}
        BY DEF Unknown
      <4>2. ~Unknown(processes, initialPid, pending)
        BY <2>5, <4>1, FS_Singleton
      <4> QED  BY <4>2, PidAssumption DEF Finite, Shape, Coherent
    <3>2. Tree(Ppids)
      BY <2>1, <2>2, <2>5 DEF Tree
    <3>3. \A k \in D : /\ Boxes[k].y = PROC_Y + DepthOf(Ppids, k) * ROW_STEP
                       /\ Boxes[k].h = TREE_BOX_H
                       /\ DepthOf(Ppids, k) \in Nat
      BY <2>1, <2>2, <3>2, BoxInItsRow, DepthIsNat DEF Boxes
    <3>4. DepthOf(Ppids, p) = IF q = 0 THEN 0 ELSE DepthOf(Ppids, q) + 1
      BY <2>1, <2>2, <3>1, ChildIsDeeper
    <3> HIDE DEF q
    <3> QED  BY <2>2, <2>3, <3>3, <3>4 DEF PROC_Y, ROW_STEP, TREE_BOX_H, q
  <2> QED  BY <2>4, <2>5
<1> QED  BY <1>1, FiniteInvariant, PTL

\* While pids grow, every process is younger than its parent.
PidsGrow == \A e \in Event : e.kind = "SPAWN" => e.parent < e.child
Younger(P) == \A p \in DOMAIN P : P[p].ppid = 0 \/ P[p].ppid < p

\* Looking a pid up gives nobody a parent.
LEMMA LookupKeepsAges ==
    ASSUME Finite, Younger(processes), NEW pid \in Pid
    PROVE  Younger(ProcessesWith(pid))
<1> DEFINE new == NewProcess(pid, NoName, 0, EmptyDict)
           named == [processes[0] EXCEPT !.pid = pid]
<1>1. new.ppid = 0
  BY DEF NewProcess
<1>2. CASE Adopting
  <2>1. IsProcess(processes[0]) /\ 0 \in DOMAIN processes
    BY <1>2, ShapeIsInvariant DEF Finite, TypeOK, Adopting
  <2>2. named.ppid = processes[0].ppid /\ processes[0].ppid \in Nat
    BY <2>1, PidAssumption DEF IsProcess
  <2>3. named.ppid = 0
    BY <2>1, <2>2 DEF Younger
  <2>4. ProcessesWith(pid) = Put(Drop(processes, 0), pid, named)
    BY <1>2 DEF ProcessesWith
  <2> HIDE DEF named
  <2> QED  BY <2>3, <2>4 DEF Put, Drop, Younger
<1>3. CASE ~Adopting
  <2>1. ProcessesWith(pid) = processes \/ ProcessesWith(pid) = Put(processes, pid, new)
    BY <1>3 DEF ProcessesWith
  <2> HIDE DEF new
  <2> QED  BY <1>1, <2>1 DEF Put, Younger
<1> QED  BY <1>2, <1>3

\* A fork makes a process that is younger than its parent, and no other event
\* gives anybody a parent.
LEMMA AgesStep ==
    ASSUME PidsGrow, Finite, Younger(processes), NEW e \in Event, Apply(e)
    PROVE  Younger(processes')
<1>1. CASE e.kind = "ENTER"
  <2> DEFINE P == ProcessesWith(e.pid)
             r == [P[e.pid] EXCEPT !.in_syscall = e.name]
  <2>1. e.pid \in Pid /\ ApplyEnter(e)
    BY <1>1, EventAssumption DEF Apply, EnterEvent, ExitEvent, SpawnEvent, DeathEvent
  <2>2. processes' = [P EXCEPT ![e.pid] = r]
    BY <2>1 DEF ApplyEnter
  <2>3. Younger(P) /\ IsProcess(P[e.pid]) /\ e.pid \in DOMAIN P
    BY <2>1, LookupKeepsAges, LookupIsSmall
  <2>4. r.ppid = P[e.pid].ppid
    BY <2>3 DEF IsProcess
  <2> HIDE DEF P, r
  <2> QED  BY <2>2, <2>3, <2>4 DEF Younger
<1>2. CASE e.kind = "EXIT"
  <2> DEFINE P == ProcessesWith(e.pid)
  <2>1. e \in ExitEvent /\ e.pid \in Pid /\ ApplyExit(e)
    BY <1>2, EventAssumption DEF Apply, EnterEvent, ExitEvent, SpawnEvent, DeathEvent
  <2>2. PICK r : r.ppid = P[e.pid].ppid /\ processes' = [P EXCEPT ![e.pid] = r]
    BY <2>1, ExitRewrites DEF Finite
  <2>3. Younger(P)
    BY <2>1, LookupKeepsAges
  <2> HIDE DEF P
  <2> QED  BY <2>2, <2>3 DEF Younger
<1>3. CASE e.kind = "SPAWN"
  <2> DEFINE P == ProcessesWith(e.parent)
             parent == P[e.parent]
             host == [parent EXCEPT !.threads = @ \cup {e.child}]
             child == NewProcess(e.child, parent.name, parent.pid, parent.fds)
  <2>1. e.parent \in Pid /\ e.parent < e.child /\ ApplySpawn(e)
    BY <1>3, EventAssumption DEF Apply, EnterEvent, ExitEvent, SpawnEvent, DeathEvent, PidsGrow
  <2>2. processes' = [P EXCEPT ![e.parent] = host] \/ processes' = Put(P, e.child, child)
    BY <2>1 DEF ApplySpawn
  <2>3. Younger(P) /\ IsProcess(parent)
    BY <2>1, LookupKeepsAges, LookupIsSmall
  <2>4. parent.pid = e.parent
    BY <2>1, LookupIsCoherent DEF Finite, Coherent
  <2>5. host.ppid = parent.ppid /\ child.ppid = e.parent
    BY <2>3, <2>4 DEF IsProcess, NewProcess
  <2> HIDE DEF host, child, parent
  <2>6. CASE processes' = [P EXCEPT ![e.parent] = host]
    <3> HIDE DEF P
    <3> QED  BY <2>3, <2>5, <2>6 DEF Younger, parent
  <2>7. CASE processes' = Put(P, e.child, child)
    <3> HIDE DEF P
    <3> QED  BY <2>1, <2>3, <2>5, <2>7 DEF Younger, Put
  <2> QED  BY <2>2, <2>6, <2>7
<1>4. CASE e.kind = "DEATH"
  <2>1. processes' = processes \/ processes' = Drop(processes, e.pid)
    BY <1>4 DEF Apply, ApplyDeath
  <2> QED  BY <2>1 DEF Drop, Younger
<1> QED  BY <1>1, <1>2, <1>3, <1>4 DEF Apply

\* R12 while the kernel hands out growing pids, as it does until they come round.
THEOREM ChildrenOfGrowingPids == PidsGrow => (Spec => []ChildBelowParent)
<1> SUFFICES ASSUME PidsGrow PROVE Spec => []ChildBelowParent
  OBVIOUS
<1>1. WorldInit => Younger(processes)
  <2> SUFFICES ASSUME WorldInit PROVE Younger(processes)
    OBVIOUS
  <2> DEFINE r == NewProcess(INITIAL_PID, INITIAL_NAME, 0, EmptyDict)
  <2>1. processes = Put(EmptyDict, INITIAL_PID, r)
    BY DEF WorldInit
  <2>2. r.ppid = 0
    BY DEF NewProcess
  <2> HIDE DEF r
  <2> QED  BY <2>1, <2>2, EmptyIsDict DEF Put, Younger
<1>2. Finite /\ Younger(processes) /\ [Next]_worldVars => Younger(processes)'
  <2>1. Younger(processes) /\ UNCHANGED worldVars => Younger(processes)'
    BY DEF worldVars, Younger
  <2> QED  BY <2>1, AgesStep DEF Next
<1>3. Finite /\ Younger(processes) => Acyclic(Ppids)
  <2> SUFFICES ASSUME Finite, Younger(processes) PROVE Acyclic(Ppids)
    OBVIOUS
  <2> DEFINE rank == [p \in DOMAIN processes |-> p]
  <2>1. DOMAIN processes \subseteq Nat
    BY ShapeIsInvariant, PidAssumption DEF Finite, TypeOK, IsDict
  <2>2. DOMAIN Ppids = DOMAIN processes /\ \A p \in DOMAIN processes : Ppids[p] = processes[p].ppid
    BY DEF Ppids
  <2>3. rank \in [DOMAIN Ppids -> Nat]
    BY <2>1, <2>2
  <2>4. ASSUME NEW p \in DOMAIN Ppids, ParentOf(Ppids, p) # 0
        PROVE  rank[ParentOf(Ppids, p)] < rank[p]
    <3>1. ParentOf(Ppids, p) = processes[p].ppid /\ processes[p].ppid \in DOMAIN processes
      BY <2>2, <2>4 DEF ParentOf
    <3> QED  BY <2>2, <2>4, <3>1 DEF Younger
  <2> HIDE DEF rank
  <2>5. Ranks(Ppids, rank)
    BY <2>3, <2>4 DEF Ranks
  <2> QED  BY <2>5 DEF Acyclic
<1> QED  BY <1>1, <1>2, <1>3, FiniteInvariant, ChildrenAreBelow, PTL DEF Spec
=============================================================================
