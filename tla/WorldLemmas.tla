----------------------------- MODULE WorldLemmas ----------------------------
(***************************************************************************)
(* What the handlers of the World do to its tables, for every event, and   *)
(* where the layout puts the boxes of a tree: the lemmas behind the        *)
(* theorems about World.apply and its picture (WorldProofs), about the     *)
(* decoder that runs ahead of it (ObservationProofs), and about what the   *)
(* viewer shows of the kernel's tasks (PlaybackProofs).                    *)
(*                                                                         *)
(* Every event first looks its pid up (ProcessesWith, PendingWith,         *)
(* InitialWith); the world it then works on is Coherent, a statement about *)
(* any three tables P, i and Q in which the initial pid is known, and each *)
(* handler keeps a Coherent world Coherent.                                *)
(***************************************************************************)
EXTENDS Layout, InductionLemmas

\* P, i and Q stand for processes, initialPid and pending.
Coherent(P, i, Q) ==
    /\ P = [k \in DOMAIN P |-> P[k]]
    /\ DOMAIN P \subseteq Pid
    /\ \A k \in DOMAIN P : IsProcess(P[k]) /\ P[k].pid = k
    /\ i \in DOMAIN P
    /\ IsDict(Q, Pid, EnterEvent)
    /\ DOMAIN Q \subseteq DOMAIN P
    /\ \A k \in DOMAIN P \ {i} :
          P[k].in_syscall # None => k \in DOMAIN Q /\ Q[k].name = P[k].in_syscall

\* Before the first call is seen, the world holds the process of unknown pid.
Unknown(P, i, Q) ==
    /\ i = 0
    /\ P = [k \in {0} |-> P[0]]
    /\ IsProcess(P[0]) /\ P[0].pid = 0
    /\ Q = EmptyDict

\* Invariant as one of the two shapes of a world.
Shape == Unknown(processes, initialPid, pending) \/ Coherent(processes, initialPid, pending)

\* The keys and values of a dict after d[k] = v.
LEMMA PutFacts ==
    ASSUME NEW d, NEW k, NEW v
    PROVE  /\ DOMAIN Put(d, k, v) = DOMAIN d \cup {k}
           /\ Put(d, k, v)[k] = v
           /\ \A x \in DOMAIN d \ {k} : Put(d, k, v)[x] = d[x]
           /\ Put(d, k, v) = [x \in DOMAIN Put(d, k, v) |-> Put(d, k, v)[x]]
BY DEF Put

\* The keys and values of a dict after d.pop(k, None).
LEMMA DropFacts ==
    ASSUME NEW d, NEW k
    PROVE  /\ DOMAIN Drop(d, k) = DOMAIN d \ {k}
           /\ \A x \in DOMAIN d \ {k} : Drop(d, k)[x] = d[x]
           /\ Drop(d, k) = [x \in DOMAIN Drop(d, k) |-> Drop(d, k)[x]]
BY DEF Drop

\* A dict stays one when a key and value of its kind are put into it.
LEMMA PutIsDict ==
    ASSUME NEW d, NEW K, NEW V, NEW k \in K, NEW v \in V, IsDict(d, K, V)
    PROVE  IsDict(Put(d, k, v), K, V)
<1>1. DOMAIN d \cup {k} \subseteq K
  BY DEF IsDict
<1>2. \A x \in DOMAIN d : d[x] \in V
  BY DEF IsDict
<1>3. \A x \in DOMAIN d \cup {k} : Put(d, k, v)[x] \in V
  BY <1>2 DEF Put
<1>4. DOMAIN Put(d, k, v) = DOMAIN d \cup {k}
  BY PutFacts
<1>5. Put(d, k, v) = [x \in DOMAIN Put(d, k, v) |-> Put(d, k, v)[x]]
  BY DEF Put
<1> QED  BY <1>1, <1>3, <1>4, <1>5 DEF IsDict

\* A dict stays one when a key is dropped.
LEMMA DropIsDict ==
    ASSUME NEW d, NEW K, NEW V, NEW k, IsDict(d, K, V)
    PROVE  IsDict(Drop(d, k), K, V)
<1>1. DOMAIN d \ {k} \subseteq K
  BY DEF IsDict
<1>2. \A x \in DOMAIN d : d[x] \in V
  BY DEF IsDict
<1>3. \A x \in DOMAIN d \ {k} : Drop(d, k)[x] \in V
  BY <1>2 DEF Drop
<1>4. DOMAIN Drop(d, k) = DOMAIN d \ {k}
  BY DropFacts
<1>5. Drop(d, k) = [x \in DOMAIN Drop(d, k) |-> Drop(d, k)[x]]
  BY DEF Drop
<1> QED  BY <1>1, <1>3, <1>4, <1>5 DEF IsDict

\* The empty dict is a dict of anything.
LEMMA EmptyIsDict ==
    ASSUME NEW K, NEW V
    PROVE  IsDict(EmptyDict, K, V) /\ DOMAIN EmptyDict = {}
BY DEF IsDict, EmptyDict

\* The two statements of the invariant say the same.
LEMMA ShapeIsInvariant == Shape <=> TypeOK /\ TablesAgree
<1>1. Unknown(processes, initialPid, pending) => TypeOK /\ TablesAgree
  BY EmptyIsDict, InitialAssumption DEF Unknown, TypeOK, TablesAgree, IsDict
<1>2. Coherent(processes, initialPid, pending) => TypeOK /\ TablesAgree
  BY PidAssumption DEF Coherent, TypeOK, TablesAgree, IsDict
<1>3. ASSUME TypeOK, TablesAgree PROVE Shape
  <2>1. CASE initialPid = 0
    BY <1>3, <2>1 DEF Unknown, Shape, TypeOK, TablesAgree, IsDict
  <2>2. CASE initialPid # 0
    <3>1. DOMAIN processes \subseteq Pid
      BY <1>3, <2>2 DEF TypeOK, TablesAgree, IsDict
    <3> QED  BY <1>3, <3>1 DEF Coherent, Shape, TypeOK, TablesAgree, IsDict
  <2> QED  BY <2>1, <2>2
<1> QED  BY <1>1, <1>2, <1>3 DEF Shape
-----------------------------------------------------------------------------
\* A newborn process is one.
LEMMA NewIsProcess ==
    ASSUME NEW pid \in Pid, NEW name \in Part \cup {NoName}, NEW ppid \in Pid \cup {0},
           NEW fds, IsDict(fds, Number, Path \cup {None})
    PROVE  /\ IsProcess(NewProcess(pid, name, ppid, fds))
           /\ NewProcess(pid, name, ppid, fds).pid = pid
           /\ NewProcess(pid, name, ppid, fds).in_syscall = None
BY EmptyIsDict DEF IsProcess, NewProcess

\* Looking a pid up leaves a coherent world that knows it.
LEMMA LookupIsCoherent ==
    ASSUME Shape, NEW pid \in Pid
    PROVE  /\ Coherent(ProcessesWith(pid), InitialWith(pid), PendingWith(pid))
           /\ pid \in DOMAIN ProcessesWith(pid)
<1> DEFINE P == ProcessesWith(pid)
<1>1. CASE Unknown(processes, initialPid, pending)
  <2>1. Adopting
    BY <1>1 DEF Unknown, Adopting
  <2>2. IsProcess([processes[0] EXCEPT !.pid = pid])
    BY <1>1 DEF Unknown, IsProcess
  <2>3. [processes[0] EXCEPT !.pid = pid].pid = pid
    BY <1>1 DEF Unknown, IsProcess
  <2>4. DOMAIN P = {pid} /\ P[pid] = [processes[0] EXCEPT !.pid = pid]
    <3>1. P = Put(Drop(processes, 0), pid, [processes[0] EXCEPT !.pid = pid])
      BY <2>1 DEF ProcessesWith
    <3>2. DOMAIN Drop(processes, 0) = {}
      BY <1>1 DEF Unknown, Drop
    <3> QED  BY <3>1, <3>2 DEF Put
  <2>5. P = [k \in DOMAIN P |-> P[k]]
    BY <2>1 DEF ProcessesWith, Put
  <2>6. PendingWith(pid) = EmptyDict /\ InitialWith(pid) = pid
    BY <1>1, <2>1, EmptyIsDict DEF Unknown, PendingWith, InitialWith
  <2> QED  BY <2>2, <2>3, <2>4, <2>5, <2>6, EmptyIsDict DEF Coherent
<1>2. CASE Coherent(processes, initialPid, pending)
  <2>1. ~Adopting
    BY <1>2, PidAssumption DEF Coherent, Adopting
  <2>2. PendingWith(pid) = pending /\ InitialWith(pid) = initialPid
    BY <2>1 DEF PendingWith, InitialWith
  <2>3. CASE pid \in DOMAIN processes
    <3>1. P = processes
      BY <2>1, <2>3 DEF ProcessesWith
    <3> QED  BY <1>2, <2>2, <2>3, <3>1
  <2>4. CASE pid \notin DOMAIN processes
    <3> DEFINE r == NewProcess(pid, NoName, 0, EmptyDict)
    <3>1. P = Put(processes, pid, r)
      BY <2>1, <2>4 DEF ProcessesWith
    <3>2. IsProcess(r) /\ r.pid = pid /\ r.in_syscall = None
      <4>1. IsDict(EmptyDict, Number, Path \cup {None})
        BY EmptyIsDict
      <4>2. \A d : IsDict(d, Number, Path \cup {None}) =>
               /\ IsProcess(NewProcess(pid, NoName, 0, d))
               /\ NewProcess(pid, NoName, 0, d).pid = pid
               /\ NewProcess(pid, NoName, 0, d).in_syscall = None
        BY NewIsProcess
      <4> QED  BY <4>1, <4>2
    <3> HIDE DEF r
    <3>3. /\ DOMAIN P = DOMAIN processes \cup {pid} /\ P[pid] = r
          /\ \A k \in DOMAIN processes : P[k] = processes[k]
      BY <2>4, <3>1 DEF Put
    <3>4. P = [k \in DOMAIN P |-> P[k]]
      BY <3>1 DEF Put
    <3> HIDE DEF P
    <3>5. Coherent(P, initialPid, pending)
      BY <1>2, <2>4, <3>2, <3>3, <3>4 DEF Coherent
    <3> QED  BY <2>2, <3>3, <3>5 DEF P
  <2> QED  BY <2>3, <2>4
<1> QED  BY <1>1, <1>2 DEF Shape

\* Only real pids have an ENTER pending, so looking one up moves none.
LEMMA LookupKeepsPending ==
    ASSUME Shape, NEW pid \in Pid
    PROVE  /\ PendingWith(pid) = pending
           /\ ProcessesWith(pid)[pid].pid = pid
<1>1. 0 \notin DOMAIN pending
  BY ShapeIsInvariant, PidAssumption DEF TypeOK, IsDict
<1>2. PendingWith(pid) = pending
  BY <1>1 DEF PendingWith
<1>3. ProcessesWith(pid)[pid].pid = pid
  BY LookupIsCoherent DEF Coherent
<1> QED  BY <1>2, <1>3

\* A pending ENTER has a name, so it is told from none.
LEMMA PendingIsNamed ==
    ASSUME Shape, NEW p \in DOMAIN pending
    PROVE  pending[p].name # None
<1>1. pending[p] \in EnterEvent
  BY ShapeIsInvariant DEF TypeOK, IsDict
<1> QED  BY <1>1, NoneAssumption DEF EnterEvent

\* Rewriting one process and its own pending ENTER, so that the two agree,
\* keeps a world coherent.
LEMMA RewriteIsCoherent ==
    ASSUME NEW P, NEW i, NEW Q, Coherent(P, i, Q),
           NEW pid \in DOMAIN P, NEW r, IsProcess(r), r.pid = pid,
           NEW Q2, IsDict(Q2, Pid, EnterEvent), DOMAIN Q2 \subseteq DOMAIN P,
           \A k \in DOMAIN Q \ {pid} : k \in DOMAIN Q2 /\ Q2[k] = Q[k],
           r.in_syscall # None => pid \in DOMAIN Q2 /\ Q2[pid].name = r.in_syscall
    PROVE  Coherent([P EXCEPT ![pid] = r], i, Q2)
<1> DEFINE P2 == [P EXCEPT ![pid] = r]
<1>1. /\ DOMAIN P2 = DOMAIN P /\ P2[pid] = r
      /\ \A k \in DOMAIN P \ {pid} : P2[k] = P[k]
  BY DEF Coherent
<1>2. P2 = [k \in DOMAIN P2 |-> P2[k]]
  OBVIOUS
<1> HIDE DEF P2
<1>3. Coherent(P2, i, Q2)
  BY <1>1, <1>2 DEF Coherent
<1> QED  BY <1>3 DEF P2

\* The effect of a successful call leaves a process one, under the same pid, in
\* the same call, with the same latest value, threads and parent; and it makes one
\* new region at most.
LEMMA EffectIsProcess ==
    ASSUME NEW p, IsProcess(p), NEW call \in EnterEvent, NEW result \in Result, result >= 0
    PROVE  /\ IsProcess(Effect(p, call, result))
           /\ Effect(p, call, result).pid = p.pid
           /\ Effect(p, call, result).in_syscall = p.in_syscall
           /\ Effect(p, call, result).last_result = p.last_result
           /\ Effect(p, call, result).threads = p.threads
           /\ Effect(p, call, result).ppid = p.ppid
           /\ DOMAIN Effect(p, call, result).regions \subseteq DOMAIN p.regions \cup {result}
<1>1. result \in Number
  BY NumberAssumption
<1>2. CASE call.name = "openat"
  <2>1. IsDict(Put(p.fds, result, call.path), Number, Path \cup {None})
    BY <1>1, PutIsDict DEF IsProcess, EnterEvent
  <2>2. Effect(p, call, result) = [p EXCEPT !.fds = Put(@, result, call.path)]
    BY <1>2 DEF Effect
  <2> QED  BY <2>1, <2>2 DEF IsProcess
<1>3. CASE call.name = "close"
  <2>1. IsDict(Drop(p.fds, call.fd), Number, Path \cup {None})
    BY DropIsDict DEF IsProcess
  <2>2. Effect(p, call, result) \in {p, [p EXCEPT !.fds = Drop(@, call.fd)]}
    BY <1>3 DEF Effect
  <2> QED  BY <2>1, <2>2 DEF IsProcess
<1>4. CASE call.name = "mmap"
  <2> DEFINE length == IF Len(call.args) > 1 THEN call.args[2] ELSE 0
  <2>1. length \in Number
    BY NumberAssumption DEF EnterEvent
  <2>2. Effect(p, call, result) = [p EXCEPT !.regions = Put(@, result, length)]
    BY <1>4 DEF Effect
  <2> HIDE DEF length
  <2>3. IsDict(Put(p.regions, result, length), Number, Number)
    BY <1>1, <2>1, PutIsDict DEF IsProcess
  <2>4. DOMAIN Put(p.regions, result, length) = DOMAIN p.regions \cup {result}
    BY PutFacts
  <2> QED  BY <2>2, <2>3, <2>4 DEF IsProcess
<1>5. CASE call.name = "munmap"
  <2>1. IsDict(Drop(p.regions, call.args[1]), Number, Number)
    BY DropIsDict DEF IsProcess
  <2>2. Effect(p, call, result) \in {p, [p EXCEPT !.regions = Drop(@, call.args[1])]}
    BY <1>5 DEF Effect
  <2>3. DOMAIN Drop(p.regions, call.args[1]) \subseteq DOMAIN p.regions
    BY DEF Drop
  <2> QED  BY <2>1, <2>2, <2>3 DEF IsProcess
<1>6. CASE call.name = "execve"
  <2>1. call.path # None => call.path[Len(call.path)] \in Part
    BY PathAssumption DEF EnterEvent
  <2>2. \/ Effect(p, call, result) = p
        \/ /\ call.path # None
           /\ Effect(p, call, result) = [p EXCEPT !.name = call.path[Len(call.path)]]
    BY <1>6 DEF Effect
  <2> QED  BY <2>1, <2>2 DEF IsProcess
<1>7. CASE call.name \notin {"openat", "close", "mmap", "munmap", "execve"}
  BY <1>7 DEF Effect
<1> QED  BY <1>2, <1>3, <1>4, <1>5, <1>6, <1>7
-----------------------------------------------------------------------------
\* An ENTER is noted in its process and stays pending.
LEMMA EnterKeepsShape ==
    ASSUME Shape, NEW e \in EnterEvent, ApplyEnter(e)
    PROVE  Shape'
<1> DEFINE P == ProcessesWith(e.pid)
           i == InitialWith(e.pid)
           Q == PendingWith(e.pid)
           r == [P[e.pid] EXCEPT !.in_syscall = e.name]
<1>1. e.pid \in Pid /\ e.name \in CallName
  BY DEF EnterEvent
<1>2. Coherent(P, i, Q) /\ e.pid \in DOMAIN P
  BY <1>1, LookupIsCoherent
<1>3. /\ processes' = [P EXCEPT ![e.pid] = r]
      /\ pending' = Put(Q, P[e.pid].pid, e)
      /\ initialPid' = i
  BY DEF ApplyEnter
<1> HIDE DEF P, i, Q
<1>4. IsProcess(P[e.pid]) /\ P[e.pid].pid = e.pid
  BY <1>2 DEF Coherent
<1>5. IsProcess(r) /\ r.pid = e.pid /\ r.in_syscall = e.name
  BY <1>1, <1>4 DEF IsProcess
<1>6. /\ DOMAIN pending' = DOMAIN Q \cup {e.pid}
      /\ pending'[e.pid] = e
      /\ \A k \in DOMAIN Q \ {e.pid} : pending'[k] = Q[k]
  BY <1>3, <1>4 DEF Put
<1>7. IsDict(pending', Pid, EnterEvent)
  BY <1>1, <1>2, <1>3, <1>4, PutIsDict DEF Coherent
<1>8. DOMAIN pending' \subseteq DOMAIN P
  BY <1>2, <1>6 DEF Coherent
<1> HIDE DEF r
<1>9. Coherent([P EXCEPT ![e.pid] = r], i, pending')
  BY <1>2, <1>5, <1>6, <1>7, <1>8, RewriteIsCoherent
<1> QED  BY <1>3, <1>9 DEF Shape

\* What an EXIT makes of its process: no call, its value as the latest, and the
\* effect of the call if it paired and succeeded.
LEMMA ExitRewrites ==
    ASSUME Shape, NEW e \in ExitEvent, ApplyExit(e)
    PROVE  \E r : /\ IsProcess(r) /\ r.pid = e.pid /\ r.in_syscall = None
                  /\ e.result # None => r.last_result = e.result
                  /\ r.threads = ProcessesWith(e.pid)[e.pid].threads
                  /\ r.ppid = ProcessesWith(e.pid)[e.pid].ppid
                  /\ DOMAIN r.regions
                        \subseteq DOMAIN ProcessesWith(e.pid)[e.pid].regions \cup {e.result}
                  /\ processes' = [ProcessesWith(e.pid) EXCEPT ![e.pid] = r]
<1> DEFINE P == ProcessesWith(e.pid)
           Q == PendingWith(e.pid)
           proc == P[e.pid]
           paired == proc.pid \in DOMAIN Q /\ Q[proc.pid].name = e.name
           noted == [proc EXCEPT !.in_syscall = None,
                        !.last_result = IF e.result # None THEN e.result ELSE @]
           r == IF paired /\ e.result # None /\ e.result >= 0
                THEN Effect(noted, Q[proc.pid], e.result) ELSE noted
<1>1. e.pid \in Pid /\ e.result \in Result \cup {None}
  BY DEF ExitEvent
<1>2. Coherent(P, InitialWith(e.pid), Q) /\ e.pid \in DOMAIN P
  BY <1>1, LookupIsCoherent
<1>3. processes' = [P EXCEPT ![e.pid] = r]
  BY DEF ApplyExit
<1> HIDE DEF P, Q
<1>4. IsProcess(proc) /\ proc.pid = e.pid
  BY <1>2 DEF Coherent
<1>5. /\ IsProcess(noted) /\ noted.pid = e.pid /\ noted.in_syscall = None
      /\ e.result # None => noted.last_result = e.result
      /\ noted.threads = proc.threads /\ noted.regions = proc.regions
      /\ noted.ppid = proc.ppid
  BY <1>1, <1>4 DEF IsProcess
<1>6. /\ IsProcess(r) /\ r.pid = e.pid /\ r.in_syscall = None
      /\ e.result # None => r.last_result = e.result
      /\ r.threads = proc.threads /\ r.ppid = proc.ppid
      /\ DOMAIN r.regions \subseteq DOMAIN proc.regions \cup {e.result}
  <2>1. CASE paired /\ e.result # None /\ e.result >= 0
    <3>1. Q[proc.pid] \in EnterEvent
      BY <1>2, <2>1 DEF Coherent, IsDict
    <3>2. r = Effect(noted, Q[proc.pid], e.result)
      BY <2>1
    <3>3. e.result \in Result
      BY <1>1, <2>1
    <3>4. e.result >= 0
      BY <2>1
    <3> HIDE DEF noted, proc, r
    <3> QED  BY <1>5, <3>1, <3>2, <3>3, <3>4, EffectIsProcess
  <2>2. CASE ~(paired /\ e.result # None /\ e.result >= 0)
    <3>1. r = noted
      BY <2>2
    <3> QED  BY <1>5, <3>1
  <2> QED  BY <2>1, <2>2
<1>7. /\ r.threads = P[e.pid].threads /\ r.ppid = P[e.pid].ppid
      /\ DOMAIN r.regions \subseteq DOMAIN P[e.pid].regions \cup {e.result}
  BY <1>6
<1> HIDE DEF r, noted, proc
<1> QED  BY <1>3, <1>6, <1>7 DEF P

\* An EXIT clears its process's call and takes the pending ENTER if it pairs.
LEMMA ExitKeepsShape ==
    ASSUME Shape, NEW e \in ExitEvent, ApplyExit(e)
    PROVE  Shape'
<1> DEFINE P == ProcessesWith(e.pid)
           i == InitialWith(e.pid)
           Q == PendingWith(e.pid)
           proc == P[e.pid]
           paired == proc.pid \in DOMAIN Q /\ Q[proc.pid].name = e.name
<1>1. e.pid \in Pid
  BY DEF ExitEvent
<1>2. Coherent(P, i, Q) /\ e.pid \in DOMAIN P
  BY <1>1, LookupIsCoherent
<1>3. /\ pending' = IF paired THEN Drop(Q, proc.pid) ELSE Q
      /\ initialPid' = i
  BY DEF ApplyExit
<1>4. PICK r : /\ IsProcess(r) /\ r.pid = e.pid /\ r.in_syscall = None
               /\ processes' = [P EXCEPT ![e.pid] = r]
  BY ExitRewrites
<1> HIDE DEF P, i, Q
<1>5. proc.pid = e.pid
  BY <1>2 DEF Coherent
<1>6. /\ DOMAIN pending' \subseteq DOMAIN Q
      /\ \A k \in DOMAIN Q \ {e.pid} : k \in DOMAIN pending' /\ pending'[k] = Q[k]
  BY <1>3, <1>5 DEF Drop
<1>7. IsDict(pending', Pid, EnterEvent)
  BY <1>2, <1>3, DropIsDict DEF Coherent
<1>8. DOMAIN pending' \subseteq DOMAIN P
  BY <1>2, <1>6 DEF Coherent
<1> HIDE DEF proc, paired
<1>9. Coherent([P EXCEPT ![e.pid] = r], i, pending')
  BY <1>2, <1>4, <1>6, <1>7, <1>8, RewriteIsCoherent
<1> QED  BY <1>3, <1>4, <1>9 DEF Shape

\* A SPAWN gives the parent a thread, or the child a process of its own that
\* inherits the parent's name and a copy of its descriptors.
LEMMA SpawnKeepsShape ==
    ASSUME Shape, NEW e \in SpawnEvent, ApplySpawn(e)
    PROVE  Shape'
<1> DEFINE P == ProcessesWith(e.parent)
           i == InitialWith(e.parent)
           Q == PendingWith(e.parent)
           parent == P[e.parent]
           thread == [parent EXCEPT !.threads = @ \cup {e.child}]
           child == NewProcess(e.child, parent.name, parent.pid, parent.fds)
<1>1. e.parent \in Pid /\ e.child \in Pid
  BY DEF SpawnEvent
<1>2. Coherent(P, i, Q) /\ e.parent \in DOMAIN P
  BY <1>1, LookupIsCoherent
<1>3. /\ \/ processes' = [P EXCEPT ![e.parent] = thread]
         \/ processes' = Put(P, e.child, child)
      /\ pending' = Q
      /\ initialPid' = i
  BY DEF ApplySpawn
<1> HIDE DEF P, i, Q
<1>4. IsProcess(parent) /\ parent.pid = e.parent
  BY <1>2 DEF Coherent
<1>5. CASE processes' = [P EXCEPT ![e.parent] = thread]
  <2>1. /\ IsProcess(thread) /\ thread.pid = e.parent
        /\ thread.in_syscall = parent.in_syscall
    BY <1>1, <1>4 DEF IsProcess
  <2>2. /\ DOMAIN processes' = DOMAIN P /\ processes'[e.parent] = thread
        /\ \A k \in DOMAIN P \ {e.parent} : processes'[k] = P[k]
        /\ processes' = [k \in DOMAIN processes' |-> processes'[k]]
    BY <1>2, <1>5 DEF Coherent
  <2> HIDE DEF thread
  <2>3. Coherent(processes', i, Q)
    BY <1>2, <2>1, <2>2 DEF Coherent
  <2> QED  BY <1>3, <2>3 DEF Shape
<1>6. CASE processes' = Put(P, e.child, child)
  <2>1. IsProcess(child) /\ child.pid = e.child /\ child.in_syscall = None
    <3>1. /\ parent.name \in Part \cup {NoName} /\ parent.pid \in Pid \cup {0}
          /\ IsDict(parent.fds, Number, Path \cup {None})
      BY <1>4 DEF IsProcess
    <3>2. \A d : \A n \in Part \cup {NoName}, q \in Pid \cup {0} :
             IsDict(d, Number, Path \cup {None}) =>
                /\ IsProcess(NewProcess(e.child, n, q, d))
                /\ NewProcess(e.child, n, q, d).pid = e.child
                /\ NewProcess(e.child, n, q, d).in_syscall = None
      BY <1>1, NewIsProcess
    <3> HIDE DEF parent
    <3> QED  BY <3>1, <3>2
  <2> HIDE DEF child
  <2>2. /\ DOMAIN processes' = DOMAIN P \cup {e.child} /\ processes'[e.child] = child
        /\ \A k \in DOMAIN P \ {e.child} : processes'[k] = P[k]
        /\ processes' = [k \in DOMAIN processes' |-> processes'[k]]
    BY <1>6 DEF Put
  <2>3. Coherent(processes', i, Q)
    BY <1>1, <1>2, <2>1, <2>2 DEF Coherent
  <2> QED  BY <1>3, <2>3 DEF Shape
<1> QED  BY <1>3, <1>5, <1>6

\* A death removes a process and its pending ENTER, and the initial one's
\* pending ENTER only.
LEMMA DeathKeepsShape ==
    ASSUME Shape, NEW e \in DeathEvent, ApplyDeath(e)
    PROVE  Shape'
<1>1. e.pid \in Pid /\ e.pid # 0
  BY PidAssumption DEF DeathEvent
<1>2. pending' = Drop(pending, e.pid) /\ initialPid' = initialPid
  BY DEF ApplyDeath
<1>3. /\ DOMAIN pending' = DOMAIN pending \ {e.pid}
      /\ \A k \in DOMAIN pending \ {e.pid} : pending'[k] = pending[k]
  BY <1>2 DEF Drop
<1>4. CASE Unknown(processes, initialPid, pending)
  <2>1. processes' = Drop(processes, e.pid)
    BY <1>1, <1>4 DEF ApplyDeath, Unknown
  <2>2. processes' = processes
    BY <1>1, <1>4, <2>1 DEF Unknown, Drop
  <2>3. pending' = EmptyDict
    BY <1>2, <1>4 DEF Unknown, Drop, EmptyDict
  <2> QED  BY <1>2, <1>4, <2>2, <2>3 DEF Unknown, Shape
<1>5. CASE Coherent(processes, initialPid, pending)
  <2>1. IsDict(pending', Pid, EnterEvent)
    BY <1>2, <1>5, DropIsDict DEF Coherent
  <2>2. CASE e.pid = initialPid
    <3>1. processes' = processes
      BY <2>2 DEF ApplyDeath
    <3>2. Coherent(processes, initialPid, pending')
      BY <1>3, <1>5, <2>1, <2>2 DEF Coherent
    <3> QED  BY <1>2, <3>1, <3>2 DEF Shape
  <2>3. CASE e.pid # initialPid
    <3>1. processes' = Drop(processes, e.pid)
      BY <2>3 DEF ApplyDeath
    <3>2. /\ DOMAIN processes' = DOMAIN processes \ {e.pid}
          /\ \A k \in DOMAIN processes \ {e.pid} : processes'[k] = processes[k]
          /\ processes' = [k \in DOMAIN processes' |-> processes'[k]]
      BY <3>1 DEF Drop
    <3>3. Coherent(processes', initialPid, pending')
      BY <1>3, <1>5, <2>1, <2>3, <3>2 DEF Coherent
    <3> QED  BY <1>2, <3>3 DEF Shape
  <2> QED  BY <2>2, <2>3
<1> QED  BY <1>4, <1>5 DEF Shape
-----------------------------------------------------------------------------
\* The world starts as one of the two shapes.
LEMMA ShapeInit == WorldInit => Shape
<1> SUFFICES ASSUME WorldInit PROVE Shape
  OBVIOUS
<1> DEFINE r == NewProcess(INITIAL_PID, INITIAL_NAME, 0, EmptyDict)
<1>1. IsProcess(r) /\ r.pid = INITIAL_PID /\ r.in_syscall = None
  BY InitialAssumption, EmptyIsDict DEF IsProcess, NewProcess
<1>2. /\ processes = Put(EmptyDict, INITIAL_PID, r)
      /\ initialPid = INITIAL_PID
      /\ pending = EmptyDict
  BY DEF WorldInit
<1> HIDE DEF r
<1>3. /\ DOMAIN processes = {INITIAL_PID} /\ processes[INITIAL_PID] = r
      /\ processes = [k \in DOMAIN processes |-> processes[k]]
  BY <1>2, EmptyIsDict DEF Put
<1>4. CASE INITIAL_PID = 0
  BY <1>1, <1>2, <1>3, <1>4 DEF Unknown, Shape
<1>5. CASE INITIAL_PID # 0
  <2>1. INITIAL_PID \in Pid
    BY <1>5, InitialAssumption
  <2>2. Coherent(processes, initialPid, pending)
    BY <1>1, <1>2, <1>3, <2>1, EmptyIsDict DEF Coherent
  <2> QED  BY <2>2 DEF Shape
<1> QED  BY <1>4, <1>5

\* Whatever event is applied, the world keeps one of the two shapes.
LEMMA ShapeStep ==
    ASSUME Shape, NEW e \in EnterEvent \cup ExitEvent \cup SpawnEvent \cup DeathEvent, Apply(e)
    PROVE  Shape'
<1>1. CASE e.kind = "ENTER" /\ ApplyEnter(e)
  <2>1. e \in EnterEvent
    BY <1>1 DEF EnterEvent, ExitEvent, SpawnEvent, DeathEvent
  <2> QED  BY <1>1, <2>1, EnterKeepsShape
<1>2. CASE e.kind = "EXIT" /\ ApplyExit(e)
  <2>1. e \in ExitEvent
    BY <1>2 DEF EnterEvent, ExitEvent, SpawnEvent, DeathEvent
  <2> QED  BY <1>2, <2>1, ExitKeepsShape
<1>3. CASE e.kind = "SPAWN" /\ ApplySpawn(e)
  <2>1. e \in SpawnEvent
    BY <1>3 DEF EnterEvent, ExitEvent, SpawnEvent, DeathEvent
  <2> QED  BY <1>3, <2>1, SpawnKeepsShape
<1>4. CASE e.kind = "DEATH" /\ ApplyDeath(e)
  <2>1. e \in DeathEvent
    BY <1>4 DEF EnterEvent, ExitEvent, SpawnEvent, DeathEvent
  <2> QED  BY <1>4, <2>1, DeathKeepsShape
<1> QED  BY <1>1, <1>2, <1>3, <1>4 DEF Apply
-----------------------------------------------------------------------------
\* What an event may not change of a pid p: whether it has a process and a
\* pending ENTER, and which.
Untouched(p) ==
    /\ p \in DOMAIN processes <=> p \in DOMAIN processes'
    /\ p \in DOMAIN processes => processes'[p] = processes[p]
    /\ p \in DOMAIN pending <=> p \in DOMAIN pending'
    /\ p \in DOMAIN pending => pending'[p] = pending[p]

\* Looking a pid up touches no other.
LEMMA LookupTouchesOne ==
    ASSUME Shape, NEW pid \in Pid, NEW p, p # pid, p # 0
    PROVE  /\ p \in DOMAIN processes <=> p \in DOMAIN ProcessesWith(pid)
           /\ p \in DOMAIN processes => ProcessesWith(pid)[p] = processes[p]
           /\ p \in DOMAIN pending <=> p \in DOMAIN PendingWith(pid)
           /\ p \in DOMAIN pending => PendingWith(pid)[p] = pending[p]
<1>1. CASE Unknown(processes, initialPid, pending)
  <2>1. DOMAIN processes = {0} /\ DOMAIN pending = {} /\ Adopting
    BY <1>1, EmptyIsDict DEF Unknown, Adopting
  <2>2. ProcessesWith(pid) = Put(Drop(processes, 0), pid, [processes[0] EXCEPT !.pid = pid])
    BY <2>1 DEF ProcessesWith
  <2>3. DOMAIN ProcessesWith(pid) = {pid}
    BY <2>1, <2>2 DEF Put, Drop
  <2>4. PendingWith(pid) = pending
    BY <2>1 DEF PendingWith
  <2> QED  BY <2>1, <2>3, <2>4
<1>2. CASE Coherent(processes, initialPid, pending)
  <2>1. ~Adopting
    BY <1>2, PidAssumption DEF Coherent, Adopting
  <2>2. PendingWith(pid) = pending
    BY <2>1 DEF PendingWith
  <2>3. ProcessesWith(pid) \in
            {processes, Put(processes, pid, NewProcess(pid, NoName, 0, EmptyDict))}
    BY <2>1 DEF ProcessesWith
  <2> QED  BY <2>2, <2>3 DEF Put
<1> QED  BY <1>1, <1>2 DEF Shape
-----------------------------------------------------------------------------
\* A walk of n steps up the tree.
IsWalk(f, ppids, pid, n) ==
    f = [k \in 0..n |-> IF k = 0 THEN pid ELSE ParentOf(ppids, f[k - 1])]

\* There is a walk of any length: the longest one up to n goes a step further.
LEMMA WalkExists ==
    ASSUME NEW ppids, NEW pid, NEW n \in Nat
    PROVE  \E f : IsWalk(f, ppids, pid, n)
<1> DEFINE S == {m \in 0..n : \E f : IsWalk(f, ppids, pid, m)}
<1>1. 0 \in S
  <2> DEFINE f == [k \in 0..0 |-> pid]
  <2>1. f = [k \in 0..0 |-> IF k = 0 THEN pid ELSE ParentOf(ppids, f[k - 1])]
    OBVIOUS
  <2> HIDE DEF f
  <2>2. IsWalk(f, ppids, pid, 0)
    BY <2>1 DEF IsWalk
  <2> QED  BY <2>2
<1>2. S \in SUBSET (0..n) /\ S # {}
  BY <1>1
<1>3. PICK m \in S : \A j \in S : j <= m
  <2> HIDE DEF S
  <2> QED  BY <1>2, LastExists
<1>4. PICK f : IsWalk(f, ppids, pid, m)
  BY <1>3
<1>5. m \in 0..n
  BY <1>3
<1>6. ASSUME m < n PROVE FALSE
  <2> DEFINE g == [k \in 0..(m + 1) |-> IF k <= m THEN f[k] ELSE ParentOf(ppids, f[m])]
  <2>1. \A k \in 0..m : f[k] = IF k = 0 THEN pid ELSE ParentOf(ppids, f[k - 1])
    BY <1>4 DEF IsWalk
  <2>2. \A k \in 0..(m + 1) : g[k] = IF k = 0 THEN pid ELSE ParentOf(ppids, g[k - 1])
    <3> SUFFICES ASSUME NEW k \in 0..(m + 1)
                 PROVE  g[k] = IF k = 0 THEN pid ELSE ParentOf(ppids, g[k - 1])
      OBVIOUS
    <3>1. CASE k = 0
      BY <1>5, <2>1, <3>1
    <3>2. CASE k \in 1..m
      <4>1. k \in 0..m /\ k - 1 \in 0..(m + 1) /\ k - 1 <= m /\ k # 0
        BY <1>5, <3>2
      <4>2. g[k] = f[k] /\ g[k - 1] = f[k - 1]
        BY <1>5, <4>1
      <4> QED  BY <2>1, <4>1, <4>2
    <3>3. CASE k = m + 1
      <4>1. k - 1 = m /\ m \in 0..(m + 1) /\ ~(k <= m) /\ k # 0
        BY <1>5, <3>3
      <4>2. g[k] = ParentOf(ppids, f[m]) /\ g[k - 1] = f[m]
        BY <1>5, <4>1
      <4> QED  BY <4>1, <4>2
    <3> QED  BY <1>5, <3>1, <3>2, <3>3
  <2>3. g = [k \in 0..(m + 1) |-> g[k]]
    OBVIOUS
  <2> HIDE DEF g
  <2>4. IsWalk(g, ppids, pid, m + 1)
    BY <2>2, <2>3 DEF IsWalk
  <2>5. m + 1 \in S
    BY <1>5, <1>6, <2>4
  <2> HIDE DEF S
  <2> QED  BY <1>3, <1>5, <2>5
<1>7. m = n
  BY <1>5, <1>6
<1> QED  BY <1>4, <1>7

\* A box is some whole number of rows down, even where pids that came back make
\* a circle of the tree.
LEMMA DepthIsNat ==
    ASSUME NEW ppids, IsFiniteSet(DOMAIN ppids), NEW pid
    PROVE  DepthOf(ppids, pid) \in Nat
<1> DEFINE n == Cardinality(DOMAIN ppids)
           up == AncestorOf(ppids, pid)
           S == {k \in DOMAIN up :
                    /\ \A i \in 1..k : up[i] # 0
                    /\ \A i, j \in 0..k : up[i] = up[j] => i = j}
<1>1. n \in Nat
  BY FS_CardinalityType
<1>2. DOMAIN up = 0..n
  <2>1. PICK f : IsWalk(f, ppids, pid, n)
    <3> HIDE DEF n
    <3> QED  BY <1>1, WalkExists
  <2> QED  BY <2>1 DEF IsWalk, AncestorOf
<1>3. DepthOf(ppids, pid) = Max(S)
  BY DEF DepthOf
<1> HIDE DEF up, n
<1>4. 0 \in S /\ S \in SUBSET (0..n)
  BY <1>1, <1>2
<1> HIDE DEF S
<1>5. PICK m \in S : \A j \in S : j <= m
  BY <1>1, <1>4, LastExists
<1>6. m \in Nat /\ \A j \in S : j \in Nat
  BY <1>1, <1>4
<1>7. \E k \in S : \A j \in S : k >= j
  BY <1>5, <1>6
<1>8. Max(S) \in S
  BY <1>7 DEF Max
<1>9. Max(S) \in Nat
  BY <1>6, <1>8
<1> HIDE DEF S
<1> QED  BY <1>3, <1>9

\* The greater and the lesser of two numbers.
LEMMA MaxMin ==
    \A a, b \in Int : /\ Max({a, b}) = IF a >= b THEN a ELSE b
                      /\ Min({a, b}) = IF a =< b THEN a ELSE b
<1> SUFFICES ASSUME NEW a \in Int, NEW b \in Int
             PROVE  /\ Max({a, b}) = IF a >= b THEN a ELSE b
                    /\ Min({a, b}) = IF a =< b THEN a ELSE b
  OBVIOUS
<1>1. \A x \in {a, b} : (\A y \in {a, b} : x >= y) <=> x = IF a >= b THEN a ELSE b
  OBVIOUS
<1>2. \A x \in {a, b} : (\A y \in {a, b} : x =< y) <=> x = IF a =< b THEN a ELSE b
  OBVIOUS
<1> QED  BY <1>1, <1>2 DEF Max, Min

\* The slots and boxes of rows that hold up to WIDEST_ROW; a row that holds fewer
\* ends as far from the right edge as it begins from the left.
LEMMA RowFits ==
    ASSUME NEW n \in 1..WIDEST_ROW
    PROVE  LET slot == SlotOf(n)
           IN  /\ slot \in Nat /\ BoxWidth(slot) \in Nat
               /\ MIN_BOX_W <= BoxWidth(slot) /\ BoxWidth(slot) <= slot + BOX_GAP
               /\ ROW_X + (n - 1) * (slot + BOX_GAP) + BoxWidth(slot) <= WIDTH
               /\ n < WIDEST_ROW =>
                     ROW_X + (n - 1) * (slot + BOX_GAP) + BoxWidth(slot) <= WIDTH - ROW_X
<1> USE DEF WIDEST_ROW, SlotOf, ROW_W, ROW_X, WIDTH, BOX_GAP
<1> DEFINE w(slot) == LET least == IF 80 <= slot THEN 80 ELSE slot
                      IN  IF 24 >= least THEN 24 ELSE least
<1>1. \A slot \in Int : BoxWidth(slot) = w(slot)
  <2> SUFFICES ASSUME NEW slot \in Int PROVE BoxWidth(slot) = w(slot)
    OBVIOUS
  <2>1. Min({80, slot}) = IF 80 <= slot THEN 80 ELSE slot
    BY MaxMin
  <2>2. Min({80, slot}) \in Int
    BY <2>1
  <2>3. Max({24, Min({80, slot})}) = IF 24 >= Min({80, slot}) THEN 24 ELSE Min({80, slot})
    <3> DEFINE m == Min({80, slot})
    <3> HIDE DEF m
    <3>1. m \in Int
      BY <2>2 DEF m
    <3>2. Max({24, m}) = IF 24 >= m THEN 24 ELSE m
      BY <3>1, MaxMin
    <3> QED  BY <3>2 DEF m
  <2> QED  BY <2>1, <2>3 DEF BoxWidth, MIN_BOX_W, PROC_W
<1>2. n \in {1, 2, 3, 4, 5, 6, 7, 8, 9, 10}
  OBVIOUS
<1>3. /\ SlotOf(n) \in Int /\ SlotOf(n) >= 19 /\ (n - 1) * (SlotOf(n) + 6) + w(SlotOf(n)) <= 250
      /\ n < 10 => (n - 1) * (SlotOf(n) + 6) + w(SlotOf(n)) <= 244
  <2>1. CASE n = 1
    BY <2>1
  <2>2. CASE n = 2
    BY <2>2
  <2>3. CASE n = 3
    BY <2>3
  <2>4. CASE n = 4
    BY <2>4
  <2>5. CASE n = 5
    BY <2>5
  <2>6. CASE n = 6
    BY <2>6
  <2>7. CASE n = 7
    BY <2>7
  <2>8. CASE n = 8
    BY <2>8
  <2>9. CASE n = 9
    BY <2>9
  <2>10. CASE n = 10
    BY <2>10
  <2> QED  BY <1>2, <2>1, <2>2, <2>3, <2>4, <2>5, <2>6, <2>7, <2>8, <2>9, <2>10
<1> DEFINE slot == SlotOf(n)
<1> HIDE DEF SlotOf
<1>4. BoxWidth(slot) = w(slot)
  BY <1>1, <1>3
<1> QED  BY <1>3, <1>4 DEF MIN_BOX_W

\* The row of a process, how many boxes are in it and how many before its own.
RowOf(ppids, p) == {q \in DOMAIN ppids : DepthOf(ppids, q) = DepthOf(ppids, p)}
RowSize(ppids, p) == Cardinality(RowOf(ppids, p))
Before(ppids, p) == {q \in RowOf(ppids, p) : q < p}
Place(ppids, p) == Cardinality(Before(ppids, p))

Tree(ppids) ==
    IsFiniteSet(DOMAIN ppids) /\ DOMAIN ppids \subseteq Nat /\ Cardinality(DOMAIN ppids) # 1

\* The places of a row are counted from 0.
LEMMA PlaceInRow ==
    ASSUME NEW ppids, Tree(ppids), NEW p \in DOMAIN ppids
    PROVE  RowSize(ppids, p) \in Nat \ {0} /\ Place(ppids, p) \in 0..(RowSize(ppids, p) - 1)
<1> DEFINE row == RowOf(ppids, p)
           before == Before(ppids, p)
<1>1. row \in SUBSET (DOMAIN ppids) /\ p \in row
  BY DEF RowOf
<1>2. IsFiniteSet(row)
  BY <1>1, FS_Subset DEF Tree
<1>3. before \in SUBSET row /\ p \notin before
  BY <1>1 DEF Before, Tree
<1> HIDE DEF row, before
<1>4. /\ IsFiniteSet(before) /\ Cardinality(before) <= Cardinality(row)
      /\ Cardinality(row) # Cardinality(before)
  BY <1>1, <1>2, <1>3, FS_Subset
<1>5. Cardinality(row) \in Nat /\ Cardinality(before) \in Nat
  BY <1>2, <1>4, FS_CardinalityType
<1>6. /\ Cardinality(row) \in Nat \ {0}
      /\ Cardinality(before) \in 0..(Cardinality(row) - 1)
  BY <1>4, <1>5
<1> QED  BY <1>6 DEF row, before, RowSize, Place

\* Where the layout puts a box.
LEMMA BoxInItsRow ==
    ASSUME NEW ppids, Tree(ppids), NEW p \in DOMAIN ppids
    PROVE  LET slot == SlotOf(RowSize(ppids, p))
           IN  /\ DOMAIN BoxesOf(ppids) = DOMAIN ppids
               /\ BoxesOf(ppids)[p].x = ROW_X + Place(ppids, p) * (slot + BOX_GAP)
               /\ BoxesOf(ppids)[p].y = PROC_Y + DepthOf(ppids, p) * ROW_STEP
               /\ BoxesOf(ppids)[p].w = BoxWidth(slot)
               /\ BoxesOf(ppids)[p].h = TREE_BOX_H
<1> DEFINE depth == [r \in DOMAIN ppids |-> DepthOf(ppids, r)]
           Row(r) == {q \in DOMAIN ppids : depth[q] = depth[r]}
           BoxIn(row, r) ==
               LET slot == SlotOf(Cardinality(row))
               IN  [x |-> ROW_X + Cardinality({q \in row : q < r}) * (slot + BOX_GAP),
                    y |-> PROC_Y + depth[r] * ROW_STEP,
                    w |-> BoxWidth(slot), h |-> TREE_BOX_H]
<1>1. BoxesOf(ppids) = [r \in DOMAIN ppids |-> BoxIn(Row(r), r)]
  BY DEF BoxesOf, Tree
<1>2. Row(p) = RowOf(ppids, p) /\ depth[p] = DepthOf(ppids, p)
  BY DEF RowOf
<1> HIDE DEF Row, depth
<1>3. BoxesOf(ppids)[p] = BoxIn(RowOf(ppids, p), p)
  BY <1>1, <1>2
<1>4. DOMAIN BoxesOf(ppids) = DOMAIN ppids
  BY <1>1
<1>5. /\ SlotOf(Cardinality(RowOf(ppids, p))) = SlotOf(RowSize(ppids, p))
      /\ Cardinality({q \in RowOf(ppids, p) : q < p}) = Place(ppids, p)
  BY DEF RowSize, Place, Before
<1> QED  BY <1>2, <1>3, <1>4, <1>5

\* R12: a box of the first rows is above the boundary.
LEMMA BoxIsAbove ==
    ASSUME NEW ppids, IsFiniteSet(DOMAIN ppids), DOMAIN ppids \subseteq Nat,
           NEW p \in DOMAIN ppids, DepthOf(ppids, p) < ROWS_ABOVE
    PROVE  LET box == BoxesOf(ppids)[p]
           IN  box.y \in Nat /\ box.h \in Nat /\ PROC_Y <= box.y /\ box.y + box.h <= BOUNDARY_Y
<1> USE DEF PROC_Y, PROC_H, TREE_BOX_H, ROW_STEP, ROWS_ABOVE, BOUNDARY_Y
<1>1. CASE Cardinality(DOMAIN ppids) = 1
  <2>1. BoxesOf(ppids)[p] = LoneBox
    BY <1>1 DEF BoxesOf
  <2> QED  BY <2>1 DEF LoneBox
<1>2. CASE Cardinality(DOMAIN ppids) # 1
  <2> DEFINE box == BoxesOf(ppids)[p]
             d == DepthOf(ppids, p)
  <2>1. box.y = PROC_Y + d * ROW_STEP /\ box.h = TREE_BOX_H
    BY <1>2, BoxInItsRow DEF Tree
  <2>2. d \in Nat /\ d < ROWS_ABOVE
    BY DepthIsNat
  <2> HIDE DEF d, box
  <2>3. box.y \in Nat /\ box.h \in Nat /\ PROC_Y <= box.y /\ box.y + box.h <= BOUNDARY_Y
    BY <2>1, <2>2
  <2> QED  BY <2>3 DEF box
<1> QED  BY <1>1, <1>2

\* A box of a row that holds up to WIDEST_ROW is on the screen, and one of a row
\* that holds fewer is clear of both edges.
LEMMA BoxIsOnScreen ==
    ASSUME NEW ppids, IsFiniteSet(DOMAIN ppids), DOMAIN ppids \subseteq Nat,
           NEW p \in DOMAIN ppids, RowSize(ppids, p) <= WIDEST_ROW
    PROVE  LET box == BoxesOf(ppids)[p]
           IN  /\ box.x \in Nat /\ box.w \in Nat /\ ROW_X <= box.x /\ box.x + box.w <= WIDTH
               /\ RowSize(ppids, p) < WIDEST_ROW => box.x + box.w <= WIDTH - ROW_X
<1>1. CASE Cardinality(DOMAIN ppids) = 1
  <2>1. BoxesOf(ppids)[p] = LoneBox
    BY <1>1 DEF BoxesOf
  <2> QED  BY <2>1 DEF LoneBox, PROC_X, PROC_W, WIDTH, ROW_X
<1>2. CASE Cardinality(DOMAIN ppids) # 1
  <2> DEFINE box == BoxesOf(ppids)[p]
             n == RowSize(ppids, p)
             k == Place(ppids, p)
             step == SlotOf(n) + BOX_GAP
             w == BoxWidth(SlotOf(n))
  <2>1. Tree(ppids)
    BY <1>2 DEF Tree
  <2>2. n \in 1..WIDEST_ROW /\ k \in 0..(n - 1)
    BY <2>1, PlaceInRow DEF WIDEST_ROW
  <2>3. box.x = ROW_X + k * step /\ box.w = w
    BY <2>1, BoxInItsRow
  <2>4. /\ step \in Nat /\ w \in Nat /\ ROW_X + (n - 1) * step + w <= WIDTH
        /\ n < WIDEST_ROW => ROW_X + (n - 1) * step + w <= WIDTH - ROW_X
    BY <2>2, RowFits DEF BOX_GAP
  <2>5. n \in Nat /\ k \in Nat /\ k <= n - 1
    BY <2>2 DEF WIDEST_ROW
  <2> HIDE DEF box, n, k, step, w
  <2>6. k * step <= (n - 1) * step /\ k * step \in Nat /\ (n - 1) * step \in Int
    BY <2>4, <2>5
  <2>7. /\ box.x \in Nat /\ box.w \in Nat /\ ROW_X <= box.x /\ box.x + box.w <= WIDTH
        /\ n < WIDEST_ROW => box.x + box.w <= WIDTH - ROW_X
    BY <2>3, <2>4, <2>6 DEF ROW_X, WIDTH
  <2> QED  BY <2>7 DEF box, n
<1> QED  BY <1>1, <1>2
=============================================================================
