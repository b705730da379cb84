---------------------------- MODULE WorldEvents -----------------------------
\* The World under any stream of well-formed events: World.apply is public,
\* and SPEC.md S0-S11 promise it copes with orphan, mismatched and unknown ones.
EXTENDS World

CONSTANT Event  \* the events it may be given

ASSUME EventAssumption == Event \subseteq EnterEvent \cup ExitEvent \cup SpawnEvent \cup DeathEvent

Next == \E e \in Event : Apply(e)

Spec == WorldInit /\ [][Next]_worldVars
-----------------------------------------------------------------------------
\* The pids an event speaks of, and the unknown pid it may fill in.
Concerned(e) ==
    (IF e.kind = "SPAWN" THEN {e.parent, e.child} ELSE {e.pid}) \cup {0}

(***************************************************************************)
(* An event changes nothing for the pids it does not speak of: neither     *)
(* their process (not even through a descriptor table inherited at a fork) *)
(* nor the ENTER they have pending, whatever interleaves (S9: per-pid      *)
(* pending-ENTER state, a copy of fds; model.py apply).                    *)
(***************************************************************************)
NoCrossTalk ==
    [][\A e \in Event : Apply(e) =>
          \A p \in (DOMAIN processes \cup DOMAIN processes') \ Concerned(e) :
             /\ p \in DOMAIN processes \cap DOMAIN processes'
             /\ processes'[p] = processes[p]
             /\ p \in DOMAIN pending <=> p \in DOMAIN pending'
             /\ p \in DOMAIN pending => pending'[p] = pending[p]]_worldVars

(***************************************************************************)
(* R14 "a clone-thread reads as one box gaining threads rather than a      *)
(* second box", S9 "a shared box": a thread shown inside its process does  *)
(* not get a process of its own.  But its own first call does that, as     *)
(* model.py _process_for knows nothing of threads.                         *)
(***************************************************************************)
ThreadsShareTheBox ==
    [][\A p \in DOMAIN processes : \A t \in processes[p].threads :
          t \notin DOMAIN processes => t \notin DOMAIN processes']_worldVars
=============================================================================
