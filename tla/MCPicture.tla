----------------------------- MODULE MCPicture ------------------------------
\* Picture over three kinds of worlds: any tree of up to SmallTree processes, a
\* child's pid above its parent's, or a root with up to Siblings children;
\* these with up to FewThreads threads in one process, MaxThreads if it is
\* alone; and the root alone with memory regions.
EXTENDS Picture, TLC

CONSTANTS SmallTree, Siblings, FewThreads, MaxThreads, MaxRegions

MCPid == 1..(Siblings + 1) \cup 101..(100 + MaxThreads)
MCResults == {0} \cup 1..MaxRegions
MCNumber == MCResults \cup {4096, CLONE_THREAD}
NoPaths == {}
TheArgs == {<<CLONE_THREAD>>, <<0, 4096>>} \cup {<<r>> : r \in 1..MaxRegions}

Enter(pid, name, args) ==
    [kind |-> "ENTER", pid |-> pid, name |-> name, path |-> None, fd |-> None, args |-> args]
Exit(pid, name, result) == [kind |-> "EXIT", pid |-> pid, name |-> name, result |-> result]

Forks == {e \in [kind : {"SPAWN"}, parent : 1..(Siblings + 1), child : 2..(Siblings + 1)] :
             e.parent < e.child /\ (e.child > SmallTree => e.parent = 1)}
NewThreads == [kind : {"SPAWN"}, parent : 1..(Siblings + 1), child : 101..(100 + MaxThreads)]
Deaths == [kind : {"DEATH"}, pid : 1..(Siblings + 1)]
Clones == {Enter(p, "clone", <<CLONE_THREAD>>) : p \in 1..(Siblings + 1)}
          \cup {Exit(p, "clone", None) : p \in 1..(Siblings + 1)}
Maps == {Enter(1, "mmap", <<0, 4096>>), Exit(1, "munmap", 0)}
        \cup UNION {{Exit(1, "mmap", r), Enter(1, "munmap", <<r>>)} : r \in 1..MaxRegions}

MCEvent == Forks \cup NewThreads \cup Deaths \cup Clones \cup Maps

Idle == \A p \in DOMAIN processes : processes[p].in_syscall = None
Threads == UNION {processes[p].threads : p \in DOMAIN processes}
Regions == DOMAIN processes[1].regions
Youngest == Max(DOMAIN processes)
InCall(name) == \E p \in DOMAIN pending : pending[p].name = name

\* A bigger tree is a root and its children, born in the order of their pids.
Grows(e) ==
    \/ e.kind = "DEATH" /\ e.pid \in DOMAIN processes /\ Youngest <= SmallTree
    \/ /\ e.kind = "SPAWN" /\ e.parent \in DOMAIN processes /\ e.child \notin DOMAIN processes
       /\ e.child > SmallTree =>
             DOMAIN processes = 1..(e.child - 1) /\ \A p \in 2..(e.child - 1) : ParentOf(Ppids, p) = 1

MCNext ==
    \/ Idle /\ Threads = {} /\ Regions = {} /\ \E e \in Forks \cup Deaths : Grows(e) /\ Apply(e)
    \/ Idle /\ Regions = {} /\ Apply(Enter(Youngest, "clone", <<CLONE_THREAD>>))
    \/ InCall("clone") /\ Cardinality(Threads) < (IF DOMAIN processes = {1} THEN MaxThreads ELSE FewThreads)
          /\ Apply([kind |-> "SPAWN", parent |-> Youngest, child |-> 101 + Cardinality(Threads)])
    \/ InCall("clone") /\ Apply(Exit(Youngest, "clone", None))
    \/ Idle /\ Threads = {} /\ DOMAIN processes = {1}
          /\ Cardinality(Regions) < MaxRegions /\ Apply(Enter(1, "mmap", <<0, 4096>>))
    \/ InCall("mmap")
          /\ Apply(Exit(1, "mmap", Cardinality(Regions) + 1))
    \/ Idle /\ Regions # {} /\ Apply(Enter(1, "munmap", <<Cardinality(Regions)>>))
    \/ InCall("munmap") /\ Apply(Exit(1, "munmap", 0))

MCSpec == WorldInit /\ [][MCNext]_worldVars
=============================================================================
