--------------------------- MODULE MCObservation ----------------------------
\* Observation on two pids and a few lines, with at most MaxQueue events
\* waiting in the Director.
EXTENDS Observation, TLC

CONSTANT MaxQueue

MCNames == 3 :> "close" @@ 257 :> "openat" @@ 56 :> "clone"
MCSysName(nr) == "sys_" \o ToString(nr)
MCCallNames == {"close", "openat", "clone", "sys_999", "?"}
Returns == {3}
ThePaths == {<<"etc", "a">>}
TheArgs == {<<3>>, <<65536>>}

MCWire ==
    {w \in [kind : {"ENTER"}, pid : Pid, nr : Nr, args : TheArgs,
            strings : {EmptyDict, 1 :> <<"etc", "a">>}] :
        /\ w.nr = 257 <=> w.strings # EmptyDict
        /\ w.nr = 56 <=> w.args = <<65536>>}
    \cup WireExit
    \cup {w \in WireSpawn : w.child # w.pid}
    \cup {w \in WireDeath : w.kind = "EXITED" <=> w.pid = 1}

MCNext ==
    \/ Len(queue) < MaxQueue /\ \E w \in Wire : Observe(w)
    \/ Show

MCSpec == Init /\ [][MCNext]_vars
=============================================================================
