----------------------------- MODULE MCPlayback -----------------------------
\* Playback of a task that forks and of its child that reads, or of a task
\* alone that reads, with the real frame counts.
EXTENDS Playback, TLC

Returns == {0, -2}
NoPaths == {}
Args0 == {<<0>>}

CallsOf(pid, name, results) ==
    [kind : {"ENTER"}, pid : {pid}, name : {name}, path : {None}, fd : {None}, args : Args0]
    \cup [kind : {"EXIT"}, pid : {pid}, name : {name}, result : results]
    \cup [kind : {"DEATH"}, pid : {pid}]

Family == CallsOf(1, "fork", Returns) \cup CallsOf(2, "read", {0}) \cup [kind : {"SPAWN"}, parent : {1}, child : {2}]
Alone == CallsOf(1, "read", Returns)
=============================================================================
