------------------------------- MODULE MCDemo -------------------------------
\* The demo as it is shipped.
EXTENDS Demo

MCPid == {SHELL, CHILD}
MCCallName == {"openat", "read", "fork", "execve", "getdents64", "write", "wait4"}
MCPart == {"", "etc", "profile", "bin", "ls", ".", "sh"}
MCPath == {<<"", "etc", "profile">>, <<"", "bin", "ls">>, <<".">>}
MCArgs == {<<>>}
MCNumber == {0, 1, 3, 64, 512, CHILD}
=============================================================================
