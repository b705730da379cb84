----------------------------- MODULE MCSession ------------------------------
\* A session with a program of a few tasks that may be killed at any time.
EXTENDS Session

OnlyWild == {[kills |-> TRUE, eventFirst |-> FALSE]}
=============================================================================
