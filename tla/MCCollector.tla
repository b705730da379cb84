---------------------------- MODULE MCCollector -----------------------------
\* The collector under a kernel that kills and reports in any order, and under
\* the kernel at its best.
EXTENDS Collector

Wild == [kills |-> TRUE, eventFirst |-> FALSE]
AtItsBest == [kills |-> FALSE, eventFirst |-> TRUE]
Unordered == [kills |-> FALSE, eventFirst |-> FALSE]

WildOrTame == {Wild, AtItsBest}
OnlyUnordered == {Unordered}
=============================================================================
