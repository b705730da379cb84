------------------------------- MODULE Layout -------------------------------
(***************************************************************************)
(* Where the boxes of the process tree are drawn (scene.py _layout): one   *)
(* row per depth in the tree, the boxes of a row side by side in the order *)
(* of their pids.                                                          *)
(***************************************************************************)
EXTENDS World, Subsystems, FiniteSets, FiniteSetsExt

PROC_X == 88
PROC_Y == 40
PROC_W == 80
PROC_H == 34
ROW_X == 6
ROW_W == WIDTH - 2 * ROW_X
BOX_GAP == 6
TREE_BOX_H == 28
ROW_STEP == 30
MIN_BOX_W == 24

\* The most boxes of least width that fit in a row, and the rows of boxes that
\* are above the boundary.
WIDEST_ROW == 10
ROWS_ABOVE == 3

\* All that the layout looks at: who there is, and whose child.
Ppids == [p \in DOMAIN processes |-> processes[p].ppid]

\* The parent a walk up the tree goes on to, 0 where it stops.
ParentOf(ppids, pid) ==
    IF pid \in DOMAIN ppids /\ ppids[pid] \in DOMAIN ppids THEN ppids[pid] ELSE 0

\* Mutant of DepthOf: the walk stops at the parent.
DepthOfParent(ppids, pid) == IF ParentOf(ppids, pid) = 0 THEN 0 ELSE 1

\* The pids met walking up from pid, at most one for each process.
AncestorOf(ppids, pid) ==
    LET up[k \in 0..Cardinality(DOMAIN ppids)] ==
            IF k = 0 THEN pid ELSE ParentOf(ppids, up[k - 1])
    IN  up

\* The hops up the tree before the walk ends or comes back to where it was.
DepthOf(ppids, pid) ==
    LET up == AncestorOf(ppids, pid)
    IN  Max({k \in DOMAIN up :
                /\ \A i \in 1..k : up[i] # 0
                /\ \A i, j \in 0..k : up[i] = up[j] => i = j})

SlotOf(n) == (ROW_W - (n - 1) * BOX_GAP) \div n

\* Mutant of BoxWidth: a crowded row does not narrow its boxes.
FullWidth(slot) == PROC_W

BoxWidth(slot) == Max({MIN_BOX_W, Min({PROC_W, slot})})

LoneBox == [x |-> PROC_X, y |-> PROC_Y, w |-> PROC_W, h |-> PROC_H]

\* What _layout returns.
BoxesOf(ppids) ==
    IF Cardinality(DOMAIN ppids) = 1
    THEN [p \in DOMAIN ppids |-> LoneBox]
    ELSE LET depth  == [p \in DOMAIN ppids |-> DepthOf(ppids, p)]
             Row(p) == {q \in DOMAIN ppids : depth[q] = depth[p]}
             BoxIn(row, p) ==
                 LET slot == SlotOf(Cardinality(row))
                 IN  [x |-> ROW_X + Cardinality({q \in row : q < p}) * (slot + BOX_GAP),
                      y |-> PROC_Y + depth[p] * ROW_STEP,
                      w |-> BoxWidth(slot), h |-> TREE_BOX_H]
         IN  [p \in DOMAIN ppids |-> BoxIn(Row(p), p)]

Boxes == BoxesOf(Ppids)

CenterOf(box) == box.x + box.w \div 2
=============================================================================
