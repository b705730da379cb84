------------------------------ MODULE Picture -------------------------------
(***************************************************************************)
(* What is drawn of the worlds a stream of events leads to: the boxes of   *)
(* the process tree, the threads in them, and the memory regions.          *)
(***************************************************************************)
EXTENDS Panels, WorldEvents

\* Two boxes, or two blocks, that share no pixel.
Apart(a, b) ==
    \/ a.x + a.w <= b.x \/ b.x + b.w <= a.x
    \/ a.y + a.h <= b.y \/ b.y + b.h <= a.y

\* The thread markers a box of least width holds, and the blocks of the zone.
LEAST_MARKERS == 3
MOST_BLOCKS == 63

(***************************************************************************)
(* R12 "a child box sits below its parent (by ppid)": in the next row and  *)
(* clear of its box, through forks, deaths and orphans, as long as the     *)
(* parent is drawn; a process without one is in the first row.             *)
(***************************************************************************)
ChildBelowParent ==
    LET boxes == Boxes
    IN  \A p \in DOMAIN boxes :
            LET parent == ParentOf(Ppids, p)
            IN  IF parent = 0 THEN boxes[p].y = PROC_Y
                ELSE /\ boxes[p].y = boxes[parent].y + ROW_STEP
                     /\ boxes[p].y >= boxes[parent].y + boxes[parent].h

(***************************************************************************)
(* R12 "siblings share a row" and "all boxes stay in userland, above the   *)
(* boundary": as long as no row holds more than WIDEST_ROW, every process  *)
(* has a box of its own that covers no other and is on the screen, however *)
(* rows fill up and empty; above the boundary in the first ROWS_ABOVE rows *)
(* (scene.py _layout).                                                     *)
(***************************************************************************)
BoxesApart ==
    LET boxes == Boxes
        Narrow == \A p \in DOMAIN boxes :
                     Cardinality({q \in DOMAIN boxes : boxes[q].y = boxes[p].y}) <= WIDEST_ROW
    IN  Narrow =>
          /\ \A p \in DOMAIN boxes :
                /\ boxes[p].x >= 0 /\ boxes[p].x + boxes[p].w <= WIDTH
                /\ DepthOf(Ppids, p) < ROWS_ABOVE => boxes[p].y + boxes[p].h <= BOUNDARY_Y
          /\ \A p, q \in DOMAIN boxes : p < q => Apart(boxes[p], boxes[q])

(***************************************************************************)
(* R14 "a marker per thread inside its box": all of them up to             *)
(* LEAST_MARKERS threads however narrow the box, and never one that sticks *)
(* out.  R10: a block for each region, up to MOST_BLOCKS, inside the MEM   *)
(* zone and clear of the FD bar (scene.py _draw_threads, _draw_regions).   *)
(***************************************************************************)
PanelsFit ==
    /\ \A p \in DOMAIN processes : DepthOf(Ppids, p) < ROWS_ABOVE =>
          LET threads == Cardinality(processes[p].threads)
              box     == Boxes[p]
          IN  /\ Cardinality(Markers(threads, box)) >= Min({threads, LEAST_MARKERS})
              /\ \A m \in Markers(threads, box) :
                    /\ m.x - MARKER_RADIUS >= box.x /\ m.x + MARKER_RADIUS < box.x + box.w
                    /\ m.y - MARKER_RADIUS >= box.y /\ m.y + MARKER_RADIUS < box.y + box.h
    /\ Cardinality(Blocks) =
          Min({Cardinality(DOMAIN processes[initialPid].regions), MOST_BLOCKS})
    /\ \A b \in Blocks :
          /\ HotZones(b.x) = {"MEMORY"} /\ HotZones(b.x + BLOCK - 1) = {"MEMORY"}
          /\ b.y > BOUNDARY_Y /\ b.y + BLOCK < FD_SEP_Y
=============================================================================
