------------------------------- MODULE Panels -------------------------------
(***************************************************************************)
(* What render fits into a box and into kernel space: a marker for each    *)
(* thread (_draw_threads) and a block for each memory region of the        *)
(* initial process (_draw_regions).                                        *)
(***************************************************************************)
EXTENDS Layout

MARKER_STEP == 6
MARKER_RADIUS == 2
BLOCK == 6
BLOCK_GAP == 2
PAD == 4
FD_SEP_Y == FD_BAR_Y - 8
REGIONS_TOP == BOUNDARY_Y + 24

\* Mutant of MarkerFits: up to the box's edge.
MarkerReaches(cx, box) == cx <= box.x + box.w

MarkerFits(cx, box) == cx <= box.x + box.w - 4

\* The centres of the markers of so many threads in a box.
Markers(threads, box) ==
    {[x |-> cx, y |-> Min({box.y + box.h - 5, BOUNDARY_Y - 3})] :
        cx \in {c \in {box.x + 6 + i * MARKER_STEP : i \in 0..(threads - 1)} :
                   MarkerFits(c, box)}}

Columns == Max({1, (ZONE_W - 2 * PAD) \div (BLOCK + BLOCK_GAP)})

\* The block of the i-th region, and where it is drawn at all.
BlockOf(i) ==
    [x |-> zone_bounds("MEMORY").x + PAD + (i % Columns) * (BLOCK + BLOCK_GAP),
     y |-> REGIONS_TOP + (i \div Columns) * (BLOCK + BLOCK_GAP)]

Blocks ==
    {BlockOf(i) : i \in {j \in 0..(Cardinality(DOMAIN processes[initialPid].regions) - 1) :
                            BlockOf(j).y + BLOCK < FD_SEP_Y}}
=============================================================================
