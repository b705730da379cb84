# TLA+ models of fuddy-duddy

fuddy-duddy traces a program with ptrace, models what its syscalls mean, and
plays them back as an animation. These modules model that pipeline from the
tracer's `waitpid` loop to the frame that shows a result. TLC checks them on
small instances; TLAPS proves the safety properties, all but those of the scripted
demo, for every instance: any pids, calls, events, paths and lines, buffers, queues
and pipes of any length, any process tree.
Paths below are relative to the repository; the rules named
S0-S11, R1-R15, D1-D4 and P1-P4 are those of its `SPEC.md`.

    traced tasks --ptrace--> tracer.c --pipe--> live.py _pump --> wire, Decoder
                                                                     | feed   (pump thread)
                                                                  Director
                                                                     | poll   (display loop, per frame)
                            ScriptedSource --poll-->  App.step: World.apply, Scene.notify, Scene.step
                                                      App.commands: Scene.render (draw callback)

## 1. Inventory

| Component | Code | State | Operations |
| --- | --- | --- | --- |
| Collector | `collector/tracer.c` | where `main` is, `ntraced`, `initial_code`; the kernel's task states | first wait, `waitpid`, handle end / syscall stop / fork event, resume, leave the loop |
| Live pump | `src/fuddy_duddy/live.py` | the tracer's process, the pipe, a daemon thread | `start`; read a line, decode it, feed each event; `stop` |
| Wire protocol | `src/fuddy_duddy/wire.py` | none | `parse_line`: a line to one of five records |
| Decoder | `src/fuddy_duddy/decode.py` | `_pending`: pid to ENTER | `push` |
| Director | `src/fuddy_duddy/director.py` | `_queue`, `_last_release`, `_last_phase`, a lock | `feed`, `poll` |
| World | `src/fuddy_duddy/model.py`, `event.py` | `processes`, `_initial_pid`, `_pending` | `apply` for ENTER, EXIT, spawn and death |
| Scene | `src/fuddy_duddy/scene.py` | `_pulse`, `_rings`, `_splits`, `_rects`, `_result_shown_since`, the status line | `notify`, `step`, `render` |
| App | `src/fuddy_duddy/app.py` | `frame` | `step`, `commands` |
| Scripted source, demo | `source.py`, `__main__.py` | none | `poll` by frame modulo a period |
| Backend | `visualizer.py`, `render.py` | a window | `update` steps the App, `draw` draws its commands |
| Names and tables | `subsystems.py`, `results.py`, `errno_names.py`, `syscalls_x86_64.py` | none | lookups |

**Interactions.** The tracer and the pump share a pipe, which blocks the tracer
when full. The pump thread and the display loop share only the Director, under
its lock. The decoder reads lines when they arrive and the World applies the
same events when they are released, which can be much later; both keep a table
of ENTERs that wait for their EXIT. The Scene reads the World it is shown, and
its frame counts must agree with the Director's (`director.py:14-17`,
`scene.py:83`). `update` and `draw` are two callbacks of the window: the Scene is
stepped by one and rendered by the other, and a render leaves a record of the boxes
(`_rects`) that later events are placed by.

**What is hard here.**

* The kernel: stops of several tasks are reported in any order, a new task may
  run before its parent's fork event is handled, a task may be killed between
  `waitpid` and the requests that follow, and the reader may be slow.
* Two threads: feeds fall anywhere between polls.
* Two tables of pending ENTERs, apart by whatever the queue holds.
* A cache: the boxes of the latest render, read by events that come any number of
  frames after it.
* Per-pid state, one shared pulse: several tasks are inside calls at once and
  the Scene animates one.
* Time: holds, descents, returns and fades are frame counts that race each other.
* Ending: the viewer is closed or dies while the tracer is suspended, blocked on
  the pipe, or ending by itself.
* Long legal sequences: adoption of the first pid, deaths inside a call, reused
  pids, threads that become processes.

**What makes each part correct.** Collector: streams are well formed, births are
told once, no stop is lost, the loop ends, the exit code is the child's. Decoder and
World: the same pairs. Director: exactly once, in order, paced, no later than the
pacing asks. World: tables agree, events do not cross. Scene: pulses cross, wait, return and
settle in time, results appear after their pulse and fade, boxes form a tree and
are the kernel's tasks. Demo: it can be played for ever. Session: `stop` ends and
leaves nothing behind.
`PROJECT.json` lists each hazard at its line with the properties that cover it,
and says why when none does.

## 2. Modules

| Module | Models | Correspondence |
| --- | --- | --- |
| `PacedChannel` | P1 and P2 abstractly | what was sent and delivered, and frames left to wait |
| `Director` | `director.py` | `Feed`, `PollNothing`, `Release`: `feed` and the two ways `poll` returns. Each holds the lock throughout, so each is a step |
| `Pacing` | the two threads | `CollectorFeed` at any moment; `PollReleases` or `PollReturnsNothing`, then `Advance`, once a frame. `fed` and `log` are history |
| `PacingProofs` | | proofs about `Pacing` |
| `Events`, `Dict` | `event.py`, Python dicts | `Put` is `d[k] = v`, `Drop` is `d.pop(k, None)` |
| `World` | `model.py` | `ProcessesWith`, `PendingWith`, `InitialWith` are `_process_for`; `ApplyEnter`, `ApplyExit`, `ApplySpawn`, `ApplyDeath` the branches of `apply`; `Effect` is `_apply_effect` |
| `WorldEvents` | the World under any stream of events | one step per event |
| `InductionLemmas` | | induction and recursion over the numbers up to n, for the other proof modules |
| `WorldLemmas`, `WorldProofs` | | lemmas about dicts, the handlers of `World` and the boxes of `Layout`, which three proof modules use; proofs about `WorldEvents` and `Picture` |
| `Decoder` | `decode.py` | `Decoded` is the event `push` returns, `Push` what it remembers |
| `Observation` | pump, queue, display | `Observe` reads a line and feeds it; `Show` releases and applies |
| `ObservationProofs` | | proofs about `Observation` |
| `Subsystems` | `subsystems.py`, the geometry of `render.py` | `classify`, `zone_bounds`, `zone_center`; `HotZones` is the highlighting of `_draw_zones` |
| `Results` | `results.py`, `errno_names.py` | a token is a value and what it stands for |
| `Layout` | `scene.py` `_layout`, `_depth_of` | `Boxes` is what `_layout` returns; `BoxesOf` and `DepthOf` are functions of `Ppids`, all of the world that a layout looks at |
| `Panels` | `_draw_threads`, `_draw_regions` | `Markers` of a box, `Blocks` of the MEM zone |
| `Picture` | the panels drawn of any world | properties over `WorldEvents` |
| `Scene` | `scene.py` | `Notify*` are the branches of `notify`; `Step` is `step`, which leaves `rects` alone; `Render` is `render`, which sets nothing else; `NudgedBoxes` is where it draws |
| `Playback` | `app.py` with the Scene and the World, live | `Release` is the part of `App.step` up to `Scene.notify`, `Frame` the rest, or all of it when `poll` returns nothing; `Draw` is the draw callback, before any step or not at all |
| `PlaybackProofs` | | proofs about `Playback` |
| `Demo` | `run_demo`, `ScriptedSource`, the same App | `PollsEvent` or `PollsNothing`, then `Frame`; `Draw` as in `Playback`; `Due` is `poll`, `SCRIPT` the story |
| `Tracer` | `collector/tracer.c` and the kernel's ptrace | `Kernel(p)` is external; the disjuncts of `Main` are the branches of `main` |
| `Collector` | tracer, tasks, pipe, reader | `Read` is one line of `_pump` |
| `CollectorProofs` | | proofs about `Collector` in any regime, and with the kernel at its best |
| `Session` | `live.py`, `run_live`: viewer, pump and tracer as processes | `Start`, `Quit`, `WaitReturns`, `WaitTimesOut` are `start` and `stop`; `PumpEnds` the thread's end by an exception; `Crash` the viewer's end without `stop`; `Terminates`, `PipeBreaks` how signals end the tracer |
| `Wire` | the text of a line: `read_child_string` and the writes of `handle_syscall_stop`, `_pump`, `parse_line`, `unescape` | `ReadChunk` is one `process_vm_readv`; `WriteText` and `WriteNewline` are `fputs` and `fputc` on an unbuffered stderr; `ProgramWrites` is external; `ReadLine` is one round of the pump |
| `WireProofs` | | proofs about `Wire` |

`Pacing`, `WorldEvents`, `Observation`, `Playback`, `Demo`, `Collector`, `Session`
and `Wire` compose components. `MC*` modules give constants their values. An
operator whose comment says it is a *mutant* is a plausible bug in the definition
after it, kept to show that a property notices it; no specification uses one.

Three abstractions recur. Paths are sequences of their parts, with the basename
the last part. Syscalls that only touch `in_syscall` stand for each other.
The pulse's place is in thousandths of a pixel so that the easing curve is integer
arithmetic; ages are counted up to the first value the code no longer tells
apart.

`Playback` uses the Director in its abstract form: `wait`, as in `PacedChannel`,
instead of a queue. That is what the refinement of section 5 is for. Its
`Happens` is the kernel's side: a task is in one call at a time, forks inside a
`fork`, and may die at any time. An event may wait any number of frames beyond
the gap, since the traced program may be slow.

`Session` uses the tracer with the pipe as a count of lines. Whether closing the
window reaches the `finally` of `run_live` depends on how the backend quits, so
both are there: `Quit` runs `stop`, `Crash` does not.

## 3. Runs

| Run | Distinct states | Question |
| --- | --- | --- |
| `pacing` | 565,919 | Is the Director a paced FIFO channel however feeds fall between polls? |
| `world` | 31,650 | Do the World's tables agree under any stream of events, and does an event stay with its pids? |
| `observation` | 979,209 | Do the decoder and the World pair the same calls, whatever the wire carries? |
| `playback` | 2,531,502 | With two tasks, one the child of the other, and draws skipped at will: is what is drawn what the kernel has, do pulses start at their box, cross, wait, return and settle in time, are result and status those of the last call? |
| `picture` | 14,944 | Do trees, crowded rows, threads and regions stay inside their frames, apart and on the screen? |
| `demo` | 12,358 | Is every round of the story like the first, with its moments legible and its status line right? |
| `collector` | 1,327,902 | With kills at any moment and stops in any order, are streams well formed, births told once, no stop lost, and does the tracer end? Without them, are exit code and stream ends as promised? |
| `session` | 54,754 | Does `stop` always end, with everything gone, and does a dead viewer take the tracer with it? |
| `wire` | 720,728 | Does a path come back as it was, or cut where it must be, and which lines can the program's own stderr spoil? |
| `world_threads` | violation | R14: a thread gets a second box |
| `playback_fades` | violation | R6: a failure stays beyond its budget |
| `collector_code` | violation | the tracer ends early with the initial child alive |

**Bounds, and why they are enough.**

* `pacing`: one event of each phase, four feeds up to frame 4, gaps of 2 and 4
  frames. The Director compares gaps only with elapsed frames, so what matters is
  that a poll can be early, exact and late and that feeds arrive before, during
  and after a gap; all happen. The proofs cover all gaps. `MCNext` bounds frames
  at a point where everything fed can have been released.
* `world`: two pids, with the initial one unknown, so adoption is included. One
  call of each kind with an effect, split between the pids; successes, failures
  and `None` results; EXITs also under the name `?`. Two pids suffice for cross
  talk, and the proofs cover any number.
* `observation`: two pids, up to two events queued, known and unknown numbers,
  every line kind. Depth two is enough for an ENTER and its EXIT, or an ENTER and
  a death, both to be waiting.
* `playback`: the code's own frame counts. Every age saturates, so the run is
  finite without a bound on time. `MaxQuiet` is where the history counter stops,
  past every threshold the properties mention. Task 1 forks again and again, and
  a fork may fail; task 2 is its child, reads, dies and comes back; both may die in a
  call. `Draw` may come before any frame, so a render is any number of frames old when
  an event is placed by it. `behind` counts the frames since the boxes drawn are not
  those of the world any more.
  `STATUS_TTL` is 0, as no property here looks at whether the line is still
  drawn; `demo` has the code's 90. `playback_fades` is one task that reads, with a
  counter up to `MaxResultAge`, the budget.
* `picture`: any tree of up to six processes, a child's pid above its parent's, so
  depths reach 5 and rows below the boundary occur; a root with up to eleven
  children, one more than a row holds; up to four threads in one process of these,
  one more than the narrowest box shows, and thirteen in a process alone; and up to
  65 regions, two more than the zone shows. `BoxesApart` speaks of rows of at most
  `WIDEST_ROW` and, for the boundary, of the first `ROWS_ABOVE` rows: section 6 says
  why.
* `demo`: the code's script and frame counts, four rounds; frames then go on
  modulo the last round, so the run covers any number of them.
* `collector`: three tasks, two for the violation, a pipe of two lines so the
  tracer does block, pids not reused. Three tasks allow a grandchild and two
  children. `regime` is chosen at the start: `kills` says tasks may be killed from
  outside, `eventFirst` that a new task reports nothing before its parent's fork
  event. `TypeOK`, `StreamsWellFormed`, `NoStopForgotten`, `BirthsToldOnce` and `TracerEnds`
  hold in the wildest regime; `ExitCodeMirrored` and `StreamsEnd` say `Tame`, the kernel
  at its best. The kernel does not promise `eventFirst`, but a tracer usually sees it
  so. Without it `collector_code` shows what happens.
* `session`: two tasks and a pipe of one line: a tracer that blocks, that is
  suspended, and that ends by itself meets a viewer that quits, crashes or stops
  reading, at every step. The wild regime contains the others.
* `wire`: paths of up to four bytes out of a letter that is also a hexadecimal
  digit, `%` and the space; pages of two bytes of which none to all are readable; a
  buffer of four bytes and one of seven for the escaped text, so that paths cross
  pages, end before a NUL, and are cut by either buffer, also inside what would be
  an escape. Two lines, an ENTER and an EXIT, with the program writing whole lines
  and parts of lines at any moment. Parts in a row count as one, and the pipe has
  room for the longest line, since the pump holds an unfinished line itself.

Deadlock is checked in every run. The stuttering steps that let a bounded system
rest are explicit: the last disjuncts of `MCPacing!MCNext`, `Collector!Next` and
`Session!Next`.

## 4. Fairness

* `Pacing`: weak fairness of the display loop's three steps: pyxel calls `update`,
  and so `App.step`, for ever. Nothing is assumed of the pump thread or of the
  traced program.
* `Collector`: weak fairness of `Main` and of `Read`, two loops that run whenever
  they can, and of the kernel finishing a fork it began. No call is assumed to
  return: `TracerEnds` starts from all tasks having ended.

* `Session`: weak fairness of the tracer's steps while it runs, of SIGPIPE and
  SIGTERM reaching a tracer that runs, of a fork the kernel began, and of `stop`
  going on after `wait` returns or times out. Nothing says that the pump reads, that
  anyone resumes a suspended tracer, or that the user quits. Each is weak: a pending
  SIGTERM is only taken away by job control stopping the tracer again, and then the
  timeout of `stop` is what ends it.

`WorldEvents`, `Picture`, `Observation`, `Playback`, `Demo` and `Wire` state safety
only.

## 5. Proofs

A theorem has the form `Spec => []P`, or `Spec => P` for an action property, and
states a property of a run, for all values of the constants (`PulsesComeHome` states
the half of one). Where a property is only true while trees have some form, the theorem says
so: `Spec /\ []H => []P`, with `H` one of `Shallow`, `Narrow`, `Roomy` and `BornOnce`, or
`Spec => [](Acyclic(Ppids) => P)`. As a behaviour may stutter for ever after any of its steps,
the former says that `P` is true for as long as `H` has been. Each `H` is about the tree that
the tasks make and not about what the code does with it, section 6 says what happens without
it, and the instances of the runs satisfy it. Each proof has an inductive invariant, which says why
the property holds; TLC finds each of them true on the instance of its run.

| Module | Theorems | From |
| --- | --- | --- |
| `PacingProofs` | `TypeCorrect`, `FifoCorrect` (P1), `PacingCorrect` (P2), `PromptCorrect`, `DirectorImplementsChannel` | `IndInv` |
| `WorldProofs` | `WorldTypeCorrect`, `TablesCorrect`, `EventsDoNotCross` | `Shape` |
| | `BoxesStayApart`, `MarkersAndBlocksFit`, `ChildrenAreBelow`, `ChildrenOfGrowingPids` | `Finite`, `Younger` |
| `ObservationProofs` | `OnlyEventsArrive`, `TheWorldCatchesUp`, `NamedExitsPair` | `Inv` |
| `CollectorProofs` | `TypesHold`, `NoStopIsForgotten`, `StreamsAreWellFormed`, `BirthsAreToldOnce` | `Inv`, `Streams`, `Births` |
| | `ExitCodeIsTheChilds`, `EveryStreamEnds` | `TameInv` |
| `PlaybackProofs` | `BoxesTrue`, `StatusTellsTheCall`, `LastEnterIsShown`, `PulsesComeHome`, `DescentIsUndisturbed`, `PulsesStartAtTheirBox`, `ResultsStand` | `Mirror`, `Flight`, `Held`, `FromItsBox`, `Landing` |
| | `ScreenSettles`, `SceneTypeCorrect`, `NudgesStayOnScreen` | `Settled`, `Fits`, `SplitsApart` |
| `WireProofs` | `WireTypeCorrect`, `PathsComeBack`, `LinesAreReceived` | `IInv` |

**Director.** For any sets of events and gaps with
`0 < MIN_GAP_FRAMES < ENTER_HOLD_FRAMES` (`GapsAssumption`). `IndInv` is the
conjunction of the four invariants and two more:

* `LastInv`: `_last_release` and `_last_phase` are those of the last log entry.
  `poll` decides by its own two fields, `Paced` and `Prompt` speak of the log.
* `HeadInv`: the head of the queue is not yet overdue. `Prompt` only says so
  once an event was released; without it a poll that had waited too long would be
  a state the induction has to allow.

The refinement maps `wait` to what is left of the last gap, a feed to `Send`, a
release to `Deliver`, a frame to `FramePasses`; an empty poll is a stutter.

**World.** For any pids, calls, paths and any stream of events. `TypeOK /\
TablesAgree` is inductive, but adoption makes a direct induction awkward: the
handler's lookup first replaces the process of pid 0 by one of a known pid. So the
invariant is split into its two shapes, `Unknown` (nothing was seen yet) and
`Coherent` (the initial pid is known). `LookupIsCoherent` says the lookup takes either
shape to a `Coherent` world; then one lemma per handler keeps it `Coherent`.
`EventsDoNotCross` needs the same facts plus which keys each handler writes
(`LookupTouchesOne`, `ApplyTouchesConcerned`). These lemmas are in `WorldLemmas`; the
proofs about `Observation` and `Playback` rest on them too.

**Decoder ahead of the world.** For any lines of the wire types, in any order, and
a queue of any length. `WorldCatchesUp` and `EveryNamedExitPairs` are not inductive
one by one. Applying an EXIT clears the pending ENTER only if the names match, which is
what the second says of the head of the queue; a line read now yields the right name
because of the first. `Inv` is both with the types and `Shape`: without it the
lookup of an unknown pid might take a pending ENTER with it. `NameAfter` picks the last
queued event that touches a pid, so the proof is about that greatest index before and
after a prefix is extended (`OneMore`) or the head applied (`FirstApplied`).

**Collector.** For any finite set of pids (`PidAssumption`: the kernel has a greatest
pid), calls, pipe size and regime.

* `Inv` adds to the types what the loop holds in hand (`LoopOK`) and `CountBound`:
  the tasks `ntraced` counts exist, beside those whose fork is reported and not yet
  counted. That a count of tasks stays between none and all of them is the hard part of
  `TypeOK`: it needs the forks in flight to have different children still uncounted.
* `Streams` speaks of every line in the pipe: each is allowed by the one of its pid
  before it, or by what the reader noted (`FirstAllowed`, `NextAllowed`), and the last
  one fits where the task is (`QuietFits`, `LastFits`). The property only looks at the
  head of the pipe. `Fits` is where a kill between `waitpid` and the handler's requests
  shows: a zombie may have said anything but its end.
* `NoStopForgotten` is inductive with `Inv`.
* `Births` is `BirthsToldOnce` with what an unhandled fork is: its child exists, no line
  names it, and no other unhandled fork is of the same child. A fork begins with a child
  that no line can name yet (`BirthsForks`), a SPAWN takes one child away from those to
  be told (`BirthsForkEvent`), and a fork that is dropped unhandled costs a task:
  `DeathsCount` counts the children lost by the tasks that died. No regime is assumed.
* `TameInv` holds under `Tame`, as the two properties say it: every pid that is not
  named by a SPAWN, read or in the pipe, has not moved, and its parent's fork is still to
  be handled (`Fresh`); `ntraced` is exactly the number of named tasks whose end was not
  handled (`ExactCount`). So the loop does not end before the last task
  (`NobodyLeftBehind`), and both `ExitCodeMirrored` and `StreamsEnd` follow. Without
  `eventFirst` `Fresh` fails first, as `collector_code` shows.

**Viewer.** For any tasks, calls and paths, any released events, gap and hold.
`RootAssumption`, `ReleasedAssumption` (an EXIT has a value, as `decode.py` gives it),
`FramesAssumption`, and `NoCallAssumption` and `NoPulseAssumption`, which say that
`None` is not a record.

* `Mirror`: the kernel's table of calls and the world's agree, and the ENTER of a
  call in progress is pending, so that its EXIT pairs and a `fork` is not taken for a
  thread's `clone`. `BoxesTellTheTruth` is a part of it.
* `Flight`: while a pulse descends or returns, its step is the number of frames since
  the last syscall event, and its height is the easing curve at that step; what kind
  of event was last says which way it goes. So the pulse is below the boundary from
  the tenth frame on (`BelowFromTheTenth`), waits from `DESCEND_FRAMES`, and is home
  `RETURN_FRAMES` after an EXIT whatever came before (`PulsesComeHome`).
* `Held`: while a pulse descends the Director's `wait` is the hold less the
  pulse's step. `DescentIsUndisturbed` therefore has the hypothesis
  `ENTER_HOLD_FRAMES >= DESCEND_FRAMES`; it is the relation that `director.py:17` relies
  on, 20 against 18 in the code, and the property is false without it.
* `FromItsBox`: the boxes drawn last are those of the world, or none was drawn and
  there is one process, or they went out of date with the last release, and then
  the frames they have been so and the `wait` that is left make up a gap
  (`RecordOfBoxes`). So at the next release either they were drawn again or they
  have been behind for `MIN_GAP_FRAMES` frames, which the property excludes; and an
  ENTER moves no box itself (`EnterKeepsBoxes`). The hypotheses are `MaxQuiet # 0`,
  that the history counter counts at all, and `MIN_GAP_FRAMES <= ENTER_HOLD_FRAMES`.
* `Landing`: from the EXIT on, the result is in the world, and after the landing the
  age of what is shown is the time since. `ResultHypothesis` says that the
  counter goes past the thresholds and that no task is born with the pid of the
  initial process, which would have its box overwritten by the SPAWN.
* `Settled`: a ring below the boundary came with the last EXIT or before it, so it is at
  least as old as the count of quiet frames, and a ring lasts ten. The other rings are
  poofs, where a box was, and the marks of pulses that cross the boundary or land.
  `ScreenSettles` has the hypothesis `Shallow`, at most `ROWS_ABOVE` rows: the
  poof of a box of the fourth row is below the boundary whenever its task ends.
* `Fits`: the pulse is between the ends of its way, as the easing never overshoots
  (`EasedBetween`, an inequality between cubes), and what starts where a box or a pulse is
  starts on the screen. `SceneTypeCorrect` has `Shallow` and `Narrow`, at most `WIDEST_ROW`
  boxes in a row, because the boxes of wider rows leave the screen.
* `SplitsApart`: no two splits have the same parent. A task that forked must be let return,
  and its next call be entered and held, before it can fork again; `LeastAge` says how old
  its last split is at each of these points, and `Spaced` that it is. When the hold and two
  gaps are no shorter than a split (`NudgeHypothesis`, 32 frames against 24), the last split is
  over by the next fork. Then a box is nudged once each way at most, and `OffsetFits` bounds
  the sum by the six pixels of the margin. `NudgesStayOnScreen` has `Roomy`, fewer than
  `WIDEST_ROW` boxes in a row, and `BornOnce`, no pid born twice within a split's frames:
  section 6 says what happens otherwise.

**Picture.** For any stream of events, so for any tree, pids that come back and cycles
of parents among them. `Finite`: finitely many processes, each with finitely many threads and
regions. The layout is a function of `Ppids`. `WalkExists` shows that the recursive
function that walks up the tree is defined, `DepthIsNat` that it gives a depth;
`PlacesDiffer` that the boxes of a row have different places, `RowFits` that up to ten
of them fit between the margins, each clear of the next. `MarkersFit` and `BlocksFit`
count the markers and blocks drawn. `ChildBelowParent` is false where pids that
came round make a cycle of parents (section 6), so it is proved in two steps.
`ChildrenAreBelow` says that it holds in every state where nobody is an ancestor of
its own, which `Acyclic` states as a rank that falls at every step up: then a walk meets
nobody twice and is over in time (`WalkDescends`, `WalkEnds`), and a child's walk is its
parent's one step later (`WalkAhead`). `ChildrenOfGrowingPids` says that there is no other
state while children have higher pids than their parents (`PidsGrow`), by `Younger`. Linux
hands out growing pids until they come round, and so does the run.

**Wire.** For any bytes but NUL (`ByteAssumption`), pages, buffers, pipes and numbers of lines
(`SizeAssumption`: a page has a byte, `buf` room for one and a NUL, `out` room for a NUL, the pipe
for the four pieces of the longest line), and whatever the program writes, as
long as it is not itself shaped like an event (`NoiseAssumption`). `NoneAssumption` says
that `None` is no byte, text or line.

* The escaping. `UnescapeAppends`: what unescape reads from a token followed by the escape
  of one byte is what it reads from the token, followed by the byte. So unescape undoes
  `Escape` whatever the bytes (`EscapeFacts`); and when `out` is too small, what comes back is
  the longest start of the bytes whose escape, `Width`, fits: no escape is cut in two.
* `Read`: what is in `buf` is the start of the path in memory, up to the first page that
  cannot be read. A read that stops at the end of a page starts the next one
  (`SamePage`), so it is the longest such start that `buf` holds.
* `Turns`, `Pieces`: where the tracer is, and which pieces of its last line are in the pipe;
  the lines in the pipe follow those received.
* `Neat`, `Passed`, `Kept`: a line of the pipe that is not in `spoiled` has no piece of the
  program's in front of its text or before its newline, so the pump cuts it where
  the tracer did and reads what it wrote; and it is in `received`, once and in its place.

**Induction.** The library's induction theorems speak of operators, which the provers cannot
instantiate. `InductionLemmas` has them for sets of numbers instead, from the
well-foundedness of the subsets of a finite set: `LastExists` (such a set has a greatest
element), `Climb` (what holds of 0, and of i + 1 when of i, holds up to n) and `Recursion` (a function
each of whose values is given by those before it exists). With these the recursive functions
of the models are shown to be defined, and what they compute is proved: the walk up the tree,
`Escape` and `Unescape`, the ageing of effects and the sum of nudges.

**Only model-checked:**

* Liveness: `EveryEventReleased`, `TracerEnds`, `StopEndsAll`, `CrashIsNoticed`. Fairness
  and ENABLED are out of the provers' reach.
* `Demo`: `RoundsAlike`, `MomentsLegible` and `StatusTold` are about one script played frame by
  frame. A proof would be its 405 frames written out, which TLC does.

## 6. Where the code and its documents differ

Each of the first three is a run that TLC refutes.

* A thread that makes a call of its own gets a process, and so a second box,
  because `model.py:79` looks only at `processes` (R14, S9).
* A failed result fades 30 frames after its pulse lands, but an EXIT followed
  closely by an ENTER has its pulse replaced and never lands: the failure stays
  on screen while the next call blocks (R6, `scene.py:434`).
* A new task may run and end before its parent's fork event is handled. Then
  its end is counted before its birth, `ntraced` reaches 0, the loop ends while
  the initial child is alive, `PTRACE_O_EXITKILL` kills it, and `main` returns 0
  (`tracer.c:249`, "The tracer's exit code mirrors the initial child's").

Met while modelling, and modelled as the code has it, without a run:

* There is one pulse for all processes, so a blocked call of one task loses its
  label when another enters a call, and the EXIT of one takes the other's pulse
  home (R4, `scene.py:177`). `LastEnterShown` says what holds: the last ENTER is
  the one that is shown.
* A failed result whose EXIT finds no pulse never lands, so it is faded or not by
  the time of an earlier landing and may never be seen (R6, `scene.py:433`).
* A call that is in no zone waits at x = 128, which is the PROC zone, and lights
  its label; `subsystems.py:5` says it "does not target a labeled zone".
* SPEC.md:18 says that `render` is pure and may be called at any time. It records the
  boxes it lays out in `_rects` (`scene.py:320-322`), by which `notify` places pulses
  and poofs (`scene.py:170`, `395-402`). When boxes moved and no frame was drawn for
  `MIN_GAP_FRAMES` frames or more, the next pulse starts at the old place of its box,
  or at that of a lone box when its box was never drawn, and a box that ends undrawn
  has no poof. `tests/helpers.py:38-40` steps all its frames with one render at the end.
  `PulseFromItsBox` says how often one must draw.
* A pulse returns to where its box was at the ENTER; if boxes moved meanwhile that
  is not where its box is (`scene.py:240`).
* Each nudge is at most 6 pixels, as is the left margin, and they add up: it is the
  pacing that keeps the splits of one process from pushing its box off the screen
  (`NudgedOnScreen`). In a row of ten the right margin is one pixel, and the tenth child
  leaves the screen at its first nudge (`scene.py:386-391`). A pid that is given again
  while the split it was born in lasts, to the child of another task, is nudged twice.
* A tracer that is killed before PTRACE_SETOPTIONS lets its child run on
  (`tracer.c:233`); SPEC.md says nothing about it.
* S3 says an EXIT with `result=None` is recorded verbatim; `model.py` keeps the
  previous `last_result` then.
* S0 says the first applied event adopts its pid; a death does not (`model.py:123-131`).
* R5 says a value is never visible before its pulse is back; when an ENTER
  replaces a returning pulse the value shows while the new one descends.
* R11 speaks of the most recent completed syscall; with several tasks the status
  line takes name and argument from whatever pulse there is (`scene.py:203`).
* R12 says all boxes stay above the boundary; the fourth row is at y = 130, below
  `BOUNDARY_Y` = 128, and rows of more than ten boxes overlap (`scene.py:386-391`).
* R12 says a child's box is below its parent's. A child can be given a pid that its
  dead grandparent had: when 5 is the child of 3, 3 ends and 5 forks a new 3, each is
  the other's parent, the walk in `_depth_of` stops where it comes back, and both are in
  one row (`scene.py:361-371`).
* SPEC.md says a SPAWN comes before any of the child's events: `tracer.c:250`
  cannot promise it, and a SPAWN that comes later overwrites what the child did before
  (`model.py:146`). What it does promise is `BirthsToldOnce`. It says each ENTER is immediately followed by its EXIT for
  that pid; a SPAWN comes between. It says each stream ends with EXITED or
  SIGNALED; when the count of tasks is wrong a stream is cut.
* `live.py:4-5` says the child's own stderr passes through to the terminal; it
  inherits the pipe the events go through, so the pump drops what it says, and
  text without a newline spoils the next event. `LinesComeThrough` says which.
* `clone3` is not looked at for `CLONE_THREAD`, so threads made by it are children.
* SPEC.md describes the scripted demo as `cat README.md`; `__main__.py` plays `sh`
  and `ls`.

## 7. Not modelled

* What the backend makes of a list of commands, and its keys. The command line in `main`.
* That a child's copy of its parent's descriptors is a copy (`model.py:150`): values of
  a model are never shared.
* In the Scene: the descriptor bar, which is a row of labels as wide as their text;
  trails, the idle wobble and ripple, the dashes and colors. They change no state
  and depend on nothing that is not modelled.
* The wording of results, and the generated table of syscall numbers, which is a
  constant of `Decoder`.
* The numeric fields of wire lines, their order, and the register reads of the
  tracer.
* Signals that do not end a task, and a genuine SIGSTOP or SIGTRAP being taken
  for a new task's first stop (`tracer.c:309`). It needs the kernel's group stops.
* Reuse of pids in the Collector. `World`, `Observation` and `Playback` have it.
* What the pump's early end does to the lines: `Session` has the end, and says
  that the session still closes; the display then shows nothing more.

## 8. Plan

1. Threads in `Tracer`: clone with `CLONE_THREAD`, `execve` by a thread, after which
   `ntraced` stays too high and only ECHILD ends the loop; reuse of pids.
2. Tracer, decoder and world composed: the tree the user sees against the tree of
   the kernel when lines are spoilt, and thread markers over time.
3. Whole-pipeline liveness: every line read is shown in the end, by the composition of
   `Pacing` and `Observation`.
