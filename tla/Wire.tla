-------------------------------- MODULE Wire --------------------------------
(***************************************************************************)
(* The text between the tracer and the pump: how a path argument is read   *)
(* out of the traced task, escaped and written (tracer.c), what else goes  *)
(* through the same pipe, and what the pump makes of it (live.py, wire.py).*)
(*                                                                         *)
(* The pipe is the stderr of the tracer and, inherited at the fork, of the *)
(* traced program.  A write is one piece of it: stderr is not buffered, so *)
(* an ENTER is two writes, the text and the newline, and any other line is *)
(* one.  The program writes text that ends its line or does not, and that  *)
(* is not itself shaped like an event.  Of a line's fields only the path   *)
(* is here, as bytes: unescape's decoding of them to str loses nothing.    *)
(***************************************************************************)
EXTENDS Integers, Sequences, FiniteSets, FiniteSetsExt, SequencesExt

CONSTANTS
    Byte,        \* the bytes paths are made of
    MaxPath,     \* and their greatest length
    PAGE,        \* the size of a page
    BUF,         \* of read_child_string's buf
    OUT_CAP,     \* and of its out
    PIPE_SIZE,   \* writes the pipe holds before the next one blocks
    MaxLines,    \* lines the tracer writes
    Noise,       \* what the program writes: "line" or "part" of one
    OthersRun,   \* tasks run, and write, while the tracer handles a stop
    None

ASSUME ByteAssumption == Byte \subseteq 1..255
\* Four writes make the longest line: part, text, part and newline.  The pump
\* holds an unfinished line itself, so it never fills the pipe.
ASSUME SizeAssumption ==
    /\ {PAGE, BUF, OUT_CAP, PIPE_SIZE, MaxPath, MaxLines} \subseteq Nat
    /\ PAGE > 0 /\ BUF > 1 /\ OUT_CAP > 0 /\ PIPE_SIZE >= 4

\* What is absent is not taken for a byte, a token or an event.
ASSUME NoneAssumption ==
    /\ None \notin Int /\ None \notin Seq(Int)
    /\ None \notin [nth : Int, path : Seq(Int) \cup {None}, intact : BOOLEAN]

ASSUME NoiseAssumption == Noise \subseteq {"line", "part"}

VARIABLES
    memory,      \* the argument: a path, its place in its page, readable pages
    pc,          \* where the tracer is
    buf,         \* the bytes read, total of them
    done,        \* the NUL was seen
    written,     \* lines begun by the tracer
    pipe,        \* pieces written and not read
    received,    \* what parse_line returned, in order
    unfinished,  \* history: the program's last write did not end its line
    spoiled      \* history: lines the program wrote into

tracerVars == <<pc, buf, done, written>>
vars == <<memory, tracerVars, pipe, received, unfinished, spoiled>>

Memory == [path : BoundedSeq(Byte, MaxPath), offset : 0..(PAGE - 1), pages : 0..3]

Init ==
    /\ memory \in Memory
    /\ pc = "wait"
    /\ buf = <<>>
    /\ done = FALSE
    /\ written = 0
    /\ pipe = <<>>
    /\ received = <<>>
    /\ unfinished = FALSE
    /\ spoiled = {}

-----------------------------------------------------------------------------
\* read_child_string.
ByteAt(k) == IF k < Len(memory.path) THEN memory.path[k + 1] ELSE 0

Readable(k) == (memory.offset + k) \div PAGE < memory.pages

\* Mutant of Want: no room is kept at the end of the buffer.
WantAll == Min({BUF - Len(buf), PAGE - ((memory.offset + Len(buf)) % PAGE)})

\* Bytes asked for at once: to the end of the page or of the buffer.
Want == Min({BUF - 1 - Len(buf), PAGE - ((memory.offset + Len(buf)) % PAGE)})

ReadChunk ==
    /\ pc = "read" /\ ~done /\ Len(buf) < BUF - 1
    /\ Readable(Len(buf))
    /\ LET chunk == [i \in 1..Want |-> ByteAt(Len(buf) + i - 1)]
           nul   == {i \in 1..Want : chunk[i] = 0}
       IN  /\ buf' = buf \o SubSeq(chunk, 1, IF nul = {} THEN Want ELSE Min(nul) - 1)
           /\ done' = (nul # {})
    /\ UNCHANGED <<memory, pc, written, pipe, received, unfinished, spoiled>>

ReadEnds == done \/ Len(buf) >= BUF - 1 \/ ~Readable(Len(buf))

PERCENT == 37

Hex(digit) == IF digit < 10 THEN 48 + digit ELSE 87 + digit

\* Mutant of Escaped: a percent sign stands for itself.
EscapedPlainly(c) == IF c < 33 \/ c > 126 THEN <<PERCENT, Hex(c \div 16), Hex(c % 16)>> ELSE <<c>>

Escaped(c) ==
    IF c < 33 \/ c > 126 \/ c = PERCENT
    THEN <<PERCENT, Hex(c \div 16), Hex(c % 16)>> ELSE <<c>>

\* The bytes escaped, up to the first one that does not fit.
Escape(bytes) ==
    LET token[n \in 0..Len(bytes)] ==
            IF n = 0 THEN [out |-> <<>>, cut |-> FALSE]
            ELSE IF token[n - 1].cut \/ Len(token[n - 1].out) + Len(Escaped(bytes[n])) >= OUT_CAP
            THEN [token[n - 1] EXCEPT !.cut = TRUE]
            ELSE [token[n - 1] EXCEPT !.out = @ \o Escaped(bytes[n])]
    IN  token[Len(bytes)].out

\* The token after " str1=", None when there is nothing to read.
PathToken == IF buf = <<>> /\ ~done THEN None ELSE Escape(buf)

-----------------------------------------------------------------------------
\* The tracer's lines: ENTERs and EXITs in turn.
Write(piece) == Len(pipe) < PIPE_SIZE /\ pipe' = Append(pipe, piece)

Stops ==
    /\ pc = "wait" /\ written < MaxLines
    /\ pc' = IF written % 2 = 0 THEN "read" ELSE "exit"
    /\ buf' = <<>>
    /\ done' = FALSE
    /\ UNCHANGED <<memory, written, pipe, received, unfinished, spoiled>>

Begins(line) ==
    /\ Write(line)
    /\ written' = written + 1
    /\ spoiled' = IF unfinished THEN spoiled \cup {written + 1} ELSE spoiled
    /\ unfinished' = FALSE

\* fputs(line, stderr)
WriteText ==
    /\ pc = "read" /\ ReadEnds
    /\ Begins([is |-> "text", nth |-> written + 1, token |-> PathToken])
    /\ pc' = "newline"
    /\ UNCHANGED <<memory, buf, done, received>>

\* fputc('\n', stderr)
WriteNewline ==
    /\ pc = "newline"
    /\ Write([is |-> "newline"])
    /\ pc' = "wait"
    /\ unfinished' = FALSE
    /\ UNCHANGED <<memory, buf, done, written, received, spoiled>>

\* fprintf(stderr, "EXIT ...\n")
WriteExit ==
    /\ pc = "exit"
    /\ Begins([is |-> "exit", nth |-> written + 1, token |-> None])
    /\ pc' = "wait"
    /\ UNCHANGED <<memory, buf, done, received>>

\* The program writes to its stderr: the stopped task cannot, others can.
\* Parts in a row are one part.
ProgramWrites ==
    /\ pc = "wait" \/ OthersRun
    /\ \E n \in Noise :
          /\ pipe # <<>> /\ n = "part" => Last(pipe).is # "part"
          /\ Write([is |-> n])
          /\ unfinished' = (n = "part")
    /\ spoiled' = IF pc = "newline" THEN spoiled \cup {written} ELSE spoiled
    /\ UNCHANGED <<memory, tracerVars, received>>

-----------------------------------------------------------------------------
\* unescape: None where it raises ValueError.
HexValue(c) == IF c \in 48..57 THEN c - 48 ELSE IF c \in 97..102 THEN c - 87 ELSE None

Unescape(token) ==
    LET from[i \in 1..(Len(token) + 3)] ==
            IF i > Len(token) THEN <<>>
            ELSE IF token[i] # PERCENT
            THEN IF from[i + 1] = None THEN None ELSE <<token[i]>> \o from[i + 1]
            ELSE IF i + 2 > Len(token) \/ from[i + 3] = None THEN None
            ELSE IF HexValue(token[i + 1]) = None \/ HexValue(token[i + 2]) = None THEN None
            ELSE <<16 * HexValue(token[i + 1]) + HexValue(token[i + 2])>> \o from[i + 3]
    IN  from[1]

Event(nth, path, intact) == [nth |-> nth, path |-> path, intact |-> intact]

\* The events parse_line may return for a line made of these pieces, None for
\* ValueError: text of the program before the tracer's leaves no known kind,
\* text after it alters the last field or makes it malformed.
Parsed(line) ==
    LET said == IF Last(line).is = "newline" THEN Front(line) ELSE line
    IN  IF said = <<>> \/ Head(said).is \notin {"text", "exit"} THEN {None}
        ELSE IF Len(said) > 1 THEN {None, Event(Head(said).nth, None, FALSE)}
        ELSE IF Head(said).token = None THEN {Event(Head(said).nth, None, TRUE)}
        ELSE IF Unescape(Head(said).token) = None THEN {None}
        ELSE {Event(Head(said).nth, Unescape(Head(said).token), TRUE)}

LineEnds == {i \in 1..Len(pipe) : pipe[i].is \in {"newline", "exit", "line"}}

\* Mutant of ReadLine: all there is to read is taken for one line.
ReadAll ==
    /\ pipe # <<>>
    /\ \E event \in Parsed(pipe) :
          received' = IF event = None THEN received ELSE Append(received, event)
    /\ pipe' = <<>>
    /\ UNCHANGED <<memory, tracerVars, unfinished, spoiled>>

\* One round of the pump: what is not an event is passed over.
ReadLine ==
    /\ LineEnds # {}
    /\ \E event \in Parsed(SubSeq(pipe, 1, Min(LineEnds))) :
          received' = IF event = None THEN received ELSE Append(received, event)
    /\ pipe' = SubSeq(pipe, Min(LineEnds) + 1, Len(pipe))
    /\ UNCHANGED <<memory, tracerVars, unfinished, spoiled>>

Next ==
    \/ Stops \/ ReadChunk \/ WriteText \/ WriteNewline \/ WriteExit
    \/ ProgramWrites \/ ReadLine

Spec == Init /\ [][Next]_vars
-----------------------------------------------------------------------------
\* Buffers and pipe keep within their sizes, the terminating NULs of the C
\* strings included (tracer.c read_child_string).
TypeOK ==
    /\ memory \in Memory
    /\ pc \in {"wait", "read", "newline", "exit"}
    /\ buf \in Seq(Byte) /\ Len(buf) < BUF
    /\ done \in BOOLEAN
    /\ written \in 0..MaxLines
    /\ Len(pipe) <= PIPE_SIZE
    /\ \A i \in 1..Len(pipe) :
          pipe[i].is = "text" => pipe[i].token = None \/ Len(pipe[i].token) < OUT_CAP
    /\ \A i \in 1..Len(received) : received[i].nth \in 1..MaxLines
    /\ unfinished \in BOOLEAN
    /\ spoiled \subseteq 1..MaxLines

\* The first n bytes of the path fit where they have to.
Fits(n) ==
    /\ n < BUF
    /\ \A k \in 0..(n - 1) : Readable(k)
    /\ n + 2 * Cardinality({i \in 1..n : memory.path[i] \notin (33..126) \ {PERCENT}}) < OUT_CAP

\* The start of the path there is to tell of, None when its first byte cannot be read.
Told ==
    IF Readable(0)
    THEN SubSeq(memory.path, 1, Max({n \in 0..Len(memory.path) : Fits(n)}))
    ELSE None

(***************************************************************************)
(* The path the pump decodes is the one in the task's memory, byte for     *)
(* byte, or the longest start of it that is readable and fits the buffers, *)
(* however the string lies across pages: escaping, cutting and unescaping  *)
(* never make another path of it, nor a line that cannot be parsed         *)
(* (tracer.c read_child_string, wire.py unescape).                         *)
(***************************************************************************)
PathComesBack ==
    \A i \in 1..Len(received) :
        received[i].intact /\ received[i].nth % 2 = 1 => received[i].path = Told

(***************************************************************************)
(* Every line of the tracer is read once, in order and unaltered, except   *)
(* those the program wrote into: after text of its own that did not end    *)
(* its line, or between the text of an ENTER and its newline.  Whole lines *)
(* of the program do no harm (live.py _pump, "a diagnostic line").         *)
(***************************************************************************)
LinesComeThrough ==
    /\ \A k \in (1..written) \ spoiled :
          \/ \E i \in 1..Len(pipe) : pipe[i].is \in {"text", "exit"} /\ pipe[i].nth = k
          \/ \E i \in 1..Len(received) : received[i].nth = k /\ received[i].intact
    /\ \A i \in 1..Len(received) : ~received[i].intact => received[i].nth \in spoiled
    /\ \A i, j \in 1..Len(received) : i < j => received[i].nth < received[j].nth
=============================================================================
