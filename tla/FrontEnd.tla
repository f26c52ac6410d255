------------------------------ MODULE FrontEnd ------------------------------
(***************************************************************************)
(* What main() reads from its user and shows to them: the command line     *)
(* (Parser), the report (Renderer) and the console window (Screen).  The   *)
(* monitors' results, the time that passes and the moment of a Ctrl+C are  *)
(* arbitrary here; other modules are about them.                           *)
(***************************************************************************)
EXTENDS Parser, Renderer, Screen

CONSTANTS
    Lines,              \* the command lines a user may type
    Snapshots,          \* what engine.poll() may return
    Columns(_),         \* the width of a line of the report
    GoodbyeWidth,       \* ... and of "Shutting down."
    ShellRows,          \* where the cursor may be when the program starts
    Sizes, Durations    \* numbers whose conversion is looked at

ASSUME LinesAssumption == Lines \subseteq Seq(Tokens)
ASSUME SnapshotsAssumption == \A s \in Snapshots : IsSnapshot(s)
\* No line of a report is wider than the window, after two escape sequences that
\* it may have printed: see Screen.
ASSUME ColumnsAssumption ==
    \A s \in Snapshots, top \in 1 .. kMaxTopN, key \in SortKeys :
        \A report \in Render(s, [top_n |-> top, sort_key |-> key]) :
            \A k \in 1 .. Len(report) : Columns(report[k]) \in 0 .. Width - 2
ASSUME WindowUseAssumption == GoodbyeWidth \in 0 .. Width /\ ShellRows \subseteq 1 .. Height
ASSUME NumbersAssumption == Sizes \subseteq Nat /\ Durations \subseteq Nat

NoSnapshot == [system |-> Failure]

VARIABLES
    phase,      \* "parsing", "exited", "once", "live", "polling", "painted" or "bye"
    ansi,       \* the console interprets escape sequences
    snapshot,   \* what the last poll returned
    frame,      \* and the report made of it
    screen      \* the window: [rows, row, col]

showVars  == <<ansi, snapshot, frame, screen>>
frontVars == <<parserVars, phase, showVars>>
-----------------------------------------------------------------------------
FrontInit ==
    /\ ParserInit(Lines)
    /\ phase = "parsing"
    /\ ansi = FALSE
    /\ snapshot = NoSnapshot
    /\ frame = <<>>
    /\ screen \in {ShellScreen(row) : row \in ShellRows}

Parse == ParserStep /\ UNCHANGED <<phase, showVars>>

\* enable_ansi_escape_codes does what it can: each of its three calls may fail,
\* and the console may interpret escape sequences anyway.
EnableAnsiEscapeCodes == BOOLEAN

\* parse_args has returned: an error or --help ends the program, even with
\* --once.  (The arguments are not looked at any more.)
Start ==
    /\ phase = "parsing" /\ outcome # "parsing"
    /\ phase' = IF outcome = "failed" \/ config.help_requested THEN "exited"
                ELSE IF config.once THEN "once" ELSE "live"
    /\ ansi' \in IF phase' = "live" THEN EnableAnsiEscapeCodes ELSE {ansi}
    /\ args' = <<>> /\ i' = 1 /\ offender' = 0
    /\ UNCHANGED <<config, outcome, snapshot, frame, screen>>

\* A poll returns a snapshot, and its report is printed at `from`.
Show(from) ==
    /\ snapshot' \in Snapshots
    /\ frame' \in Render(snapshot', config)
    /\ screen' = PrintFrame(from, [k \in 1 .. Len(frame') |-> Columns(frame'[k])])

\* Mutated: --once repaints like the live loop.
PrintOnce_Homes ==
    /\ phase = "once" /\ phase' = "exited"
    /\ Show(CursorHome(screen, TRUE))
    /\ UNCHANGED <<parserVars, ansi>>
PrintOnce ==
    /\ phase = "once" /\ phase' = "exited"
    /\ Show(screen)
    /\ UNCHANGED <<parserVars, ansi>>

\* The next round of the live loop; the temporaries of the last one are gone.
Home ==
    /\ phase \in {"live", "painted"} /\ phase' = "polling"
    /\ screen' = CursorHome(Aged(screen), ansi)
    /\ snapshot' = NoSnapshot /\ frame' = <<>>
    /\ UNCHANGED <<parserVars, ansi>>

Paint ==
    /\ phase = "polling" /\ phase' = "painted"
    /\ snapshot' \in Snapshots
    /\ frame' \in Render(snapshot', config)
    /\ screen' = ClearBelowCursor(
                     PrintFrame(screen, [k \in 1 .. Len(frame') |-> Columns(frame'[k])]),
                     ansi)
    /\ UNCHANGED <<parserVars, ansi>>

\* The loop test finds the flag set, before the first frame or after any.
SayGoodbye ==
    /\ phase \in {"live", "painted"} /\ phase' = "bye"
    /\ screen' = Goodbye(screen, GoodbyeWidth)
    /\ UNCHANGED <<parserVars, ansi, snapshot, frame>>

Over == phase \in {"exited", "bye"} /\ UNCHANGED frontVars

FrontNext == Parse \/ Start \/ PrintOnce \/ Home \/ Paint \/ SayGoodbye \/ Over

FrontSpec == FrontInit /\ [][FrontNext]_frontVars
-----------------------------------------------------------------------------
(* Properties of what is shown. *)

Shown == frame # <<>>
InFrame(section, kind) ==
    {k \in 1 .. Len(frame) : frame[k].section = section /\ frame[k].kind = kind}

\* Every variable keeps its type: parse_args neither looks further than one past
\* the last argument nor reports one that is not there (parser.cpp L37-L99), and
\* a cell of the window is a mark or a line of the frame there is.
FrontTypeOK ==
    /\ ParserTypeOK
    /\ phase \in {"parsing", "exited", "once", "live", "polling", "painted", "bye"}
    /\ ansi \in BOOLEAN
    /\ screen.row \in 1 .. Height /\ screen.col \in 1 .. Width
    /\ screen.rows \in [1 .. Height -> [1 .. Width -> Cells \cup 1 .. Len(frame)]]

\* While parse_args runs, and when it returns: see Parser.
ParsedAsMeant == phase = "parsing" => AgreesWithReference

\* The conversions, over many values: looked at once, with the empty command line.
Sweep == phase = "parsing" /\ args = <<>>

\* A size is printed right to the last digit, in each unit and at each change
\* of units (format.cpp L9-L26).
BytesFaithful == Sweep => \A value \in Sizes : BytesRight(value)

\* A duration can be read back, at each carry (format.cpp L34-L56).
DurationFaithful == Sweep => \A total \in Durations : DurationRight(total)

\* Each section is in the report, in the same place, whatever becomes of the
\* others; it says "unavailable" if its own sample failed and only then, and a
\* list without elements says so (result.hpp L8-L11).
EverySectionShown ==
    Shown =>
        /\ \A k \in 1 .. Len(frame) : \E a \in 1 .. 6 : frame[k].section = SectionOrder[a]
        /\ \A a, b \in 1 .. 6 : b < a =>
              \A j, k \in 1 .. Len(frame) :
                  frame[j].section = SectionOrder[a] /\ frame[k].section = SectionOrder[b]
                    => k < j
        /\ \A a \in 1 .. 6 :
              LET section == SectionOrder[a]
              IN  /\ \E k \in 1 .. Len(frame) : frame[k].section = section
                  /\ InFrame(section, "unavailable") # {} <=> ~snapshot[section].ok
                  /\ InFrame(section, "row") # {} => snapshot[section].ok
        /\ \A section \in {"disks", "network"} :
              InFrame(section, "none") # {}
                <=> snapshot[section].ok /\ snapshot[section].value = <<>>

\* The rows shown are the top ones: they are processes of the snapshot, each
\* once and as many as were asked for if there are enough; nothing left out
\* ranks above one of them, the total counts all, and the column as printed,
\* rounded, never increases downwards.
TopRows ==
    Shown /\ snapshot.processes.ok =>
        LET all  == snapshot.processes.value
            rows == InFrame("processes", "row")
            out  == {p \in all : \A k \in rows : frame[k].show.pid # p.pid}
            Column(k) == IF config.sort_key = "cpu" THEN frame[k].show.cpu
                         ELSE Read(frame[k].show.memory)
        IN  /\ \A k \in rows : \E p \in all : frame[k].show = ProcessRow(p)
            /\ \A j, k \in rows : frame[j].show.pid = frame[k].show.pid => j = k
            /\ Cardinality(rows) = Lesser(config.top_n, Cardinality(all))
            /\ \E k \in InFrame("processes", "header") : frame[k].show.total = Cardinality(all)
            /\ \A p \in all \ out, q \in out : ~Above(q, p, config.sort_key)
            /\ \A j, k \in rows : j < k => Column(j) >= Column(k)

\* A usage line makes sense even where the free bytes exceed the total: what
\* is used is no more than there is, as printed too, and the percentage lies
\* between 0 and 100, is 0 where nothing is used, and 100 only next to two
\* numbers that differ by no more than their rounding (1.0 of 1.1).
UsageMakesSense ==
    Shown =>
        \A section \in {"memory", "disks"} : \A k \in InFrame(section, "row") :
            LET show  == frame[k].show
                used  == Read(show.used)
                total == Read(show.total)
            IN  /\ used <= total
                /\ show.percent \in 0 .. 1000
                /\ show.percent = 1000 => 11 * used >= 10 * total
                /\ used = 0 => show.percent = 0

\* After a repaint the whole frame can be read: all its lines, or the last ones
\* where the window is too low, stand in order right above the cursor, each
\* with all its characters, whatever was on the window before and whether or
\* not the console understands escape sequences (main.cpp L58-L61, L74-L77).
FrameReadable ==
    phase = "painted" =>
        LET n == Len(frame)
            k == Lesser(n, Height - 1)
        IN  /\ screen.row > k
            /\ ansi /\ n < Height => screen.row = n + 1
            /\ \A j \in n - k + 1 .. n :
                  \E c \in 0 .. Width - Columns(frame[j]) :
                      \A x \in 1 .. Width :
                          LET cell == screen.rows[screen.row - (n - j) - 1][x]
                          IN  (cell = j) <=> x \in c + 1 .. c + Columns(frame[j])
            /\ ansi => \A r \in screen.row .. Height : screen.rows[r] = BlankRow

\* --once writes over nothing: above the report stands what the shell wrote.
OncePreservesShell ==
    phase = "exited" /\ Shown =>
        \A r \in 1 .. Height :
            /\ r < screen.row - Len(frame) => screen.rows[r] = [c \in 1 .. Width |-> Shell]
            /\ r >= screen.row - Len(frame) => Shell \notin {screen.rows[r][c] : c \in 1 .. Width}

\* "Shutting down." stands on a line of its own, after the whole last frame,
\* and the shell's prompt will be below it.
GoodbyeReadable ==
    phase = "bye" =>
        /\ screen.row > 1 /\ screen.col = 1
        /\ screen.rows[screen.row - 1] =
              [c \in 1 .. Width |-> IF c <= GoodbyeWidth THEN Message ELSE Blank]
        /\ \A r \in screen.row .. Height : screen.rows[r] = BlankRow
=============================================================================
