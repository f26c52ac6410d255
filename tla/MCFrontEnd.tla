----------------------------- MODULE MCFrontEnd -----------------------------
(***************************************************************************)
(* FrontEnd on a small instance.  A window of twelve rows, which all       *)
(* frames fit but the longest; a Kilo of 4, so that all the units of Bytes *)
(* are reached with small numbers.                                         *)
(***************************************************************************)
EXTENDS FrontEnd

N(v) == [ec |-> "ok", whole |-> TRUE, value |-> v]
NaN  == [ec |-> "invalid_argument", whole |-> FALSE, value |-> 0]

MCTokens == {"--help", "-h", "--once", "--interval", "--top", "--sort", "--bogus",
             "cpu", "Memory", "MEMORY!", "99", "100", "3600000", "3600001",
             "0", "2", "500", "501", "2x", "-5", "99999999999999999999"}

MCChars ==
    [t \in MCTokens |->
        CASE t = "99" -> N(99) [] t = "100" -> N(100)
          [] t = "3600000" -> N(3600000) [] t = "3600001" -> N(3600001)
          [] t = "0" -> N(0) [] t = "2" -> N(2) [] t = "500" -> N(500) [] t = "501" -> N(501)
          [] t = "2x" -> [ec |-> "ok", whole |-> FALSE, value |-> 2]
          [] t = "-5" -> N(-5)
          [] t = "99999999999999999999" -> [ec |-> "out_of_range", whole |-> TRUE, value |-> 0]
          [] OTHER -> NaN]

MCLower == [t \in MCTokens |-> CASE t = "Memory" -> "memory" [] t = "MEMORY!" -> "memory!"
                                 [] OTHER -> t]

\* All lines of up to two arguments, and longer ones over fewer words.
Upto(n, words) == UNION {[1 .. m -> words] : m \in 0 .. n}
MCLines ==
    Upto(2, MCTokens)
        \cup Upto(4, {"--once", "--top", "--sort", "2", "500", "Memory"})
        \cup Upto(5, {"--interval", "--help", "100", "2"})
-----------------------------------------------------------------------------
P(pid, cpu, memory) == [pid |-> pid, cpu |-> Ratio(cpu, 1), memory |-> memory]
D(total, free)      == [total |-> total, free |-> free]

Base ==
    [system    |-> Success([hostname |-> "host", uptime |-> 90061]),
     cpu       |-> Success(Ratio(10, 3)),
     memory    |-> Success([total |-> 1000, available |-> 300]),
     disks     |-> Success(<<D(255, 3)>>),
     network   |-> Success(<<[down |-> 63, up |-> 0]>>),
     processes |-> Success({P(4, 10, 60), P(8, 5, 64)})]

MCSnapshots ==
    {Base}
    \cup {[Base EXCEPT ![s] = Failure] : s \in DOMAIN Base}
    \cup {[s \in DOMAIN Base |-> Failure]}
    \cup {[Base EXCEPT !.system = Success([hostname |-> "", uptime |-> 59])],
          [Base EXCEPT !.cpu = Success(Ratio(100, 1))],
          [Base EXCEPT !.memory = Success([total |-> 0, available |-> 0])],
          [Base EXCEPT !.memory = Success([total |-> 100, available |-> 101])],
          [Base EXCEPT !.disks = Success(<<>>)],
          [Base EXCEPT !.disks = Success(<<D(100, 400), D(5000, 4999), D(5000, 1)>>)],
          [Base EXCEPT !.network = Success(<<>>)],
          [Base EXCEPT !.processes = Success({})],
          [Base EXCEPT !.processes = Success({P(4, 7, 63), P(8, 7, 64), P(12, 150, 63)})]}

\* Enough to tell a line from a longer or a shorter one it replaces.
MCColumns(line) ==
    IF line.section # "cpu" THEN 2
    ELSE IF line.kind = "unavailable" THEN 3
    ELSE IF line.show.percent < 1000 THEN 1 ELSE 2

MCShellRows == {1, 12}
\* Each unit of sizes and each carry of durations.
MCSizes     == 0 .. 5000
MCDurations == 0 .. 100 \cup 3590 .. 3670 \cup 7195 .. 7205 \cup 86390 .. 86470
                   \cup 89990 .. 90070 \cup 172799 .. 172801
-----------------------------------------------------------------------------
\* ARCHITECTURE.md L38: the loop's paint is "clear screen, print": where escape
\* sequences work, nothing but the frame is on the screen.
OnlyTheFrame ==
    phase = "painted" /\ ansi =>
        \A r \in 1 .. Height : \A c \in 1 .. Width :
            screen.rows[r][c] \notin {Shell, Past}
=============================================================================
