------------------------------- MODULE Parser -------------------------------
(***************************************************************************)
(* parse_args of src/src/cli/parser.cpp.  An argument is a token; what     *)
(* std::from_chars and to_lower make of a token are given as constants, so *)
(* that a text may be anything: not a number, a number with a tail, one    *)
(* beyond long long.  One step per argument of the loop.                   *)
(***************************************************************************)
EXTENDS Integers, Sequences

CONSTANTS
    Tokens,     \* the arguments a user may type
    Chars,      \* per token, from_chars: [ec, whole (ptr = end), value]
    Lower,      \* per token, to_lower of it
    MaxArgs     \* bound: length of a command line

ASSUME CharsAssumption ==
    Chars \in [Tokens -> [ec : {"ok", "invalid_argument", "out_of_range"},
                          whole : BOOLEAN, value : Int]]
ASSUME MaxArgsAssumption == MaxArgs \in Nat

kMinInterval == 100
kMaxInterval == 3600 * 1000    \* 1 hour
kMaxTopN     == 500

Options  == {"--help", "-h", "--once", "--interval", "--top", "--sort"}
Valued   == {"--interval", "--top", "--sort"}
SortKeys == {"cpu", "memory"}

Defaults == [interval |-> 1000, once |-> FALSE, top_n |-> 5, sort_key |-> "cpu",
             help_requested |-> FALSE]

NotANumber == 0
\* Mutated: the rest of the text is ignored.
ParsePositiveInteger_Prefix(token) ==
    LET c == Chars[token]
    IN  IF c.ec # "ok" \/ c.value <= 0 THEN NotANumber ELSE c.value
\* The value, or NotANumber for std::nullopt: no positive value is 0.
ParsePositiveInteger(token) ==
    LET c == Chars[token]
    IN  IF c.ec # "ok" \/ ~c.whole \/ c.value <= 0 THEN NotANumber ELSE c.value

VARIABLES
    args,       \* the command line
    i,          \* the argument being looked at, from 1
    config,     \* Config
    outcome,    \* "parsing", "ok" or "failed"
    offender    \* of a failure, the position its message names; 0 if none

parserVars == <<args, i, config, outcome, offender>>

Arg   == args[i]
Value == args[i + 1]
-----------------------------------------------------------------------------
ParserInit(lines) ==
    /\ args \in lines
    /\ i = 1
    /\ config = Defaults
    /\ outcome = "parsing"
    /\ offender = 0

At(option) == outcome = "parsing" /\ i <= Len(args) /\ Arg \in option

Fail(position) ==
    /\ outcome' = "failed" /\ offender' = position
    /\ UNCHANGED <<args, i, config>>

Accept(field, value, next) ==
    /\ config' = [config EXCEPT ![field] = value]
    /\ i' = next
    /\ UNCHANGED <<args, outcome, offender>>

\* --help ends parsing: what follows is not looked at.
Help ==
    /\ At({"--help", "-h"})
    /\ config' = [config EXCEPT !.help_requested = TRUE]
    /\ outcome' = "ok"
    /\ UNCHANGED <<args, i, offender>>

Once == At({"--once"}) /\ Accept("once", TRUE, i + 1)

\* Mutated: the message names the value, past the end of the arguments.
MissingValue_NamesValue == At(Valued) /\ i = Len(args) /\ Fail(i + 1)
\* An option that takes a value takes the next argument, whatever it is.
MissingValue == At(Valued) /\ i = Len(args) /\ Fail(i)

HasValue(option) == At({option}) /\ i < Len(args)

IntervalInRange(n) == n # NotANumber /\ n >= kMinInterval /\ n <= kMaxInterval

\* Mutated: no upper bound.
TopInRange_Unbounded(n) == n # NotANumber
TopInRange(n) == n # NotANumber /\ n <= kMaxTopN

Interval ==
    /\ HasValue("--interval")
    /\ LET n == ParsePositiveInteger(Value)
       IN  IF IntervalInRange(n) THEN Accept("interval", n, i + 2) ELSE Fail(i + 1)

Top ==
    /\ HasValue("--top")
    /\ LET n == ParsePositiveInteger(Value)
       IN  IF TopInRange(n) THEN Accept("top_n", n, i + 2) ELSE Fail(i + 1)

Sort ==
    /\ HasValue("--sort")
    /\ IF Lower[Value] \in SortKeys
       THEN Accept("sort_key", Lower[Value], i + 2) ELSE Fail(i + 1)

UnknownArgument ==
    /\ outcome = "parsing" /\ i <= Len(args) /\ Arg \notin Options
    /\ Fail(i)

ArgsOver ==
    /\ outcome = "parsing" /\ i > Len(args)
    /\ outcome' = "ok"
    /\ UNCHANGED <<args, i, config, offender>>

ParserStep ==
    \/ Help \/ Once \/ MissingValue \/ Interval \/ Top \/ Sort
    \/ UnknownArgument \/ ArgsOver

CommandLines == UNION {[1 .. n -> Tokens] : n \in 0 .. MaxArgs}

ParserSpec == ParserInit(CommandLines) /\ [][ParserStep]_parserVars
-----------------------------------------------------------------------------
(* What a command line means, without parsing it in order. *)

\* The arguments that are looked at as options: not the value of the one before.
\* In a row of options that take a value, r .. p - 1, every second one is a value.
IsHead(p) ==
    \E r \in 1 .. p :
        /\ r = 1 \/ args[r - 1] \notin Valued
        /\ \A q \in r .. p - 1 : args[q] \in Valued
        /\ (p - r) % 2 = 0

Numeral(token, low, high) ==
    LET c == Chars[token]
    IN  c.ec = "ok" /\ c.whole /\ low <= c.value /\ c.value <= high

GoodValue(option, token) ==
    CASE option = "--interval" -> Numeral(token, kMinInterval, kMaxInterval)
      [] option = "--top"      -> Numeral(token, 1, kMaxTopN)
      [] option = "--sort"     -> Lower[token] \in SortKeys

Wrong(p) ==
    \/ args[p] \notin Options
    \/ args[p] \in Valued /\ p = Len(args)
    \/ args[p] \in Valued /\ p < Len(args) /\ ~GoodValue(args[p], args[p + 1])

\* The heads that count: those before the first one that stops the parsing.
Stops(p)    == IsHead(p) /\ (args[p] \in {"--help", "-h"} \/ Wrong(p))
Before(p)   == \A q \in 1 .. p - 1 : ~Stops(q)
Counts(p)   == IsHead(p) /\ Before(p)
Uses(option) == {p \in 1 .. Len(args) : args[p] = option /\ Counts(p) /\ ~Stops(p)}

LastOf(uses) == CHOOSE p \in uses : \A q \in uses : q <= p

\* The last use of an option decides; without one its default stands.
Latest(option, default, Meaning(_)) ==
    IF Uses(option) = {} THEN default ELSE Meaning(args[LastOf(Uses(option)) + 1])
-----------------------------------------------------------------------------
(* Properties. *)

ParserTypeOK ==
    /\ i \in 1 .. Len(args) + 1
    /\ outcome \in {"parsing", "ok", "failed"}
    /\ offender \in 0 .. Len(args)

\* Whatever is typed, and however often an option is repeated, the program
\* never runs with an interval or a row count outside the documented bounds
\* (config.hpp L32-L34).
ConfigInBounds ==
    /\ config.interval \in kMinInterval .. kMaxInterval
    /\ config.top_n \in 1 .. kMaxTopN
    /\ config.sort_key \in SortKeys
    /\ config.once \in BOOLEAN /\ config.help_requested \in BOOLEAN

\* The loop computes the meaning of the command line: the first option that is
\* wrong makes it fail and is the one named, unless --help came before it; an
\* argument that is a value is never taken for an option; and of several uses
\* of an option the last one decides (config.hpp L36-L41).
AgreesWithReference ==
    /\ outcome = "failed" =>
          \E p \in 1 .. Len(args) :
              /\ Counts(p) /\ Wrong(p)
              /\ offender = IF args[p] \in Valued /\ p < Len(args) THEN p + 1 ELSE p
    /\ outcome = "ok" =>
          /\ config.help_requested <=>
                \E p \in 1 .. Len(args) : Counts(p) /\ args[p] \in {"--help", "-h"}
          /\ ~config.help_requested => \A p \in 1 .. Len(args) : ~Stops(p)
          /\ config.once <=> Uses("--once") # {}
          /\ config.interval = Latest("--interval", 1000, LAMBDA token : Chars[token].value)
          /\ config.top_n = Latest("--top", 5, LAMBDA token : Chars[token].value)
          /\ config.sort_key = Latest("--sort", "cpu", LAMBDA token : Lower[token])
=============================================================================
