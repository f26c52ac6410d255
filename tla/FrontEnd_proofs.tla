-------------------------- MODULE FrontEnd_proofs --------------------------
(***************************************************************************)
(* What holds of FrontEnd for any command lines, words, snapshots and size *)
(* of the window: the configuration the program runs with, what its        *)
(* arguments mean, the numbers it prints, the report made of a snapshot    *)
(* and the window it is shown in.                                          *)
(***************************************************************************)
EXTENDS FrontEnd, FiniteSetTheorems, WellFoundedInduction, TLAPS

(***************************************************************************)
(* The inductive invariant: parse_args looks at arguments there are, and   *)
(* changes a field of the configuration only to a value that was checked.  *)
(***************************************************************************)
Configs == [interval : kMinInterval .. kMaxInterval, once : BOOLEAN,
            top_n : 1 .. kMaxTopN, sort_key : SortKeys, help_requested : BOOLEAN]

ParserInv == ParserTypeOK /\ args \in Seq(Tokens) /\ config \in Configs

\* The longest interval is a number, longer than the default.
LEMMA LongestInterval == kMaxInterval \in Nat /\ 1000 <= kMaxInterval
BY DEF kMaxInterval

\* A value that was checked is in bounds: from_chars gives an integer, and the
\* bounds are compared with it as an integer (parser.cpp L18, L61, L75).
LEMMA CheckedValue ==
    ASSUME NEW token \in Tokens
    PROVE  LET n == ParsePositiveInteger(token)
           IN  /\ IntervalInRange(n) => n \in kMinInterval .. kMaxInterval
               /\ TopInRange(n) => n \in 1 .. kMaxTopN
<1>. DEFINE n == ParsePositiveInteger(token)
<1>1. Chars[token].value \in Int
  BY CharsAssumption
<1>2. n \in Nat
  BY <1>1 DEF ParsePositiveInteger, NotANumber
<1>. HIDE DEF n
<1>3. IntervalInRange(n) => n \in kMinInterval .. kMaxInterval
  BY <1>2, LongestInterval DEF IntervalInRange, kMinInterval
<1>4. TopInRange(n) => n \in 1 .. kMaxTopN
  BY <1>2 DEF TopInRange, NotANumber, kMaxTopN
<1>. QED
  BY <1>3, <1>4 DEF n

\* The defaults are in bounds.
LEMMA ParserInitInv == ASSUME NEW lines \in SUBSET Seq(Tokens), ParserInit(lines)
                       PROVE  ParserInv
<1>1. args \in Seq(Tokens) /\ Len(args) \in Nat
  BY DEF ParserInit
<1>2. Defaults \in Configs
  BY LongestInterval DEF Defaults, Configs, SortKeys, kMinInterval, kMaxTopN
<1>. QED
  BY <1>1, <1>2 DEF ParserInit, ParserInv, ParserTypeOK

\* Each argument leaves the configuration in bounds, or fails.
LEMMA ParserStepInv == ASSUME ParserInv, ParserStep PROVE ParserInv'
<1>. USE DEF ParserInv, ParserTypeOK
<1>0. args \in Seq(Tokens) /\ Len(args) \in Nat /\ i \in 1 .. Len(args) + 1
  OBVIOUS
<1>1. args' = args
  BY DEF ParserStep, Help, Once, MissingValue, Interval, Top, Sort, UnknownArgument,
         ArgsOver, Fail, Accept
<1>2. ASSUME NEW position \in 1 .. Len(args), Fail(position) PROVE ParserInv'
  BY <1>0, <1>2 DEF Fail
<1>3. ASSUME NEW field, NEW value, NEW next \in 1 .. Len(args) + 1,
             Accept(field, value, next), [config EXCEPT ![field] = value] \in Configs
      PROVE  ParserInv'
  BY <1>0, <1>3 DEF Accept
<1>4. ASSUME i < Len(args) PROVE Value \in Tokens /\ i + 1 \in 1 .. Len(args)
                                 /\ i + 2 \in 1 .. Len(args) + 1
  BY <1>0, <1>4 DEF Value
<1>5. CASE Help
  BY <1>0, <1>1, <1>5 DEF Help, Configs
<1>6. CASE Once
  <2>1. [config EXCEPT !.once = TRUE] \in Configs
    BY DEF Configs
  <2>2. i + 1 \in 1 .. Len(args) + 1
    BY <1>0, <1>6 DEF Once, At
  <2>. QED
    BY <1>3, <1>6, <2>1, <2>2 DEF Once
<1>7. CASE MissingValue \/ UnknownArgument
  <2>1. i \in 1 .. Len(args) /\ Fail(i)
    BY <1>0, <1>7 DEF MissingValue, UnknownArgument, At
  <2>. QED
    BY <1>2, <2>1
<1>8. CASE Interval
  <2>1. i < Len(args)
    BY <1>8 DEF Interval, HasValue
  <2>. DEFINE n == ParsePositiveInteger(Value)
  <2>2. CASE IntervalInRange(n)
    <3>1. n \in kMinInterval .. kMaxInterval
      BY <1>4, <2>1, <2>2, CheckedValue
    <3>2. [config EXCEPT !.interval = n] \in Configs
      BY <3>1 DEF Configs
    <3>. QED
      BY <1>3, <1>4, <1>8, <2>1, <2>2, <3>2 DEF Interval
  <2>3. CASE ~IntervalInRange(n)
    BY <1>2, <1>4, <1>8, <2>1, <2>3 DEF Interval
  <2>. QED
    BY <2>2, <2>3
<1>9. CASE Top
  <2>1. i < Len(args)
    BY <1>9 DEF Top, HasValue
  <2>. DEFINE n == ParsePositiveInteger(Value)
  <2>2. CASE TopInRange(n)
    <3>1. n \in 1 .. kMaxTopN
      BY <1>4, <2>1, <2>2, CheckedValue
    <3>2. [config EXCEPT !.top_n = n] \in Configs
      BY <3>1 DEF Configs
    <3>. QED
      BY <1>3, <1>4, <1>9, <2>1, <2>2, <3>2 DEF Top
  <2>3. CASE ~TopInRange(n)
    BY <1>2, <1>4, <1>9, <2>1, <2>3 DEF Top
  <2>. QED
    BY <2>2, <2>3
<1>10. CASE Sort
  <2>1. i < Len(args)
    BY <1>10 DEF Sort, HasValue
  <2>2. CASE Lower[Value] \in SortKeys
    <3>1. [config EXCEPT !.sort_key = Lower[Value]] \in Configs
      BY <2>2 DEF Configs
    <3>. QED
      BY <1>3, <1>4, <1>10, <2>1, <2>2, <3>1 DEF Sort
  <2>3. CASE Lower[Value] \notin SortKeys
    BY <1>2, <1>4, <1>10, <2>1, <2>3 DEF Sort
  <2>. QED
    BY <2>2, <2>3
<1>11. CASE ArgsOver
  BY <1>0, <1>11 DEF ArgsOver
<1>. QED
  BY <1>5, <1>6, <1>7, <1>8, <1>9, <1>10, <1>11 DEF ParserStep

\* After parse_args the configuration is not written again.
LEMMA FrontStepInv == ASSUME ParserInv, [FrontNext]_frontVars PROVE ParserInv'
<1>1. CASE ParserStep
  BY <1>1, ParserStepInv
<1>2. CASE Start
  <2>1. args' = <<>> /\ i' = 1 /\ offender' = 0 /\ UNCHANGED <<config, outcome>>
    BY <1>2 DEF Start
  <2>. QED
    BY <2>1 DEF ParserInv, ParserTypeOK
<1>3. CASE UNCHANGED parserVars
  BY <1>3 DEF parserVars, ParserInv, ParserTypeOK
<1>. QED
  BY <1>1, <1>2, <1>3
     DEF FrontNext, Parse, PrintOnce, Home, Paint, SayGoodbye, Over, frontVars

\* Hence the invariant, in every reachable state.
LEMMA FrontInductive == FrontSpec => []ParserInv
<1>1. FrontInit => ParserInv
  BY ParserInitInv, LinesAssumption DEF FrontInit
<1>. QED
  BY <1>1, FrontStepInv, PTL DEF FrontSpec
-----------------------------------------------------------------------------
\* The program never runs with an interval or a row count out of its bounds,
\* whatever is typed (config.hpp L32-L34, parser.cpp L35-L102).
THEOREM ConfigStaysInBounds == FrontSpec => []ConfigInBounds
<1>1. ParserInv => ConfigInBounds
  BY DEF ParserInv, Configs, ConfigInBounds
<1>. QED
  BY FrontInductive, <1>1, PTL
-----------------------------------------------------------------------------
\* A set of numbers that is not empty has a least element: all the induction
\* there is in this module.
LEMMA LeastNumber ==
    ASSUME NEW S, S \subseteq Nat, S # {}
    PROVE  \E m \in S : \A n \in S : m <= n
<1>1. PICK m \in S : \A n \in S : ~ (<<n, m>> \in OpToRel(<, Nat))
  BY NatLessThanWellFounded, WFMin, Zenon
<1>2. \A n \in S : <<n, m>> \in Nat \X Nat /\ n < m => <<n, m>> \in OpToRel(<, Nat)
  BY Zenon DEF OpToRel
<1>3. \A n \in S : n \in Nat /\ m \in Nat /\ ~(n < m)
  BY <1>1, <1>2
<1>. QED
  BY <1>3

\* The first argument is a head.
LEMMA FirstIsHead == IsHead(1)
<1>1. 1 \in 1 .. 1 /\ (1 - 1) % 2 = 0 /\ 1 .. 1 - 1 = {}
  OBVIOUS
<1>. QED
  BY <1>1 DEF IsHead

\* Where the next head is: past the value of an option that takes one, and
\* else at the next argument.
LEMMA HeadAfter ==
    ASSUME ParserInv, NEW p \in 1 .. Len(args)
    PROVE  IsHead(p + 1) <=> ~(IsHead(p) /\ args[p] \in Valued)
<1>. DEFINE Row(r, q) == /\ r = 1 \/ args[r - 1] \notin Valued
                         /\ \A o \in r .. q - 1 : args[o] \in Valued
<1>1. Len(args) \in Nat /\ p \in Nat /\ p >= 1
  BY DEF ParserInv
<1>2. ASSUME IsHead(p), args[p] \in Valued, IsHead(p + 1)
      PROVE  FALSE
  <2>1. PICK r \in 1 .. p : Row(r, p) /\ (p - r) % 2 = 0
    BY <1>2 DEF IsHead
  <2>2. PICK s \in 1 .. p + 1 : Row(s, p + 1) /\ (p + 1 - s) % 2 = 0
    BY <1>1, <1>2 DEF IsHead
  <2>3. s # p + 1
    BY <1>1, <1>2, <2>2
  <2>4. ~(r < s)
    <3>. SUFFICES ASSUME r < s PROVE FALSE
      OBVIOUS
    <3>1. s - 1 \in r .. p - 1 /\ s # 1
      BY <1>1, <2>1, <2>2, <2>3
    <3>. QED
      BY <2>1, <2>2, <3>1
  <2>5. ~(s < r)
    <3>. SUFFICES ASSUME s < r PROVE FALSE
      OBVIOUS
    <3>1. r - 1 \in s .. p /\ r # 1
      BY <1>1, <2>1, <2>2, <2>3
    <3>. QED
      BY <2>1, <2>2, <3>1
  <2>6. r = s
    BY <2>4, <2>5
  <2>. QED
    BY <1>1, <2>1, <2>2, <2>6
<1>3. ASSUME args[p] \notin Valued
      PROVE  IsHead(p + 1)
  <2>1. p + 1 \in 1 .. p + 1 /\ Row(p + 1, p + 1) /\ (p + 1 - (p + 1)) % 2 = 0
    BY <1>1, <1>3
  <2>. QED
    BY <2>1 DEF IsHead
<1>4. ASSUME ~IsHead(p), args[p] \in Valued
      PROVE  IsHead(p + 1)
  <2>. DEFINE Starts == {r \in 1 .. p : \A o \in r .. p - 1 : args[o] \in Valued}
  <2>1. p \in Starts /\ Starts \subseteq Nat
    BY <1>1
  <2>2. PICK r \in Starts : \A s \in Starts : r <= s
    BY <2>1, LeastNumber
  <2>3. r \in 1 .. p /\ \A o \in r .. p - 1 : args[o] \in Valued
    OBVIOUS
  <2>4. r = 1 \/ args[r - 1] \notin Valued
    <3>. SUFFICES ASSUME r # 1, args[r - 1] \in Valued PROVE FALSE
      OBVIOUS
    <3>1. r - 1 \in Starts
      BY <1>1, <2>3
    <3>. QED
      BY <1>1, <2>2, <2>3, <3>1
  <2>5. (p - r) % 2 # 0
    BY <1>4, <2>3, <2>4 DEF IsHead
  <2>6. r \in 1 .. p + 1 /\ Row(r, p + 1) /\ (p + 1 - r) % 2 = 0
    <3>1. r \in 1 .. p + 1 /\ (p + 1 - r) % 2 = 0
      BY <1>1, <2>3, <2>5
    <3>2. \A o \in r .. (p + 1) - 1 : args[o] \in Valued
      BY <1>1, <1>4, <2>3
    <3>. QED
      BY <2>4, <3>1, <3>2
  <2>. QED
    BY <2>6 DEF IsHead
<1>. QED
  BY <1>2, <1>3, <1>4

(***************************************************************************)
(* The invariant of ParsedAsMeant: the argument being looked at is a head, *)
(* nothing before it stops the parsing, and the configuration is what the  *)
(* arguments before it mean.                                               *)
(***************************************************************************)
UsesBefore(option, n) == {p \in 1 .. n - 1 : IsHead(p) /\ args[p] = option}

\* `value` is what the last use of the option before n gives.
Decided(value, option, n, default, Meaning(_)) ==
    \/ UsesBefore(option, n) = {} /\ value = default
    \/ \E p \in UsesBefore(option, n) :
          /\ \A q \in UsesBefore(option, n) : q <= p
          /\ value = Meaning(args[p + 1])

Meant(n, c) ==
    /\ \A p \in 1 .. n - 1 : ~Stops(p)
    /\ c.once <=> UsesBefore("--once", n) # {}
    /\ Decided(c.interval, "--interval", n, 1000, LAMBDA token : Chars[token].value)
    /\ Decided(c.top_n, "--top", n, 5, LAMBDA token : Chars[token].value)
    /\ Decided(c.sort_key, "--sort", n, "cpu", LAMBDA token : Lower[token])

MeaningInv ==
    outcome = "parsing" => IsHead(i) /\ ~config.help_requested /\ Meant(i, config)

\* What is said about the command line does not change while it is parsed.
LEMMA ArgsFixed ==
    ASSUME args' = args, NEW p
    PROVE  /\ IsHead(p)' <=> IsHead(p)
           /\ Wrong(p)' <=> Wrong(p)
           /\ Stops(p)' <=> Stops(p)
           /\ Counts(p)' <=> Counts(p)
<1>1. \A q : IsHead(q)' <=> IsHead(q)
  BY DEF IsHead
<1>2. \A q : Wrong(q)' <=> Wrong(q)
  BY DEF Wrong, GoodValue, Numeral
<1>3. \A q : Stops(q)' <=> Stops(q)
  BY <1>1, <1>2 DEF Stops
<1>. QED
  BY <1>1, <1>2, <1>3 DEF Counts, Before

\* What the arguments mean does not change while they do not.
LEMMA MeantFixed ==
    ASSUME args' = args, NEW n, NEW c
    PROVE  Meant(n, c)' <=> Meant(n, c)
<1>1. \A q : (IsHead(q)' <=> IsHead(q)) /\ (Stops(q)' <=> Stops(q))
  BY ArgsFixed
<1>2. \A option : UsesBefore(option, n)' = UsesBefore(option, n)
  BY <1>1 DEF UsesBefore
<1>. QED
  BY <1>1, <1>2 DEF Meant, Decided

\* What the argument at i adds to the uses.  Where it takes a value, the value
\* is no use of anything.
LEMMA UsesAfter ==
    ASSUME ParserInv, IsHead(i), i <= Len(args), NEW option
    PROVE  LET uses == IF args[i] = option THEN UsesBefore(option, i) \cup {i}
                       ELSE UsesBefore(option, i)
           IN  /\ UsesBefore(option, i + 1) = uses
               /\ args[i] \in Valued /\ i < Len(args) => UsesBefore(option, i + 2) = uses
<1>0. i \in 1 .. Len(args) /\ Len(args) \in Nat
  BY DEF ParserInv, ParserTypeOK
<1>1. 1 .. i + 1 - 1 = (1 .. i - 1) \cup {i} /\ i \notin 1 .. i - 1
  BY <1>0
<1>2. 1 .. i + 2 - 1 = (1 .. i - 1) \cup {i, i + 1}
  BY <1>0
<1>3. args[i] \in Valued => ~IsHead(i + 1)
  BY <1>0, HeadAfter
<1>. QED
  BY <1>1, <1>2, <1>3 DEF UsesBefore

\* A step over the argument at i, to n, keeps the invariant.
LEMMA MeantAfter ==
    ASSUME ParserInv, IsHead(i), i <= Len(args), Meant(i, config), ~Stops(i),
           NEW n, NEW c,
           \/ n = i + 1 /\ args[i] \notin Valued
           \/ n = i + 2 /\ args[i] \in Valued /\ i < Len(args),
           c.once <=> config.once \/ args[i] = "--once",
           c.interval = IF args[i] = "--interval" THEN Chars[args[i + 1]].value
                        ELSE config.interval,
           c.top_n = IF args[i] = "--top" THEN Chars[args[i + 1]].value ELSE config.top_n,
           c.sort_key = IF args[i] = "--sort" THEN Lower[args[i + 1]] ELSE config.sort_key
    PROVE  IsHead(n) /\ Meant(n, c)
<1>0. i \in 1 .. Len(args) /\ Len(args) \in Nat
  BY DEF ParserInv, ParserTypeOK
<1>1. IsHead(n) /\ \A p \in 1 .. n - 1 : ~Stops(p)
  <2>1. CASE n = i + 1 /\ args[i] \notin Valued
    <3>1. IsHead(i + 1)
      BY <1>0, <2>1, HeadAfter
    <3>2. 1 .. n - 1 = (1 .. i - 1) \cup {i}
      BY <1>0, <2>1
    <3>. QED
      BY <2>1, <3>1, <3>2 DEF Meant
  <2>2. CASE n = i + 2 /\ args[i] \in Valued /\ i < Len(args)
    <3>1. ~IsHead(i + 1) /\ i + 1 \in 1 .. Len(args)
      BY <1>0, <2>2, HeadAfter
    <3>2. IsHead((i + 1) + 1)
      BY <1>0, <3>1, HeadAfter
    <3>3. 1 .. n - 1 = (1 .. i - 1) \cup {i, i + 1} /\ (i + 1) + 1 = n
      BY <1>0, <2>2
    <3>4. ~Stops(i + 1)
      BY <3>1 DEF Stops
    <3>. QED
      BY <3>2, <3>3, <3>4 DEF Meant
  <2>. QED
    BY <2>1, <2>2
<1>2. ASSUME NEW option
      PROVE  UsesBefore(option, n) = IF args[i] = option THEN UsesBefore(option, i) \cup {i}
                                     ELSE UsesBefore(option, i)
  BY UsesAfter
<1>3. \A option : \A q \in UsesBefore(option, i) : q <= i
  BY <1>0 DEF UsesBefore
<1>4. i <= i
  BY <1>0
<1>5. c.once <=> UsesBefore("--once", n) # {}
  BY <1>2 DEF Meant
<1>6. Decided(c.interval, "--interval", n, 1000, LAMBDA token : Chars[token].value)
  BY <1>2, <1>3, <1>4 DEF Meant, Decided
<1>7. Decided(c.top_n, "--top", n, 5, LAMBDA token : Chars[token].value)
  BY <1>2, <1>3, <1>4 DEF Meant, Decided
<1>8. Decided(c.sort_key, "--sort", n, "cpu", LAMBDA token : Lower[token])
  BY <1>2, <1>3, <1>4 DEF Meant, Decided
<1>. QED
  BY <1>1, <1>5, <1>6, <1>7, <1>8 DEF Meant

\* The code's check of a value and the reference's agree.
LEMMA SameCheck ==
    ASSUME NEW token \in Tokens
    PROVE  LET n == ParsePositiveInteger(token)
           IN  /\ IntervalInRange(n) <=> GoodValue("--interval", token)
               /\ TopInRange(n) <=> GoodValue("--top", token)
               /\ IntervalInRange(n) \/ TopInRange(n) => n = Chars[token].value
<1>1. Chars[token].value \in Int
  BY CharsAssumption
<1>2. /\ GoodValue("--interval", token) <=> Numeral(token, kMinInterval, kMaxInterval)
      /\ GoodValue("--top", token) <=> Numeral(token, 1, kMaxTopN)
  BY DEF GoodValue
<1>. QED
  BY <1>1, <1>2, LongestInterval
     DEF ParsePositiveInteger, IntervalInRange, TopInRange, Numeral, NotANumber,
         kMinInterval, kMaxTopN

\* The parsing stops at i: what happened so far is what the line means.
LEMMA UsesUpTo ==
    ASSUME ParserInv, Meant(i, config), i <= Len(args) => Stops(i), NEW option
    PROVE  Uses(option) = UsesBefore(option, i)
<1>0. i \in 1 .. Len(args) + 1 /\ Len(args) \in Nat
  BY DEF ParserInv, ParserTypeOK
<1>1. \A p \in 1 .. i - 1 : ~Stops(p)
  BY DEF Meant
<1>2. ASSUME NEW p \in 1 .. Len(args), Before(p), ~Stops(p)
      PROVE  p \in 1 .. i - 1
  <2>. SUFFICES ASSUME p > i PROVE FALSE
    BY <1>0, <1>2
  <2>1. i \in 1 .. p - 1 /\ i <= Len(args)
    BY <1>0
  <2>. QED
    BY <1>2, <2>1 DEF Before
<1>3. ASSUME NEW p \in 1 .. i - 1
      PROVE  p \in 1 .. Len(args) /\ Before(p)
  BY <1>0, <1>1 DEF Before
<1>. QED
  BY <1>1, <1>2, <1>3 DEF Uses, UsesBefore, Counts

\* The largest of the uses is the one that decides.
LEMMA LatestDecides ==
    ASSUME NEW n, n \in Nat,
           \A option : Uses(option) = UsesBefore(option, n), Meant(n, config)
    PROVE  /\ config.interval = Latest("--interval", 1000, LAMBDA token : Chars[token].value)
           /\ config.top_n = Latest("--top", 5, LAMBDA token : Chars[token].value)
           /\ config.sort_key = Latest("--sort", "cpu", LAMBDA token : Lower[token])
<1>1. ASSUME NEW option, NEW p \in UsesBefore(option, n),
             \A q \in UsesBefore(option, n) : q <= p
      PROVE  Uses(option) # {} /\ p = LastOf(Uses(option))
  <2>1. \A q \in Uses(option) : q \in Nat
    BY DEF UsesBefore
  <2>2. \A last \in Uses(option) : (\A q \in Uses(option) : q <= last) => last = p
    BY <1>1, <2>1
  <2>. QED
    BY <1>1, <2>2 DEF LastOf
<1>2. ASSUME NEW option, NEW default, NEW value, NEW Meaning(_),
             Decided(value, option, n, default, Meaning)
      PROVE  value = Latest(option, default, Meaning)
  <2>1. CASE UsesBefore(option, n) = {} /\ value = default
    BY <2>1 DEF Latest
  <2>2. CASE \E p \in UsesBefore(option, n) :
               (\A q \in UsesBefore(option, n) : q <= p) /\ value = Meaning(args[p + 1])
    <3>1. PICK p \in UsesBefore(option, n) :
              (\A q \in UsesBefore(option, n) : q <= p) /\ value = Meaning(args[p + 1])
      BY <2>2
    <3>2. Uses(option) # {} /\ p = LastOf(Uses(option))
      BY <1>1, <3>1
    <3>3. Latest(option, default, Meaning) = Meaning(args[LastOf(Uses(option)) + 1])
      BY <3>2 DEF Latest
    <3>. QED
      BY <3>1, <3>2, <3>3
  <2>. QED
    BY <1>2, <2>1, <2>2 DEF Decided
<1>. QED
  BY <1>2 DEF Meant

\* A failure is the one the reference names.
LEMMA FailureAgrees ==
    ASSUME ParserInv, IsHead(i), Meant(i, config), i <= Len(args), Wrong(i), args' = args,
           outcome' = "failed",
           offender' = IF args[i] \in Valued /\ i < Len(args) THEN i + 1 ELSE i
    PROVE  AgreesWithReference'
<1>1. i \in 1 .. Len(args) /\ Len(args) \in Nat
  BY DEF ParserInv, ParserTypeOK
<1>2. Counts(i)
  BY DEF Counts, Before, Meant
<1>3. ASSUME NEW p, p = i
      PROVE  Counts(p)' /\ Wrong(p)'
  <2>1. Counts(p) /\ Wrong(p)
    BY <1>2, <1>3
  <2>. QED
    BY <2>1, ArgsFixed
<1>4. \E p \in 1 .. Len(args) :
         /\ Counts(p)' /\ Wrong(p)'
         /\ offender' = IF args[p] \in Valued /\ p < Len(args) THEN p + 1 ELSE p
  BY <1>1, <1>3
<1>. QED
  BY <1>4 DEF AgreesWithReference

\* So is a success, at the end of the line or at --help.
LEMMA SuccessAgrees ==
    ASSUME ParserInv, MeaningInv, outcome = "parsing", args' = args, outcome' = "ok",
           \/ i > Len(args) /\ config' = config
           \/ At({"--help", "-h"}) /\ config' = [config EXCEPT !.help_requested = TRUE]
    PROVE  AgreesWithReference'
<1>0. i \in 1 .. Len(args) + 1 /\ Len(args) \in Nat /\ config \in Configs
  BY DEF ParserInv, ParserTypeOK
<1>1. Meant(i, config) /\ IsHead(i) /\ ~config.help_requested
  BY DEF MeaningInv
<1>2. i <= Len(args) => Stops(i) /\ args[i] \in {"--help", "-h"} /\ config'.help_requested
  <2>. SUFFICES ASSUME i <= Len(args)
                PROVE  Stops(i) /\ args[i] \in {"--help", "-h"} /\ config'.help_requested
    OBVIOUS
  <2>1. ~(i > Len(args))
    BY <1>0
  <2>2. At({"--help", "-h"}) /\ config' = [config EXCEPT !.help_requested = TRUE]
    BY <2>1
  <2>3. args[i] \in {"--help", "-h"}
    BY <2>2 DEF At, Arg
  <2>4. config'.help_requested
    BY <1>0, <2>2 DEF Configs
  <2>. QED
    BY <1>1, <2>3, <2>4 DEF Stops
<1>3. \A option : Uses(option) = UsesBefore(option, i)
  BY <1>1, <1>2, UsesUpTo
<1>4. \A option : Uses(option)' = Uses(option)
  <2>1. \A p : (Counts(p)' <=> Counts(p)) /\ (Stops(p)' <=> Stops(p))
    BY ArgsFixed
  <2>. QED
    BY <2>1 DEF Uses
<1>5. /\ config'.once = config.once /\ config'.interval = config.interval
      /\ config'.top_n = config.top_n /\ config'.sort_key = config.sort_key
  BY <1>0 DEF Configs
<1>6. config'.help_requested <=>
         \E p \in 1 .. Len(args) : Counts(p) /\ args[p] \in {"--help", "-h"}
  <2>1. CASE i <= Len(args)
    <3>1. Counts(i) /\ i \in 1 .. Len(args)
      BY <1>0, <1>1, <2>1 DEF Counts, Before, Meant
    <3>. QED
      BY <1>2, <2>1, <3>1
  <2>2. CASE i > Len(args)
    <3>1. \A p \in 1 .. Len(args) : ~Stops(p)
      BY <1>0, <1>1, <2>2 DEF Meant
    <3>2. ~config'.help_requested
      BY <1>1, <2>2, <1>0 DEF At
    <3>. QED
      BY <3>1, <3>2 DEF Counts, Stops
  <2>. QED
    BY <1>0, <2>1, <2>2
<1>7. ~config'.help_requested => \A p \in 1 .. Len(args) : ~Stops(p)
  BY <1>0, <1>1, <1>2 DEF Meant
<1>8. /\ config'.interval = Latest("--interval", 1000, LAMBDA token : Chars[token].value)'
      /\ config'.top_n = Latest("--top", 5, LAMBDA token : Chars[token].value)'
      /\ config'.sort_key = Latest("--sort", "cpu", LAMBDA token : Lower[token])'
  <2>1. i \in Nat
    BY <1>0
  <2>2. /\ config.interval = Latest("--interval", 1000, LAMBDA token : Chars[token].value)
        /\ config.top_n = Latest("--top", 5, LAMBDA token : Chars[token].value)
        /\ config.sort_key = Latest("--sort", "cpu", LAMBDA token : Lower[token])
    BY <1>1, <1>3, <2>1, LatestDecides
  <2>3. \A option : LastOf(Uses(option))' = LastOf(Uses(option))
    BY <1>4 DEF LastOf
  <2>. QED
    BY <1>4, <1>5, <2>2, <2>3 DEF Latest
<1>9. config'.once <=> Uses("--once")' # {}
  BY <1>1, <1>3, <1>4, <1>5 DEF Meant
<1>10. \A p : (Counts(p)' <=> Counts(p)) /\ (Stops(p)' <=> Stops(p))
  BY ArgsFixed
<1>. QED
  BY <1>6, <1>7, <1>8, <1>9, <1>10 DEF AgreesWithReference

\* One step of parse_args, argument by argument.
LEMMA MeaningStep ==
    ASSUME ParserInv, MeaningInv, ParserStep
    PROVE  MeaningInv' /\ AgreesWithReference'
<1>0. i \in 1 .. Len(args) + 1 /\ Len(args) \in Nat /\ config \in Configs
      /\ args \in Seq(Tokens)
  BY DEF ParserInv, ParserTypeOK
<1>1. args' = args /\ outcome = "parsing"
  BY DEF ParserStep, Help, Once, MissingValue, Interval, Top, Sort, UnknownArgument,
         ArgsOver, Fail, Accept, At, HasValue
<1>2. IsHead(i) /\ ~config.help_requested /\ Meant(i, config)
  BY <1>1 DEF MeaningInv
<1>3. ASSUME outcome' # "parsing", AgreesWithReference'
      PROVE  MeaningInv' /\ AgreesWithReference'
  BY <1>3 DEF MeaningInv
<1>4. ASSUME i <= Len(args), Wrong(i),
             Fail(IF args[i] \in Valued /\ i < Len(args) THEN i + 1 ELSE i)
      PROVE  MeaningInv' /\ AgreesWithReference'
  BY <1>0, <1>1, <1>2, <1>3, <1>4, FailureAgrees DEF Fail
<1>5. ASSUME i <= Len(args), ~Stops(i), outcome' = "parsing",
             \/ i' = i + 1 /\ args[i] \notin Valued
             \/ i' = i + 2 /\ args[i] \in Valued /\ i < Len(args),
             config'.once <=> config.once \/ args[i] = "--once",
             config'.interval = IF args[i] = "--interval" THEN Chars[args[i + 1]].value
                                ELSE config.interval,
             config'.top_n = IF args[i] = "--top" THEN Chars[args[i + 1]].value
                             ELSE config.top_n,
             config'.sort_key = IF args[i] = "--sort" THEN Lower[args[i + 1]]
                                ELSE config.sort_key,
             config'.help_requested = config.help_requested
      PROVE  MeaningInv' /\ AgreesWithReference'
  <2>1. \A n, c : n = i' /\ c = config' => IsHead(n) /\ Meant(n, c)
    BY <1>2, <1>5, MeantAfter
  <2>2. \A n, c : n = i' /\ c = config' => IsHead(n)' /\ Meant(n, c)'
    BY <1>1, <2>1, ArgsFixed, MeantFixed
  <2>3. IsHead(i)' /\ Meant(i, config)'
    BY <2>2
  <2>. QED
    BY <1>2, <1>5, <2>3 DEF MeaningInv, AgreesWithReference
<1>6. CASE Help
  <2>1. AgreesWithReference' /\ outcome' # "parsing"
    BY <1>1, <1>6, SuccessAgrees DEF Help
  <2>. QED
    BY <1>3, <2>1
<1>7. CASE ArgsOver
  <2>1. AgreesWithReference' /\ outcome' # "parsing"
    BY <1>1, <1>7, SuccessAgrees DEF ArgsOver
  <2>. QED
    BY <1>3, <2>1
<1>8. CASE Once
  <2>1. /\ i <= Len(args) /\ args[i] = "--once" /\ ~Stops(i)
        /\ args[i] \notin Valued
    BY <1>8 DEF Once, At, Arg, Stops, Wrong, Options, Valued
  <2>2. /\ i' = i + 1 /\ outcome' = "parsing"
        /\ config' = [config EXCEPT !["once"] = TRUE]
    BY <1>1, <1>8 DEF Once, Accept
  <2>. QED
    BY <1>0, <1>5, <2>1, <2>2 DEF Configs
<1>9. CASE MissingValue
  <2>1. i = Len(args) /\ args[i] \in Valued /\ Fail(i)
    BY <1>9 DEF MissingValue, At, Arg
  <2>2. i <= Len(args) /\ Wrong(i) /\ ~(i < Len(args))
    BY <1>0, <2>1 DEF Wrong
  <2>. QED
    BY <1>4, <2>1, <2>2
<1>10. CASE UnknownArgument
  <2>1. i <= Len(args) /\ args[i] \notin Options /\ Fail(i)
    BY <1>10 DEF UnknownArgument, Arg
  <2>2. Wrong(i) /\ args[i] \notin Valued
    BY <2>1 DEF Wrong, Options, Valued
  <2>. QED
    BY <1>4, <2>1, <2>2
<1>11. ASSUME NEW option \in Valued, HasValue(option)
       PROVE  /\ i <= Len(args) /\ i < Len(args) /\ args[i] = option
              /\ args[i] \in Valued /\ Value = args[i + 1] /\ Value \in Tokens
              /\ GoodValue(option, Value) => ~Stops(i)
              /\ ~GoodValue(option, Value) => Wrong(i)
  <2>1. i <= Len(args) /\ i < Len(args) /\ args[i] = option /\ Value = args[i + 1]
    BY <1>0, <1>11 DEF HasValue, At, Arg, Value
  <2>2. Value \in Tokens
    BY <1>0, <2>1
  <2>. QED
    BY <1>0, <2>1, <2>2 DEF Stops, Wrong, Valued, Options
<1>12. CASE Interval
  <2>. DEFINE n == ParsePositiveInteger(Value)
  <2>1. HasValue("--interval") /\ "--interval" \in Valued
    BY <1>12 DEF Interval, Valued
  <2>2. CASE IntervalInRange(n)
    <3>1. /\ i' = i + 2 /\ outcome' = "parsing"
          /\ config' = [config EXCEPT !["interval"] = n]
      BY <1>1, <1>12, <2>2 DEF Interval, Accept
    <3>2. ~Stops(i) /\ n = Chars[args[i + 1]].value
      BY <1>11, <2>1, <2>2, SameCheck
    <3>. HIDE DEF n
    <3>. QED
      BY <1>0, <1>5, <1>11, <2>1, <3>1, <3>2 DEF Configs
  <2>3. CASE ~IntervalInRange(n)
    BY <1>4, <1>11, <1>12, <2>1, <2>3, SameCheck DEF Interval
  <2>. QED
    BY <2>2, <2>3
<1>13. CASE Top
  <2>. DEFINE n == ParsePositiveInteger(Value)
  <2>1. HasValue("--top") /\ "--top" \in Valued
    BY <1>13 DEF Top, Valued
  <2>2. CASE TopInRange(n)
    <3>1. /\ i' = i + 2 /\ outcome' = "parsing"
          /\ config' = [config EXCEPT !["top_n"] = n]
      BY <1>1, <1>13, <2>2 DEF Top, Accept
    <3>2. ~Stops(i) /\ n = Chars[args[i + 1]].value
      BY <1>11, <2>1, <2>2, SameCheck
    <3>. HIDE DEF n
    <3>. QED
      BY <1>0, <1>5, <1>11, <2>1, <3>1, <3>2 DEF Configs
  <2>3. CASE ~TopInRange(n)
    BY <1>4, <1>11, <1>13, <2>1, <2>3, SameCheck DEF Top
  <2>. QED
    BY <2>2, <2>3
<1>14. CASE Sort
  <2>1. HasValue("--sort") /\ "--sort" \in Valued
    BY <1>14 DEF Sort, Valued
  <2>2. GoodValue("--sort", Value) <=> Lower[Value] \in SortKeys
    BY DEF GoodValue
  <2>3. CASE Lower[Value] \in SortKeys
    <3>1. /\ i' = i + 2 /\ outcome' = "parsing"
          /\ config' = [config EXCEPT !["sort_key"] = Lower[Value]]
      BY <1>1, <1>14, <2>3 DEF Sort, Accept
    <3>. QED
      BY <1>0, <1>5, <1>11, <2>1, <2>2, <2>3, <3>1 DEF Configs
  <2>4. CASE Lower[Value] \notin SortKeys
    BY <1>4, <1>11, <1>14, <2>1, <2>2, <2>4 DEF Sort
  <2>. QED
    BY <2>3, <2>4
<1>. QED
  BY <1>6, <1>7, <1>8, <1>9, <1>10, <1>12, <1>13, <1>14 DEF ParserStep

\* At the first argument nothing has been said: the defaults stand.
LEMMA MeaningInit ==
    ASSUME NEW lines \in SUBSET Seq(Tokens), ParserInit(lines)
    PROVE  MeaningInv /\ AgreesWithReference
<1>1. \A option : UsesBefore(option, i) = {}
  BY DEF ParserInit, UsesBefore
<1>2. \A p \in 1 .. i - 1 : FALSE
  BY DEF ParserInit
<1>3. IsHead(i)
  BY FirstIsHead DEF ParserInit
<1>4. Meant(i, config)
  BY <1>1, <1>2 DEF Meant, Decided, ParserInit, Defaults
<1>. QED
  BY <1>3, <1>4 DEF MeaningInv, AgreesWithReference, ParserInit, Defaults

\* The program does what its command line means: the first wrong argument is
\* the one reported, values are never taken for options, the last use of an
\* option decides, and --help hides what follows it, for any words and lines of
\* any length (parser.cpp L35-L102).
THEOREM CommandLineAsMeant == FrontSpec => []ParsedAsMeant
<1>. DEFINE Inv == phase = "parsing" => MeaningInv /\ AgreesWithReference
<1>1. FrontInit => Inv
  BY MeaningInit, LinesAssumption DEF FrontInit
<1>2. ParserInv /\ Inv /\ [FrontNext]_frontVars => Inv'
  <2>. SUFFICES ASSUME ParserInv, Inv, [FrontNext]_frontVars, phase' = "parsing"
                PROVE  MeaningInv' /\ AgreesWithReference'
    OBVIOUS
  <2>1. CASE Parse
    BY <2>1, MeaningStep DEF Parse
  <2>2. CASE UNCHANGED frontVars
    <3>1. UNCHANGED <<args, i, config, outcome, offender, phase>>
      BY <2>2 DEF frontVars, parserVars
    <3>2. \A p : (IsHead(p)' <=> IsHead(p)) /\ (Wrong(p)' <=> Wrong(p))
                 /\ (Stops(p)' <=> Stops(p)) /\ (Counts(p)' <=> Counts(p))
      BY <3>1, ArgsFixed
    <3>3. \A n, c : Meant(n, c)' <=> Meant(n, c)
      BY <3>1, MeantFixed
    <3>4. \A n, c : n = i /\ c = config /\ IsHead(n) /\ Meant(n, c)
                     => IsHead(n)' /\ Meant(n, c)'
      BY <3>2, <3>3
    <3>5. IsHead(i) /\ Meant(i, config) => (IsHead(i) /\ Meant(i, config))'
      BY <3>1, <3>4
    <3>6. \A option : Uses(option)' = Uses(option)
      BY <3>1, <3>2 DEF Uses
    <3>7. AgreesWithReference'
      BY <3>1, <3>2, <3>6, Zenon DEF AgreesWithReference, Latest
    <3>. QED
      BY <3>1, <3>5, <3>7 DEF MeaningInv
  <2>. QED
    BY <2>1, <2>2
       DEF FrontNext, Start, PrintOnce, Home, Paint, SayGoodbye, Over
<1>3. Inv => ParsedAsMeant
  BY DEF ParsedAsMeant
<1>. QED
  BY FrontInductive, <1>1, <1>2, <1>3, PTL DEF FrontSpec
-----------------------------------------------------------------------------
(***************************************************************************)
(* What format.cpp prints of a number is right for every number, whatever  *)
(* Kilo is: rounding to the nearest tenth keeps order, and the units are   *)
(* powers of Kilo that the loop stops at rightly.                          *)
(***************************************************************************)
LEMMA Division ==
    ASSUME NEW n \in Nat, NEW d \in Nat \ {0}
    PROVE  /\ n \div d \in Nat /\ n % d \in 0 .. d - 1
           /\ d * (n \div d) + (n % d) = n
OBVIOUS

\* A larger factor makes a larger product.
LEMMA Larger ==
    ASSUME NEW a \in Int, NEW b \in Int, NEW c \in Nat, a <= b
    PROVE  a * c <= b * c
OBVIOUS

\* The nearest integer is half away at most, and of two it is the even one.
LEMMA NearestRight ==
    ASSUME NEW n \in Nat, NEW d \in Nat \ {0}
    PROVE  /\ Nearest(n, d) \in Nat
           /\ 2 * (Nearest(n, d) * d - n) \in -d .. d
           /\ 2 * (Nearest(n, d) * d - n) \in {-d, d} => Nearest(n, d) % 2 = 0
<1>. DEFINE q == n \div d
            r == n % d
<1>1. q \in Nat /\ r \in 0 .. d - 1 /\ d * q + r = n
  BY Division
<1>2. Nearest(n, d) = IF 2 * r < d \/ (2 * r = d /\ q % 2 = 0) THEN q ELSE q + 1
  BY DEF Nearest
<1>. HIDE DEF q, r
<1>3. q * d - n = -r /\ (q + 1) * d - n = d - r
  BY <1>1
<1>4. CASE 2 * r < d \/ (2 * r = d /\ q % 2 = 0)
  BY <1>1, <1>2, <1>3, <1>4
<1>5. CASE ~(2 * r < d \/ (2 * r = d /\ q % 2 = 0))
  <2>1. Nearest(n, d) = q + 1 /\ 2 * r >= d /\ (2 * r = d => q % 2 # 0)
    BY <1>1, <1>2, <1>5
  <2>2. 2 * r = d => (q + 1) % 2 = 0
    BY <1>1, <2>1
  <2>. QED
    BY <1>1, <1>3, <2>1, <2>2
<1>. QED
  BY <1>4, <1>5

\* Rounding keeps the order of two ratios.
LEMMA NearestMonotone ==
    ASSUME NEW n \in Nat, NEW d \in Nat \ {0}, NEW m \in Nat, NEW e \in Nat \ {0},
           n * e <= m * d
    PROVE  Nearest(n, d) <= Nearest(m, e)
<1>. DEFINE N == Nearest(n, d)
            M == Nearest(m, e)
<1>1. /\ N \in Nat /\ 2 * (N * d - n) \in -d .. d
      /\ 2 * (N * d - n) \in {-d, d} => N % 2 = 0
  BY NearestRight
<1>2. /\ M \in Nat /\ 2 * (M * e - m) \in -e .. e
      /\ 2 * (M * e - m) \in {-e, e} => M % 2 = 0
  BY NearestRight
<1>. HIDE DEF N, M
<1>. SUFFICES ASSUME N >= M + 1 PROVE FALSE
  BY <1>1, <1>2 DEF N, M
<1>. DEFINE de == d * e
            x  == n * e
            y  == m * d
<1>3. de \in Nat \ {0} /\ x \in Nat /\ y \in Nat /\ x <= y
  OBVIOUS
<1>4. 2 * (N * d - n) * e <= d * e
  <2>1. N * d \in Nat
    BY <1>1
  <2>. QED
    BY <1>1, <2>1, Larger
<1>5. 2 * (M * e - m) * d >= -e * d
  <2>1. M * e \in Nat
    BY <1>2
  <2>. QED
    BY <1>2, <2>1, Larger
<1>6. 2 * (N * de) - 2 * x <= de /\ 2 * (M * de) - 2 * y >= -de
  BY <1>1, <1>2, <1>4, <1>5
<1>7. N * de >= M * de + de
  <2>1. (M + 1) * de <= N * de
    BY <1>1, <1>2, <1>3, Larger
  <2>. QED
    BY <1>2, <1>3, <2>1
<1>8. /\ N * de = M * de + de
      /\ 2 * (N * de) - 2 * x = de /\ 2 * (M * de) - 2 * y = -de
  BY <1>1, <1>2, <1>3, <1>6, <1>7
<1>9. N = M + 1
  BY <1>1, <1>2, <1>3, <1>8
<1>10. 2 * (N * d - n) = d
  <2>1. (2 * (N * d - n)) * e = d * e
    BY <1>1, <1>8
  <2>. QED
    BY <1>1, <2>1
<1>11. 2 * (M * e - m) = -e
  <2>1. (2 * (M * e - m)) * d = (-e) * d
    BY <1>2, <1>8
  <2>. QED
    BY <1>2, <2>1
<1>12. N % 2 = 0 /\ M % 2 = 0
  BY <1>1, <1>2, <1>10, <1>11
<1>. QED
  BY <1>1, <1>2, <1>9, <1>12

\* A whole number is not rounded.
LEMMA NearestOfOne == \A n \in Nat : Nearest(n, 1) = n
<1>. SUFFICES ASSUME NEW n \in Nat PROVE Nearest(n, 1) = n
  OBVIOUS
<1>1. ASSUME NEW d, d = 1 PROVE Nearest(n, d) = n
  <2>1. d \in Nat \ {0}
    BY <1>1
  <2>2. Nearest(n, d) \in Nat /\ 2 * (Nearest(n, d) * d - n) \in -d .. d
    BY <2>1, NearestRight
  <2>3. Nearest(n, d) * d = Nearest(n, d)
    BY <1>1, <2>2
  <2>4. 2 * (Nearest(n, d) - n) \in -1 .. 1
    BY <1>1, <2>2, <2>3
  <2>. QED
    BY <2>2, <2>4
<1>. QED
  BY <1>1

\* Each unit is Kilo of the one before, and larger.
LEMMA UnitSizes ==
    /\ Len(Units) = 6
    /\ \A u \in 1 .. 6 : UnitSize[u] \in Nat \ {0}
    /\ UnitSize[1] = 1
    /\ \A u \in 1 .. 5 : UnitSize[u + 1] = Kilo * UnitSize[u]
    /\ \A u, v \in 1 .. 6 : u <= v => UnitSize[u] <= UnitSize[v]
<1>1. Kilo \in Nat /\ Kilo > 1
  BY KiloAssumption
<1>. DEFINE Powers == <<Kilo * Kilo, Kilo * Kilo * Kilo, Kilo * Kilo * Kilo * Kilo,
                        Kilo * Kilo * Kilo * Kilo * Kilo>>
<1>2. ASSUME NEW a \in Nat \ {0}
      PROVE  a * Kilo \in Nat \ {0} /\ a <= a * Kilo /\ a * Kilo = Kilo * a
  BY <1>1
<1>3. /\ Kilo * Kilo \in Nat \ {0} /\ Kilo <= Kilo * Kilo
      /\ Kilo * Kilo * Kilo \in Nat \ {0} /\ Kilo * Kilo <= Kilo * Kilo * Kilo
      /\ Kilo * Kilo * Kilo * Kilo \in Nat \ {0}
      /\ Kilo * Kilo * Kilo <= Kilo * Kilo * Kilo * Kilo
      /\ Kilo * Kilo * Kilo * Kilo * Kilo \in Nat \ {0}
      /\ Kilo * Kilo * Kilo * Kilo <= Kilo * Kilo * Kilo * Kilo * Kilo
  <2>1. Kilo \in Nat \ {0}
    BY <1>1
  <2>2. Kilo * Kilo \in Nat \ {0} /\ Kilo <= Kilo * Kilo
    BY <1>2, <2>1
  <2>3. Kilo * Kilo * Kilo \in Nat \ {0} /\ Kilo * Kilo <= Kilo * Kilo * Kilo
    BY <1>2, <2>2
  <2>4. Kilo * Kilo * Kilo * Kilo \in Nat \ {0}
        /\ Kilo * Kilo * Kilo <= Kilo * Kilo * Kilo * Kilo
    BY <1>2, <2>3
  <2>5. Kilo * Kilo * Kilo * Kilo * Kilo \in Nat \ {0}
        /\ Kilo * Kilo * Kilo * Kilo <= Kilo * Kilo * Kilo * Kilo * Kilo
    BY <1>2, <2>4
  <2>. QED
    BY <2>2, <2>3, <2>4, <2>5
<1>4. /\ UnitSize[1] = 1 /\ UnitSize[2] = Kilo /\ UnitSize[3] = Kilo * Kilo
      /\ UnitSize[4] = Kilo * Kilo * Kilo /\ UnitSize[5] = Kilo * Kilo * Kilo * Kilo
      /\ UnitSize[6] = Kilo * Kilo * Kilo * Kilo * Kilo
  BY DEF UnitSize
<1>5. \A u \in 1 .. 6 : UnitSize[u] \in Nat \ {0}
  BY <1>1, <1>3, <1>4
<1>6. \A u \in 1 .. 5 : UnitSize[u] <= UnitSize[u + 1]
  BY <1>1, <1>3, <1>4
<1>7. \A u, v \in 1 .. 6 : u <= v => UnitSize[u] <= UnitSize[v]
  <2>1. /\ UnitSize[1] <= UnitSize[2] /\ UnitSize[2] <= UnitSize[3]
        /\ UnitSize[3] <= UnitSize[4] /\ UnitSize[4] <= UnitSize[5]
        /\ UnitSize[5] <= UnitSize[6]
    BY <1>6
  <2>2. \A u \in 1 .. 6 : UnitSize[u] \in Int
    BY <1>5
  <2>. QED
    BY <2>1, <2>2
<1>8. \A u \in 1 .. 5 : UnitSize[u + 1] = Kilo * UnitSize[u]
  <2>1. UnitSize[2] = Kilo * UnitSize[1]
    BY <1>1, <1>4
  <2>2. UnitSize[3] = Kilo * UnitSize[2]
    BY <1>4
  <2>3. UnitSize[4] = Kilo * UnitSize[3]
    BY <1>2, <1>3, <1>4
  <2>4. UnitSize[5] = Kilo * UnitSize[4]
    BY <1>2, <1>3, <1>4
  <2>5. UnitSize[6] = Kilo * UnitSize[5]
    BY <1>2, <1>3, <1>4
  <2>. QED
    BY <2>1, <2>2, <2>3, <2>4, <2>5
<1>. QED
  BY <1>4, <1>5, <1>7, <1>8 DEF Units

\* The loop of format::bytes stops at the right unit.
LEMMA UnitFound ==
    ASSUME NEW value \in Nat
    PROVE  /\ UnitIndex(value) \in 1 .. 6
           /\ UnitIndex(value) # 1 => value >= UnitSize[UnitIndex(value)]
           /\ UnitIndex(value) # 6 => value < UnitSize[UnitIndex(value) + 1]
<1>. DEFINE Stop(u) == /\ u = 1 \/ value >= UnitSize[u]
                       /\ u = Len(Units) \/ value < UnitSize[u + 1]
<1>1. \A u \in 1 .. 6 : UnitSize[u] \in Nat
  BY UnitSizes
<1>2. \E u \in 1 .. 6 : Stop(u)
  <2>1. Stop(1) \/ Stop(2) \/ Stop(3) \/ Stop(4) \/ Stop(5) \/ Stop(6)
    BY <1>1, UnitSizes
  <2>. QED
    BY <2>1
<1>3. UnitIndex(value) \in 1 .. 6 /\ Stop(UnitIndex(value))
  BY <1>2, UnitSizes DEF UnitIndex
<1>. QED
  BY <1>1, <1>3, UnitSizes

\* What is printed is typed, and what it reads as.
LEMMA BytesOf ==
    ASSUME NEW value \in Nat
    PROVE  /\ Bytes(value).unit = UnitIndex(value)
           /\ Bytes(value).tenths = Nearest(10 * value, UnitSize[UnitIndex(value)])
           /\ Bytes(value).tenths \in Nat
           /\ Read(Bytes(value)) = Bytes(value).tenths * UnitSize[UnitIndex(value)]
           /\ Read(Bytes(value)) \in Nat
<1>1. UnitSize[UnitIndex(value)] \in Nat \ {0}
  BY UnitFound, UnitSizes
<1>2. /\ Bytes(value).unit = UnitIndex(value)
      /\ Bytes(value).tenths = Nearest(10 * value, UnitSize[UnitIndex(value)])
  BY DEF Bytes, Tenths, Ratio
<1>3. Bytes(value).tenths \in Nat
  <2>. DEFINE size == UnitSize[UnitIndex(value)]
              n == 10 * value
  <2>1. n \in Nat /\ size \in Nat \ {0}
    BY <1>1
  <2>. HIDE DEF n, size
  <2>2. Nearest(n, size) \in Nat
    BY <2>1, NearestRight
  <2>. QED
    BY <1>2, <2>2 DEF n, size
<1>4. Read(Bytes(value)) = Bytes(value).tenths * UnitSize[UnitIndex(value)]
  BY <1>2 DEF Read
<1>. QED
  BY <1>1, <1>2, <1>3, <1>4

\* From one unit on, at least 1.0 of it is printed; and at most Kilo of it.
LEMMA TenthsOfAUnit ==
    ASSUME NEW value \in Nat
    PROVE  /\ UnitIndex(value) # 1 => Bytes(value).tenths >= 10
           /\ UnitIndex(value) # 6 => Bytes(value).tenths <= 10 * Kilo
<1>. DEFINE u == UnitIndex(value)
            size == UnitSize[u]
<1>1. /\ u \in 1 .. 6 /\ size \in Nat \ {0} /\ Kilo \in Nat
      /\ u # 1 => value >= size
      /\ u # 6 => value < Kilo * size
  BY UnitFound, UnitSizes, KiloAssumption
<1>2. \A n \in Nat : Nearest(n, 1) = n
  BY NearestOfOne
<1>3. ASSUME u # 1 PROVE Nearest(10 * value, size) >= 10
  <2>1. 10 * size <= (10 * value) * 1 /\ 10 * value \in Nat
    BY <1>1, <1>3
  <2>. HIDE DEF size, u
  <2>2. Nearest(10, 1) <= Nearest(10 * value, size)
    BY <1>1, <2>1, NearestMonotone
  <2>. QED
    BY <1>1, <1>2, <2>1, <2>2, NearestRight
<1>4. ASSUME u # 6 PROVE Nearest(10 * value, size) <= 10 * Kilo
  <2>. DEFINE kilo == 10 * Kilo
  <2>1. (10 * value) * 1 <= kilo * size /\ 10 * value \in Nat /\ kilo \in Nat
    <3>1. Kilo * size \in Nat /\ kilo * size = 10 * (Kilo * size)
      BY <1>1
    <3>. QED
      BY <1>1, <1>4, <3>1
  <2>. HIDE DEF size, u, kilo
  <2>2. Nearest(10 * value, size) <= Nearest(kilo, 1)
    BY <1>1, <2>1, NearestMonotone
  <2>3. Nearest(10 * value, size) <= kilo
    BY <1>2, <2>1, <2>2
  <2>. QED
    BY <2>3 DEF kilo
<1>. QED
  BY <1>3, <1>4, BytesOf

\* Every size is printed right to the last digit, in each unit and at each
\* change of units, whatever the number is (format.cpp L9-L26).
THEOREM EverySizeRight == \A value \in Nat : BytesRight(value)
<1>. SUFFICES ASSUME NEW value \in Nat PROVE BytesRight(value)
  OBVIOUS
<1>. DEFINE u == UnitIndex(value)
            size == UnitSize[u]
            tenths == Bytes(value).tenths
<1>1. /\ u \in 1 .. 6 /\ size \in Nat \ {0} /\ Kilo \in Nat
      /\ u # 1 => value >= size
      /\ u # 6 => value < Kilo * size
  BY UnitFound, UnitSizes, KiloAssumption
<1>2. /\ Bytes(value).unit = u /\ tenths = Nearest(10 * value, size) /\ tenths \in Nat
      /\ Read(Bytes(value)) = tenths * size
  BY BytesOf
<1>3. 2 * (Read(Bytes(value)) - 10 * value) \in -size .. size
  <2>. HIDE DEF size, u, tenths
  <2>1. 10 * value \in Nat
    OBVIOUS
  <2>. QED
    BY <1>1, <1>2, <2>1, NearestRight
<1>4. value < Kilo => u = 1
  <2>1. u # 1 => UnitSize[2] <= UnitSize[u] /\ UnitSize[2] = Kilo * UnitSize[1]
    BY <1>1, UnitSizes
  <2>2. u # 1 => Kilo <= size
    BY <1>1, <2>1, UnitSizes
  <2>. HIDE DEF u, size
  <2>. QED
    BY <1>1, <2>2
<1>5. value < Kilo => Read(Bytes(value)) = 10 * value
  <2>. HIDE DEF u, tenths
  <2>1. value < Kilo => size = 1
    BY <1>4, UnitSizes
  <2>2. Read(Bytes(value)) \in Nat
    BY BytesOf
  <2>. HIDE DEF size
  <2>. QED
    BY <1>3, <2>1, <2>2
<1>6. value >= Kilo => tenths >= 10
  <2>1. UnitSize[2] = Kilo
    BY <1>1, UnitSizes
  <2>2. value >= Kilo => u # 1
    BY <1>1, <2>1, UnitFound
  <2>. QED
    BY <2>2, TenthsOfAUnit
<1>7. UnitSize[Bytes(value).unit] = size
  BY <1>2
<1>. HIDE DEF u, size, tenths
<1>. QED
  BY <1>1, <1>2, <1>3, <1>5, <1>6, <1>7, UnitSizes DEF BytesRight, tenths

\* A larger size never reads as a smaller one, within a unit or across units.
LEMMA BytesMonotone ==
    ASSUME NEW a \in Nat, NEW b \in Nat, a <= b
    PROVE  Read(Bytes(a)) <= Read(Bytes(b))
<1>. DEFINE u == UnitIndex(a)
            v == UnitIndex(b)
<1>1. /\ u \in 1 .. 6 /\ v \in 1 .. 6
      /\ u # 1 => a >= UnitSize[u]
      /\ v # 6 => b < UnitSize[v + 1]
  BY UnitFound
<1>2. \A x \in 1 .. 6 : UnitSize[x] \in Nat \ {0}
  BY UnitSizes
<1>3. u <= v
  <2>. SUFFICES ASSUME v < u PROVE FALSE
    BY <1>1
  <2>1. UnitSize[v + 1] <= UnitSize[u]
    BY <1>1, UnitSizes
  <2>. QED
    BY <1>1, <1>2, <2>1
<1>4. /\ Read(Bytes(a)) = Bytes(a).tenths * UnitSize[u] /\ Bytes(a).tenths \in Nat
      /\ Read(Bytes(b)) = Bytes(b).tenths * UnitSize[v] /\ Bytes(b).tenths \in Nat
  BY BytesOf
<1>5. CASE u = v
  <2>1. Bytes(a).tenths <= Bytes(b).tenths
    <3>. DEFINE size == UnitSize[u]
    <3>1. size \in Nat \ {0}
      BY <1>1, <1>2
    <3>2. Bytes(a).tenths = Nearest(10 * a, size) /\ Bytes(b).tenths = Nearest(10 * b, size)
      BY <1>5, BytesOf
    <3>. HIDE DEF size
    <3>3. 10 * a \in Nat /\ 10 * b \in Nat /\ (10 * a) * size <= (10 * b) * size
      BY <3>1
    <3>. QED
      BY <3>1, <3>2, <3>3, NearestMonotone
  <2>2. UnitSize[u] \in Nat
    BY <1>1, <1>2
  <2>. QED
    BY <1>4, <1>5, <2>1, <2>2, Larger
<1>6. CASE u < v
  <2>1. Bytes(a).tenths <= 10 * Kilo /\ Bytes(b).tenths >= 10
    BY <1>1, <1>6, TenthsOfAUnit
  <2>2. /\ UnitSize[u] \in Nat /\ UnitSize[v] \in Nat /\ Kilo \in Nat
        /\ Kilo * UnitSize[u] \in Nat /\ Kilo * UnitSize[u] <= UnitSize[v]
    <3>1. UnitSize[u + 1] = Kilo * UnitSize[u] /\ UnitSize[u + 1] <= UnitSize[v]
      BY <1>1, <1>6, UnitSizes
    <3>. QED
      BY <1>1, <1>2, <3>1, KiloAssumption
  <2>. HIDE DEF u, v
  <2>3. Read(Bytes(a)) <= (10 * Kilo) * UnitSize[u]
    BY <1>4, <2>1, <2>2, Larger
  <2>4. 10 * UnitSize[v] <= Read(Bytes(b))
    BY <1>4, <2>1, <2>2, Larger
  <2>5. (10 * Kilo) * UnitSize[u] = 10 * (Kilo * UnitSize[u])
    BY <2>2
  <2>6. Read(Bytes(a)) \in Nat /\ Read(Bytes(b)) \in Nat
    BY BytesOf
  <2>. QED
    BY <2>2, <2>3, <2>4, <2>5, <2>6
<1>. QED
  BY <1>1, <1>3, <1>5, <1>6

\* More bytes are never shown as used than there are (renderer.cpp L38, L60).
THEOREM UsedWithinTotal ==
    ASSUME NEW total \in Nat, NEW free \in Nat
    PROVE  Used(total, free) \in 0 .. total
BY DEF Used

\* Two sizes that differ by less than a twentieth of a percent are shown as two
\* numbers that are as near to each other as their rounding allows.
LEMMA NearSizes ==
    ASSUME NEW a \in Nat, NEW b \in Nat, a <= b, 2000 * (b - a) <= b
    PROVE  11 * Read(Bytes(a)) >= 10 * Read(Bytes(b))
<1>. DEFINE u == UnitIndex(a)
            v == UnitIndex(b)
            U == UnitSize[u]
            V == UnitSize[v]
            x == Bytes(a).tenths
            y == Bytes(b).tenths
            X == Read(Bytes(a))
            Y == Read(Bytes(b))
<1>. SUFFICES 11 * X >= 10 * Y
  OBVIOUS
<1>1. /\ u \in 1 .. 6 /\ v \in 1 .. 6
      /\ U \in Nat \ {0} /\ V \in Nat \ {0}
      /\ u # 1 => a >= U
      /\ v # 1 => b >= V
      /\ v # 6 => b < UnitSize[v + 1]
  BY UnitFound, UnitSizes
<1>2. /\ x = Nearest(10 * a, U) /\ x \in Nat /\ X = x * U /\ X \in Nat
      /\ y = Nearest(10 * b, V) /\ y \in Nat /\ Y = y * V /\ Y \in Nat
  BY BytesOf
<1>3. /\ 2 * (X - 10 * a) \in -U .. U
      /\ 2 * (Y - 10 * b) \in -V .. V
  <2>. DEFINE n == 10 * a
              m == 10 * b
  <2>1. n \in Nat /\ m \in Nat
    OBVIOUS
  <2>. HIDE DEF n, m, U, V
  <2>4. U \in Nat \ {0} /\ V \in Nat \ {0}
    BY <1>1
  <2>5. ASSUME NEW e \in Nat, NEW d \in Nat \ {0}
        PROVE  2 * (Nearest(e, d) * d - e) \in -d .. d
    BY NearestRight
  <2>2. 2 * (Nearest(n, U) * U - n) \in -U .. U
    BY <2>1, <2>4, <2>5
  <2>3. 2 * (Nearest(m, V) * V - m) \in -V .. V
    BY <2>1, <2>4, <2>5
  <2>. QED
    BY <1>2, <2>2, <2>3 DEF n, m
<1>4. u # 1 => x >= 10
  BY TenthsOfAUnit
<1>5. u <= v
  <2>. SUFFICES ASSUME v < u PROVE FALSE
    BY <1>1
  <2>1. UnitSize[v + 1] <= UnitSize[u] /\ UnitSize[v + 1] \in Nat
    BY <1>1, UnitSizes
  <2>. HIDE DEF u, v
  <2>2. v # 6 /\ u # 1
    BY <1>1
  <2>. QED
    BY <1>1, <2>1, <2>2
<1>6. CASE u = v /\ u = 1
  <2>1. X = 10 * a /\ Y = 10 * b
    <3>1. U = 1 /\ V = 1
      BY <1>6, UnitSizes
    <3>2. x = 10 * a /\ y = 10 * b
      BY <1>2, <3>1, NearestOfOne
    <3>. HIDE DEF x, y, U, V, X, Y
    <3>. QED
      BY <1>2, <3>1, <3>2
  <2>. HIDE DEF X, Y
  <2>. QED
    BY <2>1
<1>7. CASE u = v /\ u # 1
  <2>1. U = V
    BY <1>7
  <2>2. X >= 10 * U /\ (x # 10 => X >= 11 * U) /\ (x = 10 => X = 10 * U)
    <3>1. x >= 10
      BY <1>4, <1>7
    <3>. HIDE DEF x, U, X
    <3>2. 10 * U <= x * U
      BY <1>1, <1>2, <3>1, Larger
    <3>3. x # 10 => 11 * U <= x * U
      <4>1. x # 10 => 11 <= x
        BY <1>2, <3>1
      <4>. QED
        BY <1>1, <1>2, <4>1, Larger
    <3>. QED
      BY <1>1, <1>2, <3>2, <3>3
  <2>3. y > 11 => Y >= 12 * V
    <3>. HIDE DEF y, V, Y
    <3>1. y > 11 => 12 * V <= y * V
      BY <1>1, <1>2, Larger
    <3>. QED
      BY <1>2, <3>1
  <2>4. y <= 11 => Y <= 11 * V
    <3>. HIDE DEF y, V, Y
    <3>1. y <= 11 => y * V <= 11 * V
      BY <1>1, <1>2, Larger
    <3>. QED
      BY <1>2, <3>1
  <2>. HIDE DEF x, y, X, Y, U, V
  <2>5. CASE x # 10
    BY <1>1, <1>2, <1>3, <2>1, <2>2, <2>5
  <2>6. CASE x = 10
    <3>1. ~(Y >= 12 * V)
      BY <1>1, <1>2, <1>3, <2>1, <2>2, <2>6
    <3>2. Y <= 11 * V
      BY <1>2, <2>3, <2>4, <3>1
    <3>. QED
      BY <1>1, <1>2, <2>1, <2>2, <2>6, <3>2
  <2>. QED
    BY <2>5, <2>6
<1>8. CASE u < v
  <2>1. 2 * U <= V
    <3>1. UnitSize[u + 1] = Kilo * UnitSize[u] /\ UnitSize[u + 1] <= UnitSize[v]
      BY <1>1, <1>8, UnitSizes
    <3>. HIDE DEF u, v
    <3>2. 2 * U <= Kilo * U
      BY <1>1, KiloAssumption, Larger
    <3>3. Kilo * U \in Nat /\ Kilo * U <= V
      BY <1>1, <3>1, KiloAssumption
    <3>. HIDE DEF U, V
    <3>. QED
      BY <1>1, <3>2, <3>3
  <2>2. b >= V
    BY <1>1, <1>8
  <2>. HIDE DEF X, Y, U, V
  <2>. QED
    BY <1>1, <1>2, <1>3, <2>1, <2>2
<1>. QED
  BY <1>1, <1>5, <1>6, <1>7, <1>8

\* What UsageMakesSense says of a line.
Sensible(used, total, percent) ==
    /\ used <= total
    /\ percent \in 0 .. 1000
    /\ percent = 1000 => 11 * used >= 10 * total
    /\ used = 0 => percent = 0

SensibleLine(show) == Sensible(Read(show.used), Read(show.total), show.percent)

\* A usage line makes sense, whatever its two numbers are, free larger than
\* total included (renderer.cpp L34-L47, L60-L64).
LEMMA UsageSensible ==
    ASSUME NEW total \in Nat, NEW free \in Nat
    PROVE  SensibleLine(Usage(total, free))
<1>. DEFINE u == Used(total, free)
            percent == Percent(PercentUsed(total, free))
            X == Read(Bytes(u))
            Y == Read(Bytes(total))
<1>1. u \in Nat /\ u <= total
  BY UsedWithinTotal
<1>2. /\ Usage(total, free).used = Bytes(u) /\ Usage(total, free).total = Bytes(total)
      /\ Usage(total, free).percent = percent
  BY DEF Usage
<1>3. /\ total = 0 => percent = Nearest(0, 1)
      /\ total # 0 => percent = Nearest(1000 * u, total)
  <2>1. CASE total = 0
    BY <2>1 DEF Percent, Tenths, PercentUsed, Zero, Ratio
  <2>2. CASE total # 0
    <3>1. u = IF free >= total THEN 0 ELSE total - free
      BY DEF Used
    <3>. HIDE DEF u
    <3>2. PercentUsed(total, free) = Clamp100(Ratio(100 * u, total))
      BY <2>2, <3>1 DEF PercentUsed
    <3>3. Clamp100(Ratio(100 * u, total)) = Ratio(100 * u, total)
      BY <1>1, <2>2 DEF Clamp100, AtLeast, AtMost, Ratio
    <3>4. 10 * (100 * u) = 1000 * u
      BY <1>1
    <3>. QED
      BY <2>2, <3>2, <3>3, <3>4 DEF Percent, Tenths, Ratio
  <2>. QED
    BY <2>1, <2>2
<1>. HIDE DEF u, percent
<1>4. CASE total = 0
  <2>1. percent = 0 /\ u = 0
    BY <1>1, <1>3, <1>4, NearestOfOne
  <2>2. X = Y /\ X \in Nat
    BY <1>1, <1>4, <2>1, BytesOf
  <2>. HIDE DEF X, Y
  <2>3. Sensible(X, Y, percent)
    BY <2>1, <2>2 DEF Sensible
  <2>. QED
    BY <1>2, <2>3, Zenon DEF SensibleLine, X, Y
<1>5. CASE total # 0
  <2>. DEFINE n == 1000 * u
  <2>1. n \in Nat /\ total \in Nat \ {0} /\ percent = Nearest(n, total)
    BY <1>1, <1>3, <1>5
  <2>2. n * 1 <= 1000 * total
    BY <1>1
  <2>. HIDE DEF n
  <2>3. /\ percent \in Nat
        /\ 2 * (percent * total - n) \in -total .. total
    BY <2>1, NearestRight
  <2>4. percent <= 1000
    <3>1. Nearest(n, total) <= Nearest(1000, 1)
      BY <2>1, <2>2, NearestMonotone
    <3>. QED
      BY <2>1, <3>1, NearestOfOne
  <2>5. X \in Nat /\ Y \in Nat /\ X <= Y
    BY <1>1, BytesOf, BytesMonotone
  <2>6. ASSUME percent = 1000 PROVE 11 * X >= 10 * Y
    <3>1. 2 * (1000 * total - n) <= total
      BY <2>1, <2>3, <2>6
    <3>2. 2000 * (total - u) <= total
      BY <1>1, <3>1 DEF n
    <3>. QED
      BY <1>1, <3>2, NearSizes
  <2>7. ASSUME X = 0 PROVE percent = 0
    <3>1. /\ Bytes(u).tenths = Nearest(10 * u, UnitSize[UnitIndex(u)])
          /\ Bytes(u).tenths \in Nat /\ X = Bytes(u).tenths * UnitSize[UnitIndex(u)]
          /\ UnitSize[UnitIndex(u)] \in Nat \ {0}
      BY <1>1, BytesOf, UnitFound, UnitSizes
    <3>2. Bytes(u).tenths = 0
      <4>. DEFINE t == Bytes(u).tenths
                  size == UnitSize[UnitIndex(u)]
      <4>1. t \in Nat /\ size \in Nat \ {0} /\ t * size = 0
        BY <2>7, <3>1
      <4>. HIDE DEF t, size
      <4>2. t # 0 => 1 * size <= t * size
        BY <4>1, Larger
      <4>3. t = 0
        BY <4>1, <4>2
      <4>. QED
        BY <4>3 DEF t
    <3>3. UnitIndex(u) = 1
      BY <1>1, <3>2, TenthsOfAUnit
    <3>4. 10 * u = 0
      BY <1>1, <3>1, <3>2, <3>3, UnitSizes, NearestOfOne
    <3>5. n = 0
      BY <1>1, <3>4 DEF n
    <3>6. n * 1 <= 0 * total
      BY <2>1, <3>5
    <3>7. Nearest(n, total) <= Nearest(0, 1)
      BY <2>1, <3>6, NearestMonotone
    <3>. QED
      BY <2>1, <2>3, <3>7, NearestOfOne
  <2>. HIDE DEF X, Y
  <2>8. percent \in 0 .. 1000
    BY <2>3, <2>4
  <2>9. Sensible(X, Y, percent)
    BY <2>5, <2>6, <2>7, <2>8 DEF Sensible
  <2>. QED
    BY <1>2, <2>9, Zenon DEF SensibleLine, X, Y
<1>. QED
  BY <1>4, <1>5

\* What is printed of two processes has the order of what is not rounded.
LEMMA ColumnsOrdered ==
    ASSUME NEW p, NEW q, NEW key \in SortKeys, ~Above(q, p, key),
           IsRatio(p.cpu), AtLeast(p.cpu, 0), p.memory \in Nat,
           IsRatio(q.cpu), AtLeast(q.cpu, 0), q.memory \in Nat
    PROVE  IF key = "cpu" THEN ProcessRow(p).cpu >= ProcessRow(q).cpu
           ELSE Read(ProcessRow(p).memory) >= Read(ProcessRow(q).memory)
<1>1. CASE key = "cpu"
  <2>. DEFINE a == q.cpu.num
              b == p.cpu.num
              d == q.cpu.den
              e == p.cpu.den
              a10 == 10 * a
              b10 == 10 * b
  <2>1. a \in Nat /\ b \in Nat /\ d \in Nat \ {0} /\ e \in Nat \ {0}
    BY DEF IsRatio, AtLeast
  <2>2. a * e <= b * d
    <3>1. ~(a * e > b * d)
      BY <1>1 DEF Above
    <3>. HIDE DEF a, b, d, e
    <3>2. a * e \in Int /\ b * d \in Int
      BY <2>1
    <3>. QED
      BY <3>1, <3>2
  <2>3. /\ ProcessRow(p).cpu = Nearest(b10, e)
        /\ ProcessRow(q).cpu = Nearest(a10, d)
    BY DEF ProcessRow, Percent, Tenths
  <2>. HIDE DEF a, b, d, e
  <2>4. a10 \in Nat /\ b10 \in Nat /\ a10 * e <= b10 * d
    <3>1. a10 * e = 10 * (a * e) /\ b10 * d = 10 * (b * d)
      BY <2>1
    <3>2. a * e \in Int /\ b * d \in Int
      BY <2>1
    <3>3. 10 * (a * e) <= 10 * (b * d)
      BY <2>2, <3>2
    <3>. QED
      BY <2>1, <3>1, <3>3
  <2>. HIDE DEF a10, b10
  <2>5. /\ Nearest(a10, d) <= Nearest(b10, e)
        /\ Nearest(a10, d) \in Nat /\ Nearest(b10, e) \in Nat
    BY <2>1, <2>4, NearestMonotone, NearestRight
  <2>. QED
    BY <1>1, <2>3, <2>5
<1>2. CASE key # "cpu"
  <2>1. q.memory <= p.memory
    BY <1>2 DEF Above
  <2>2. /\ ProcessRow(p).memory = Bytes(p.memory) /\ ProcessRow(q).memory = Bytes(q.memory)
    BY DEF ProcessRow
  <2>3. Read(Bytes(q.memory)) <= Read(Bytes(p.memory))
    BY <2>1, BytesMonotone
  <2>4. Read(Bytes(q.memory)) \in Nat /\ Read(Bytes(p.memory)) \in Nat
    BY BytesOf
  <2>. QED
    BY <1>2, <2>2, <2>3, <2>4
<1>. QED
  BY <1>1, <1>2

\* Every duration can be read back from what is printed of it (format.cpp
\* L34-L56).
THEOREM EveryDurationRight == \A total \in Nat : DurationRight(total)
<1>. SUFFICES ASSUME NEW total \in Nat PROVE DurationRight(total)
  OBVIOUS
<1>. DEFINE days    == total \div 86400
            hours   == (total % 86400) \div 3600
            minutes == (total % 3600) \div 60
            seconds == total % 60
            d       == DurationSeconds(total)
<1>1. /\ days \in Nat /\ hours \in 0 .. 23 /\ minutes \in 0 .. 59 /\ seconds \in 0 .. 59
      /\ days * 86400 + hours * 3600 + minutes * 60 + seconds = total
  OBVIOUS
<1>2. /\ d[1] = IF days > 0 THEN days ELSE -1
      /\ d[2] = IF days > 0 \/ hours > 0 THEN hours ELSE -1
      /\ d[3] = IF days > 0 \/ hours > 0 \/ minutes > 0 THEN minutes ELSE -1
      /\ d[4] = seconds
  BY DEF DurationSeconds, Kept
<1>. HIDE DEF days, hours, minutes, seconds, d
<1>. DEFINE First(k) == d[k] >= 0 /\ \A j \in 1 .. k - 1 : d[j] < 0
            first == CHOOSE k \in 1 .. 4 : First(k)
<1>3. \E k \in 1 .. 4 : First(k)
  <2>1. First(1) \/ First(2) \/ First(3) \/ First(4)
    BY <1>1, <1>2
  <2>. QED
    BY <2>1
<1>4. first \in 1 .. 4 /\ First(first)
  BY <1>3
<1>. HIDE DEF first
<1>5. /\ \A k \in first .. 4 : d[k] >= 0
      /\ first < 4 => d[first] > 0
      /\ d[2] < 24 /\ d[3] < 60 /\ d[4] < 60
  BY <1>1, <1>2, <1>4
<1>. DEFINE OrZero(n) == IF n < 0 THEN 0 ELSE n
<1>6. OrZero(d[1]) * 86400 + OrZero(d[2]) * 3600 + OrZero(d[3]) * 60 + d[4] = total
  BY <1>1, <1>2
<1>. QED
  BY <1>5, <1>6 DEF DurationRight, d, first
-----------------------------------------------------------------------------
(***************************************************************************)
(* A report is a sequence of six blocks of lines, one per section.         *)
(***************************************************************************)
IsList(s) == \E S : s \in Seq(S)

\* Where the lines of two lists are, one list printed after the other.
LEMMA Concatenated ==
    ASSUME NEW s, NEW t, IsList(s), IsList(t)
    PROVE  /\ IsList(s \o t)
           /\ Len(s) \in Nat /\ Len(t) \in Nat /\ Len(s \o t) = Len(s) + Len(t)
           /\ \A k \in 1 .. Len(s) : (s \o t)[k] = s[k]
           /\ \A k \in 1 .. Len(t) : (s \o t)[Len(s) + k] = t[k]
<1>1. PICK S : s \in Seq(S)
  BY DEF IsList
<1>2. PICK T : t \in Seq(T)
  BY DEF IsList
<1>3. s \in Seq(S \cup T) /\ t \in Seq(S \cup T)
  BY <1>1, <1>2
<1>4. /\ s \o t \in Seq(S \cup T) /\ Len(s \o t) = Len(s) + Len(t)
      /\ Len(s) \in Nat /\ Len(t) \in Nat
  BY <1>3
<1>5. \A k \in 1 .. Len(s) : (s \o t)[k] = s[k]
  BY <1>3
<1>6. \A k \in 1 .. Len(t) : (s \o t)[Len(s) + k] = t[k]
  BY <1>3
<1>. QED
  BY <1>4, <1>5, <1>6 DEF IsList

\* A list of two lines.
LEMMA TwoLines ==
    ASSUME NEW a, NEW b
    PROVE  LET s == <<a>> \o <<b>>
           IN  IsList(s) /\ Len(s) = 2 /\ s[1] = a /\ s[2] = b
<1>. DEFINE s == <<a>>
            t == <<b>>
<1>1. s \in Seq({a}) /\ Len(s) = 1 /\ s[1] = a /\ t \in Seq({b}) /\ Len(t) = 1 /\ t[1] = b
  OBVIOUS
<1>. HIDE DEF s, t
<1>2. IsList(s) /\ IsList(t)
  BY <1>1 DEF IsList
<1>3. /\ IsList(s \o t) /\ Len(s \o t) = Len(s) + Len(t)
      /\ \A k \in 1 .. Len(s) : (s \o t)[k] = s[k]
      /\ \A k \in 1 .. Len(t) : (s \o t)[Len(s) + k] = t[k]
  BY <1>2, Concatenated
<1>. DEFINE r == s \o t
<1>. HIDE DEF r
<1>4. Len(r) = 2 /\ r[1] = a /\ r[1 + 1] = b
  BY <1>1, <1>3 DEF r
<1>. QED
  BY <1>3, <1>4 DEF s, t, r

\* The lines of a section: a row, a header, "none" or "unavailable", and the
\* last only if the sample failed.
Block(lines, section, result) ==
    /\ IsList(lines) /\ Len(lines) \in Nat \ {0}
    /\ \A k \in 1 .. Len(lines) :
          /\ lines[k].section = section
          /\ lines[k].kind = "unavailable" => ~result.ok
          /\ lines[k].kind = "row" => result.ok
    /\ ~result.ok => lines[Len(lines)].kind = "unavailable"

\* A section of one line, be it a row or "unavailable".
LEMMA SingleLine ==
    ASSUME NEW line, NEW section, NEW result, result.ok \in BOOLEAN,
           line.section = section,
           line.kind = IF result.ok THEN "row" ELSE "unavailable"
    PROVE  Block(<<line>>, section, result)
<1>. DEFINE lines == <<line>>
<1>1. lines \in Seq({line}) /\ Len(lines) = 1 /\ lines[1] = line
  OBVIOUS
<1>. HIDE DEF lines
<1>2. IsList(lines) /\ \A k \in 1 .. Len(lines) : lines[k] = line
  BY <1>1 DEF IsList
<1>3. Block(lines, section, result)
  BY <1>1, <1>2 DEF Block
<1>. QED
  BY <1>3 DEF lines

\* The system section (renderer.cpp L15-L23).
LEMMA SystemBlock ==
    ASSUME NEW result, result.ok \in BOOLEAN
    PROVE  Block(RenderSystem(result), "system", result)
BY SingleLine DEF RenderSystem, Unavailable, Line

\* The CPU section (renderer.cpp L25-L32).
LEMMA CpuBlock ==
    ASSUME NEW result, result.ok \in BOOLEAN
    PROVE  Block(RenderCpu(result), "cpu", result)
BY SingleLine DEF RenderCpu, Unavailable, Line

\* The memory section (renderer.cpp L34-L47).
LEMMA MemoryBlock ==
    ASSUME NEW result, result.ok \in BOOLEAN
    PROVE  /\ Block(RenderMemory(result), "memory", result)
           /\ \A k \in 1 .. Len(RenderMemory(result)) :
                 RenderMemory(result)[k].kind = "row" =>
                    RenderMemory(result)[k].show
                       = Usage(result.value.total, result.value.available)
BY SingleLine DEF RenderMemory, Unavailable, Line

\* The lines of a section that is a list.
RowsShow(lines, rows) ==
    \A k \in 1 .. Len(lines) :
        lines[k].kind = "row" => \E j \in 1 .. Len(rows) : lines[k].show = rows[j]

\* A section that is a list, after a sample that succeeded.
LEMMA ListBlock ==
    ASSUME NEW section, NEW rows, IsList(rows), NEW result, result.ok = TRUE
    PROVE  LET lines == List(section, rows)
           IN  /\ Block(lines, section, result)
               /\ (\E k \in 1 .. Len(lines) : lines[k].kind = "none") <=> rows = <<>>
               /\ RowsShow(lines, rows)
<1>. DEFINE header == Line(section, "header", <<>>)
            none == Line(section, "none", <<>>)
            lines == List(section, rows)
            n == Len(rows)
<1>1. n \in Nat /\ (rows = <<>> <=> n = 0)
  BY DEF IsList
<1>2. CASE n = 0
  <2>1. lines = <<header>> \o <<none>>
    BY <1>1, <1>2 DEF List
  <2>2. IsList(lines) /\ Len(lines) = 2 /\ lines[1] = header /\ lines[2] = none
    BY <2>1, TwoLines
  <2>. HIDE DEF lines, header, none
  <2>4. /\ lines[1].section = section /\ lines[1].kind = "header"
        /\ lines[2].section = section /\ lines[2].kind = "none"
    BY <2>2 DEF Line, header, none
  <2>6. \A k \in 1 .. Len(lines) : k = 1 \/ k = 2
    BY <2>2
  <2>. QED
    BY <1>1, <1>2, <2>2, <2>4, <2>6 DEF Block, RowsShow, lines
<1>3. CASE n # 0
  <2>. DEFINE tail == [k \in 1 .. n |-> Line(section, "row", rows[k])]
  <2>2. lines = <<header>> \o tail
    BY <1>1, <1>3 DEF List
  <2>. HIDE DEF n
  <2>3. IsList(tail) /\ Len(tail) = n
    <3>1. tail \in Seq({Line(section, "row", rows[k]) : k \in 1 .. n}) /\ Len(tail) = n
      BY <1>1
    <3>. QED
      BY <3>1 DEF IsList
  <2>4. IsList(<<header>>) /\ Len(<<header>>) = 1 /\ <<header>>[1] = header
    <3>1. <<header>> \in Seq({header})
      OBVIOUS
    <3>. QED
      BY <3>1 DEF IsList
  <2>5. \A k \in 1 .. n : tail[k] = Line(section, "row", rows[k])
    OBVIOUS
  <2>. HIDE DEF tail, lines, header
  <2>6. /\ IsList(lines) /\ Len(lines) = 1 + n /\ lines[1] = header
        /\ \A k \in 1 .. n : lines[1 + k] = Line(section, "row", rows[k])
    BY <2>2, <2>3, <2>4, <2>5, Concatenated
  <2>7. \A k \in 1 .. Len(lines) :
           \/ lines[k] = header
           \/ \E j \in 1 .. n : lines[k] = Line(section, "row", rows[j])
    <3>. SUFFICES ASSUME NEW k \in 1 .. Len(lines)
                  PROVE  \/ lines[k] = header
                         \/ \E j \in 1 .. n : lines[k] = Line(section, "row", rows[j])
      OBVIOUS
    <3>1. CASE k = 1
      BY <2>6, <3>1
    <3>2. CASE k # 1
      <4>1. k - 1 \in 1 .. n /\ 1 + (k - 1) = k
        BY <1>1, <2>6, <3>2 DEF n
      <4>. QED
        BY <2>6, <4>1
    <3>. QED
      BY <3>1, <3>2
  <2>8. ASSUME NEW k \in 1 .. Len(lines)
        PROVE  /\ lines[k].section = section
               /\ lines[k].kind \in {"header", "row"}
               /\ lines[k].kind = "row" => \E j \in 1 .. n : lines[k].show = rows[j]
    <3>1. header.section = section /\ header.kind = "header"
      BY DEF Line, header
    <3>2. \A v : /\ Line(section, "row", v).section = section
                 /\ Line(section, "row", v).kind = "row"
                 /\ Line(section, "row", v).show = v
      BY DEF Line
    <3>. QED
      BY <2>7, <3>1, <3>2
  <2>9. lines[1].kind = "header"
    BY <2>6 DEF Line, header
  <2>10. Block(lines, section, result)
    BY <1>1, <2>6, <2>8 DEF Block
  <2>11. rows # <<>> /\ \A k \in 1 .. Len(lines) : lines[k].kind # "none"
    BY <1>1, <1>3, <2>8 DEF n
  <2>12. RowsShow(lines, rows)
    BY <2>8 DEF RowsShow, n
  <2>. QED
    BY <2>10, <2>11, <2>12 DEF lines
<1>. QED
  BY <1>2, <1>3

\* ... and after one that failed.
LEMMA FailedListBlock ==
    ASSUME NEW section, NEW result, result.ok = FALSE
    PROVE  LET lines == FailedList(section)
           IN  /\ Block(lines, section, result)
               /\ \A k \in 1 .. Len(lines) : lines[k].kind \in {"header", "unavailable"}
<1>. DEFINE header == Line(section, "header", <<>>)
            failed == Line(section, "unavailable", <<>>)
            lines == FailedList(section)
<1>1. lines = <<header>> \o <<failed>>
  BY DEF FailedList, Unavailable
<1>2. IsList(lines) /\ Len(lines) = 2 /\ lines[1] = header /\ lines[2] = failed
  BY <1>1, TwoLines
<1>3. /\ lines[1].section = section /\ lines[1].kind = "header"
      /\ lines[2].section = section /\ lines[2].kind = "unavailable"
  BY <1>2 DEF Line
<1>. HIDE DEF lines
<1>4. \A k \in 1 .. Len(lines) : k = 1 \/ k = 2
  BY <1>2
<1>. QED
  BY <1>2, <1>3, <1>4 DEF Block, lines

\* The disks section (renderer.cpp L49-L66).
LEMMA DisksBlock ==
    ASSUME NEW result, result.ok \in BOOLEAN,
           result.ok => result.value \in Seq([total : Nat, free : Nat])
    PROVE  LET lines == RenderDisks(result)
           IN  /\ Block(lines, "disks", result)
               /\ (\E k \in 1 .. Len(lines) : lines[k].kind = "none")
                     <=> result.ok /\ result.value = <<>>
               /\ \A k \in 1 .. Len(lines) : lines[k].kind = "row" =>
                     \E j \in 1 .. Len(result.value) :
                        lines[k].show = Usage(result.value[j].total, result.value[j].free)
<1>1. CASE ~result.ok
  <2>1. RenderDisks(result) = FailedList("disks")
    BY <1>1 DEF RenderDisks
  <2>. QED
    BY <1>1, <2>1, FailedListBlock
<1>2. CASE result.ok
  <2>. DEFINE disks == result.value
              rows == [k \in 1 .. Len(disks) |-> Usage(disks[k].total, disks[k].free)]
  <2>1. Len(disks) \in Nat /\ (disks = <<>> <=> Len(disks) = 0)
    BY <1>2
  <2>2. RenderDisks(result) = List("disks", rows)
    BY <1>2 DEF RenderDisks
  <2>3. Len(rows) = Len(disks) /\ IsList(rows)
    <3>1. rows \in Seq({Usage(disks[k].total, disks[k].free) : k \in 1 .. Len(disks)})
          /\ Len(rows) = Len(disks)
      BY <2>1
    <3>. HIDE DEF rows
    <3>. QED
      BY <3>1 DEF IsList
  <2>4. rows = <<>> <=> disks = <<>>
    BY <2>1, <2>3
  <2>5. \A j \in 1 .. Len(disks) : rows[j] = Usage(disks[j].total, disks[j].free)
    OBVIOUS
  <2>. HIDE DEF rows
  <2>6. result.ok = TRUE
    BY <1>2
  <2>. DEFINE lines == List("disks", rows)
  <2>7. /\ Block(lines, "disks", result)
        /\ (\E k \in 1 .. Len(lines) : lines[k].kind = "none") <=> rows = <<>>
        /\ RowsShow(lines, rows)
    BY <2>3, <2>6, ListBlock
  <2>. HIDE DEF lines
  <2>8. RenderDisks(result) = lines
    BY <2>2 DEF lines
  <2>. QED
    BY <1>2, <2>3, <2>4, <2>5, <2>7, <2>8 DEF RowsShow
<1>. QED
  BY <1>1, <1>2

\* The network section (renderer.cpp L68-L83).
LEMMA NetworkBlock ==
    ASSUME NEW result, result.ok \in BOOLEAN,
           result.ok => result.value \in Seq([down : Nat, up : Nat])
    PROVE  LET lines == RenderNetwork(result)
           IN  /\ Block(lines, "network", result)
               /\ (\E k \in 1 .. Len(lines) : lines[k].kind = "none")
                     <=> result.ok /\ result.value = <<>>
<1>1. CASE ~result.ok
  <2>1. RenderNetwork(result) = FailedList("network")
    BY <1>1 DEF RenderNetwork
  <2>. QED
    BY <1>1, <2>1, FailedListBlock
<1>2. CASE result.ok
  <2>. DEFINE interfaces == result.value
              rows == Rates(interfaces)
  <2>1. Len(interfaces) \in Nat /\ (interfaces = <<>> <=> Len(interfaces) = 0)
    BY <1>2
  <2>2. RenderNetwork(result) = List("network", rows)
    BY <1>2 DEF RenderNetwork
  <2>3. Len(rows) = Len(interfaces) /\ IsList(rows)
    <3>. DEFINE Rate(k) == [down |-> Bytes(interfaces[k].down), up |-> Bytes(interfaces[k].up)]
    <3>1. rows = [k \in 1 .. Len(interfaces) |-> Rate(k)]
      BY DEF Rates
    <3>. HIDE DEF Rate, rows
    <3>2. rows \in Seq({Rate(k) : k \in 1 .. Len(interfaces)}) /\ Len(rows) = Len(interfaces)
      BY <2>1, <3>1
    <3>. QED
      BY <3>2 DEF IsList
  <2>4. rows = <<>> <=> interfaces = <<>>
    <3>. HIDE DEF rows
    <3>. QED
      BY <2>1, <2>3 DEF IsList
  <2>. HIDE DEF rows
  <2>5. result.ok = TRUE
    BY <1>2
  <2>. DEFINE lines == List("network", rows)
  <2>6. /\ Block(lines, "network", result)
        /\ (\E k \in 1 .. Len(lines) : lines[k].kind = "none") <=> rows = <<>>
    BY <2>3, <2>5, ListBlock
  <2>. HIDE DEF lines
  <2>7. RenderNetwork(result) = lines
    BY <2>2 DEF lines
  <2>. QED
    BY <1>2, <2>4, <2>6, <2>7
<1>. QED
  BY <1>1, <1>2

\* The processes section: a header, and a row for each of the first processes
\* of an order that the comparator allows.
\* A header that counts all processes, and the first of them in some order.
Listed(lines, result, c) ==
    result.ok =>
        LET shown == Lesser(c.top_n, Cardinality(result.value))
        IN  /\ Len(lines) = 1 + shown /\ lines[1].kind = "header"
            /\ lines[1].show.total = Cardinality(result.value)
            /\ \E order \in Orders(result.value, c.sort_key) :
                  \A k \in 1 .. shown : /\ lines[1 + k].kind = "row"
                                        /\ lines[1 + k].show = ProcessRow(order[k])

\* The processes section (renderer.cpp L85-L141).
LEMMA ProcessesBlock ==
    ASSUME NEW result, result.ok \in BOOLEAN, NEW c,
           NEW lines \in RenderProcesses(result, c),
           result.ok => Lesser(c.top_n, Cardinality(result.value)) \in Nat
    PROVE  /\ Block(lines, "processes", result)
           /\ Listed(lines, result, c)
<1>1. CASE ~result.ok
  <2>1. lines = <<Line("processes", "unavailable", <<>>)>>
    BY <1>1 DEF RenderProcesses, Unavailable
  <2>. QED
    BY <1>1, <2>1, SingleLine DEF Line, Listed
<1>2. CASE result.ok
  <2>. DEFINE total == Cardinality(result.value)
              shown == Lesser(c.top_n, total)
              header == Line("processes", "header",
                             [total |-> total, top |-> c.top_n, by |-> c.sort_key])
  <2>1. PICK order \in Orders(result.value, c.sort_key) :
           lines = <<header>> \o [k \in 1 .. shown |->
                                     Line("processes", "row", ProcessRow(order[k]))]
    BY <1>2 DEF RenderProcesses
  <2>. DEFINE tail == [k \in 1 .. shown |-> Line("processes", "row", ProcessRow(order[k]))]
  <2>2. /\ header.section = "processes" /\ header.kind = "header"
        /\ header.show.total = total
    BY DEF Line
  <2>3. \A k \in 1 .. shown : /\ tail[k].section = "processes" /\ tail[k].kind = "row"
                              /\ tail[k].show = ProcessRow(order[k])
    BY DEF Line
  <2>4. shown \in Nat
    BY <1>2
  <2>. HIDE DEF shown
  <2>5. IsList(tail) /\ Len(tail) = shown
    <3>1. tail \in Seq({Line("processes", "row", ProcessRow(order[k])) : k \in 1 .. shown})
          /\ Len(tail) = shown
      BY <2>4
    <3>. QED
      BY <3>1 DEF IsList
  <2>. HIDE DEF tail, header
  <2>6. IsList(<<header>>) /\ Len(<<header>>) = 1 /\ <<header>>[1] = header
    <3>1. <<header>> \in Seq({header})
      OBVIOUS
    <3>. QED
      BY <3>1 DEF IsList
  <2>7. lines = <<header>> \o tail
    BY <2>1 DEF tail
  <2>8. /\ IsList(lines) /\ Len(lines) = 1 + shown /\ lines[1] = header
        /\ \A k \in 1 .. shown : lines[1 + k] = tail[k]
    BY <2>5, <2>6, <2>7, Concatenated
  <2>9. \A k \in 1 .. Len(lines) : k = 1 \/ (k - 1 \in 1 .. shown /\ 1 + (k - 1) = k)
    BY <2>4, <2>8
  <2>10. \A k \in 1 .. Len(lines) : lines[k].section = "processes"
                                    /\ lines[k].kind \in {"header", "row"}
    BY <2>2, <2>3, <2>8, <2>9
  <2>11. Block(lines, "processes", result)
    BY <1>2, <2>4, <2>8, <2>10 DEF Block
  <2>. QED
    BY <1>2, <2>2, <2>3, <2>8, <2>11 DEF Listed, shown
<1>. QED
  BY <1>1, <1>2

\* A report, or the beginning of one, taken apart: block a is what stands after
\* line start[a], the blocks follow one another, and every line is in a block.
Parts(report, block, start, n) ==
    /\ IsList(report) /\ Len(report) \in Nat
    /\ \A a \in 1 .. n :
          /\ start[a] \in Nat /\ Len(block[a]) \in Nat \ {0}
          /\ start[a] + Len(block[a]) <= Len(report)
          /\ \A k \in 1 .. Len(block[a]) : report[start[a] + k] = block[a][k]
    /\ \A a, b \in 1 .. n : b < a => start[b] + Len(block[b]) <= start[a]
    /\ \A k \in 1 .. Len(report) : \E a \in 1 .. n : start[a] < k /\ k <= start[a] + Len(block[a])

\* One section more, behind those there are.
LEMMA OneMoreBlock ==
    ASSUME NEW report, NEW block, NEW start, NEW n \in Nat, Parts(report, block, start, n),
           IsList(block[n + 1]), Len(block[n + 1]) # 0, start[n + 1] = Len(report)
    PROVE  Parts(report \o block[n + 1], block, start, n + 1)
<1>. DEFINE m == n + 1
            longer == report \o block[m]
<1>1. /\ IsList(report) /\ Len(report) \in Nat
      /\ \A a \in 1 .. n :
            /\ start[a] \in Nat /\ Len(block[a]) \in Nat \ {0}
            /\ start[a] + Len(block[a]) <= Len(report)
            /\ \A k \in 1 .. Len(block[a]) : report[start[a] + k] = block[a][k]
      /\ \A a, b \in 1 .. n : b < a => start[b] + Len(block[b]) <= start[a]
      /\ \A k \in 1 .. Len(report) :
            \E a \in 1 .. n : start[a] < k /\ k <= start[a] + Len(block[a])
  BY DEF Parts
<1>2. /\ m \in Nat /\ m \in 1 .. m /\ start[m] = Len(report)
      /\ \A a \in 1 .. m : a = m \/ a \in 1 .. n
      /\ \A a \in 1 .. n : a \in 1 .. m /\ a < m
  OBVIOUS
<1>3. /\ IsList(longer) /\ Len(longer) = Len(report) + Len(block[m])
      /\ Len(block[m]) \in Nat \ {0}
      /\ \A k \in 1 .. Len(report) : longer[k] = report[k]
      /\ \A k \in 1 .. Len(block[m]) : longer[Len(report) + k] = block[m][k]
  BY <1>1, Concatenated
<1>. HIDE DEF m, longer
<1>4. Len(longer) \in Nat
  BY <1>1, <1>3
<1>5. ASSUME NEW a \in 1 .. m
      PROVE  /\ start[a] \in Nat /\ Len(block[a]) \in Nat \ {0}
             /\ start[a] + Len(block[a]) <= Len(longer)
             /\ \A k \in 1 .. Len(block[a]) : longer[start[a] + k] = block[a][k]
  <2>1. CASE a = m
    <3>1. start[a] = Len(report) /\ block[a] = block[m]
      BY <1>2, <2>1
    <3>2. Len(report) + Len(block[m]) <= Len(longer)
      BY <1>3, <1>4
    <3>. QED
      BY <1>1, <1>3, <3>1, <3>2
  <2>2. CASE a \in 1 .. n
    <3>1. /\ start[a] \in Nat /\ Len(block[a]) \in Nat \ {0}
          /\ start[a] + Len(block[a]) <= Len(report)
          /\ \A k \in 1 .. Len(block[a]) : report[start[a] + k] = block[a][k]
      BY <1>1, <2>2
    <3>2. \A k \in 1 .. Len(block[a]) : start[a] + k \in 1 .. Len(report)
      BY <1>1, <3>1
    <3>3. \A k \in 1 .. Len(block[a]) : longer[start[a] + k] = block[a][k]
      BY <1>3, <3>1, <3>2
    <3>4. start[a] + Len(block[a]) <= Len(longer)
      <4>1. Len(report) <= Len(longer) /\ Len(longer) \in Nat /\ Len(report) \in Nat
        BY <1>1, <1>3, <1>4
      <4>. QED
        BY <3>1, <4>1
    <3>. QED
      BY <3>1, <3>3, <3>4
  <2>. QED
    BY <1>2, <2>1, <2>2
<1>6. ASSUME NEW a \in 1 .. m, NEW b \in 1 .. m, b < a
      PROVE  start[b] + Len(block[b]) <= start[a]
  <2>1. b \in 1 .. n
    BY <1>2, <1>6
  <2>2. CASE a = m
    <3>1. start[a] = Len(report) /\ start[b] + Len(block[b]) <= Len(report)
      BY <1>1, <1>2, <2>1, <2>2
    <3>. QED
      BY <3>1
  <2>3. CASE a \in 1 .. n
    BY <1>1, <1>6, <2>1, <2>3
  <2>. QED
    BY <1>2, <2>2, <2>3
<1>7. ASSUME NEW k \in 1 .. Len(longer)
      PROVE  \E a \in 1 .. m : start[a] < k /\ k <= start[a] + Len(block[a])
  <2>1. CASE k \in 1 .. Len(report)
    BY <1>1, <1>2, <2>1
  <2>2. CASE k \notin 1 .. Len(report)
    <3>1. m \in 1 .. m /\ start[m] = Len(report)
      BY <1>2
    <3>2. Len(report) < k /\ k <= Len(report) + Len(block[m])
      <4>1. Len(longer) = Len(report) + Len(block[m]) /\ Len(report) \in Nat
            /\ Len(longer) \in Nat
        BY <1>1, <1>3, <1>4
      <4>. QED
        BY <2>2, <4>1
    <3>. QED
      BY <3>1, <3>2
  <2>. QED
    BY <2>1, <2>2
<1>8. Parts(longer, block, start, m)
  BY <1>3, <1>4, <1>5, <1>6, <1>7 DEF Parts
<1>. QED
  BY <1>8 DEF longer, m

\* The first section.
LEMMA FirstBlock ==
    ASSUME NEW block, NEW start, IsList(block[1]), Len(block[1]) # 0, start[1] = 0
    PROVE  Parts(block[1], block, start, 1)
<1>1. Len(block[1]) \in Nat \ {0}
  BY DEF IsList
<1>2. \A a \in 1 .. 1 : a = 1
  OBVIOUS
<1>3. \A k \in 1 .. Len(block[1]) : k \in Nat /\ 0 + k = k /\ 0 < k /\ k <= 0 + Len(block[1])
  BY <1>1
<1>. QED
  BY <1>1, <1>2, <1>3 DEF Parts

\* The whole report: six blocks in their order, none within another.
LEMMA SixBlocks ==
    ASSUME NEW block, \A a \in 1 .. 6 : IsList(block[a]) /\ Len(block[a]) # 0
    PROVE  \E start : Parts(block[1] \o block[2] \o block[3] \o block[4] \o block[5] \o block[6],
                            block, start, 6)
<1>. DEFINE r2 == block[1] \o block[2]
            r3 == r2 \o block[3]
            r4 == r3 \o block[4]
            r5 == r4 \o block[5]
            r6 == r5 \o block[6]
            start == <<0, Len(block[1]), Len(r2), Len(r3), Len(r4), Len(r5)>>
<1>1. /\ start[1] = 0 /\ start[2] = Len(block[1]) /\ start[3] = Len(r2)
      /\ start[4] = Len(r3) /\ start[5] = Len(r4) /\ start[6] = Len(r5)
  OBVIOUS
<1>2. /\ IsList(block[1]) /\ Len(block[1]) # 0 /\ IsList(block[2]) /\ Len(block[2]) # 0
      /\ IsList(block[3]) /\ Len(block[3]) # 0 /\ IsList(block[4]) /\ Len(block[4]) # 0
      /\ IsList(block[5]) /\ Len(block[5]) # 0 /\ IsList(block[6]) /\ Len(block[6]) # 0
  OBVIOUS
<1>3. ASSUME NEW report, NEW n \in Nat, NEW m, m = n + 1, Parts(report, block, start, n),
             IsList(block[m]), Len(block[m]) # 0, start[m] = Len(report)
      PROVE  Parts(report \o block[m], block, start, m)
  BY <1>3, OneMoreBlock
<1>. HIDE DEF start
<1>4. Parts(block[1], block, start, 1)
  BY <1>1, <1>2, FirstBlock
<1>5. Parts(r2, block, start, 2)
  BY <1>1, <1>2, <1>3, <1>4
<1>. HIDE DEF r2
<1>6. Parts(r3, block, start, 3)
  BY <1>1, <1>2, <1>3, <1>5
<1>. HIDE DEF r3
<1>7. Parts(r4, block, start, 4)
  BY <1>1, <1>2, <1>3, <1>6
<1>. HIDE DEF r4
<1>8. Parts(r5, block, start, 5)
  BY <1>1, <1>2, <1>3, <1>7
<1>. HIDE DEF r5
<1>9. Parts(r6, block, start, 6)
  BY <1>1, <1>2, <1>3, <1>8
<1>. QED
  BY <1>9, Zenon DEF r2, r3, r4, r5, r6

\* Every line is in a block.
\* The report of a snapshot.
LEMMA ReportParts ==
    ASSUME NEW s, IsSnapshot(s), NEW c, c.top_n \in Nat,
           NEW report \in Render(s, c)
    PROVE  \E block, start :
             /\ Parts(report, block, start, 6)
             /\ \A a \in 1 .. 6 : Block(block[a], SectionOrder[a], s[SectionOrder[a]])
             /\ block[3] = RenderMemory(s.memory) /\ block[4] = RenderDisks(s.disks)
             /\ block[5] = RenderNetwork(s.network)
             /\ block[6] \in RenderProcesses(s.processes, c)
<1>1. PICK processes \in RenderProcesses(s.processes, c) :
         report = RenderSystem(s.system) \o RenderCpu(s.cpu) \o RenderMemory(s.memory)
                    \o RenderDisks(s.disks) \o RenderNetwork(s.network) \o processes
  BY DEF Render
<1>. DEFINE block == <<RenderSystem(s.system), RenderCpu(s.cpu), RenderMemory(s.memory),
                       RenderDisks(s.disks), RenderNetwork(s.network), processes>>
<1>2. /\ s.system.ok \in BOOLEAN /\ s.cpu.ok \in BOOLEAN /\ s.memory.ok \in BOOLEAN
      /\ s.disks.ok \in BOOLEAN /\ s.network.ok \in BOOLEAN /\ s.processes.ok \in BOOLEAN
  BY DEF IsSnapshot
<1>3. /\ s.disks.ok => s.disks.value \in Seq([total : Nat, free : Nat])
      /\ s.network.ok => s.network.value \in Seq([down : Nat, up : Nat])
      /\ s.processes.ok => Lesser(c.top_n, Cardinality(s.processes.value)) \in Nat
  <2>1. s.processes.ok => Cardinality(s.processes.value) \in Nat
    BY FS_CardinalityType DEF IsSnapshot
  <2>. QED
    BY <2>1 DEF IsSnapshot, Lesser
<1>4. /\ Block(RenderSystem(s.system), "system", s.system)
      /\ Block(RenderCpu(s.cpu), "cpu", s.cpu)
      /\ Block(RenderMemory(s.memory), "memory", s.memory)
      /\ Block(RenderDisks(s.disks), "disks", s.disks)
      /\ Block(RenderNetwork(s.network), "network", s.network)
      /\ Block(processes, "processes", s.processes)
  BY <1>2, <1>3, SystemBlock, CpuBlock, MemoryBlock, DisksBlock, NetworkBlock, ProcessesBlock
<1>6. /\ block[1] = RenderSystem(s.system) /\ block[2] = RenderCpu(s.cpu)
      /\ block[3] = RenderMemory(s.memory) /\ block[4] = RenderDisks(s.disks)
      /\ block[5] = RenderNetwork(s.network) /\ block[6] = processes
  OBVIOUS
<1>7. /\ SectionOrder[1] = "system" /\ SectionOrder[2] = "cpu" /\ SectionOrder[3] = "memory"
      /\ SectionOrder[4] = "disks" /\ SectionOrder[5] = "network"
      /\ SectionOrder[6] = "processes"
  BY DEF SectionOrder
<1>. HIDE DEF block
<1>8. \A a \in 1 .. 6 : Block(block[a], SectionOrder[a], s[SectionOrder[a]])
  <2>. SUFFICES ASSUME NEW a \in 1 .. 6
                PROVE  Block(block[a], SectionOrder[a], s[SectionOrder[a]])
    OBVIOUS
  <2>1. a = 1 \/ a = 2 \/ a = 3 \/ a = 4 \/ a = 5 \/ a = 6
    OBVIOUS
  <2>. QED
    BY <1>4, <1>6, <1>7, <2>1
<1>5. PICK start : Parts(block[1] \o block[2] \o block[3] \o block[4] \o block[5] \o block[6],
                         block, start, 6)
  <2>1. \A a \in 1 .. 6 : IsList(block[a]) /\ Len(block[a]) # 0
    BY <1>8 DEF Block
  <2>. QED
    BY <2>1, SixBlocks
<1>9. Parts(report, block, start, 6)
  BY <1>1, <1>5, <1>6
<1>. QED
  BY <1>6, <1>8, <1>9

\* A report taken apart: one block for each section of the snapshot.
Apart(report, s, block, start) ==
    /\ Parts(report, block, start, 6)
    /\ \A a \in 1 .. 6 : Block(block[a], SectionOrder[a], s[SectionOrder[a]])

\* Line k is in section a, and it is line j of a block.
InSection(report, k, a) ==
    a \in 1 .. 6 /\ k \in 1 .. Len(report) /\ report[k].section = SectionOrder[a]
IsLine(report, k, lines, j) == j \in 1 .. Len(lines) /\ report[k] = lines[j]

\* A line of a section is in the block of that section.
LEMMA LineOfSection ==
    ASSUME NEW report, NEW s, NEW block, NEW start, Apart(report, s, block, start),
           NEW k, NEW a, InSection(report, k, a)
    PROVE  IsLine(report, k, block[a], k - start[a])
<1>5. a \in 1 .. 6 /\ k \in 1 .. Len(report) /\ report[k].section = SectionOrder[a]
  BY DEF InSection
<1>0. PICK b \in 1 .. 6 : start[b] < k /\ k <= start[b] + Len(block[b])
  BY <1>5 DEF Apart, Parts
<1>1. /\ k - start[b] \in 1 .. Len(block[b]) /\ k = start[b] + (k - start[b])
      /\ report[k] = block[b][k - start[b]]
  <2>1. start[b] \in Nat /\ Len(block[b]) \in Nat /\ Len(report) \in Nat
        /\ \A j \in 1 .. Len(block[b]) : report[start[b] + j] = block[b][j]
    BY DEF Apart, Parts
  <2>2. k - start[b] \in 1 .. Len(block[b]) /\ k = start[b] + (k - start[b])
    BY <1>0, <1>5, <2>1
  <2>. QED
    BY <2>1, <2>2
<1>2. report[k].section = SectionOrder[b]
  BY <1>1 DEF Apart, Block
<1>3. \A x, y \in 1 .. 6 : SectionOrder[x] = SectionOrder[y] => x = y
  BY DEF SectionOrder
<1>4. a = b
  BY <1>2, <1>3, <1>5
<1>. QED
  BY <1>1, <1>4 DEF IsLine

HasKind(lines, kind) == \E j \in 1 .. Len(lines) : lines[j].kind = kind

\* An order of the processes lists each of them, once, larger ones first.
LEMMA OrderOfAll ==
    ASSUME NEW all, IsFiniteSet(all), NEW key, NEW order \in Orders(all, key)
    PROVE  LET n == Cardinality(all)
           IN  /\ n \in Nat
               /\ order \in [1 .. n -> all]
               /\ \A j, k \in 1 .. n : order[j] = order[k] => j = k
               /\ \A j, k \in 1 .. n : j < k => ~Above(order[k], order[j], key)
               /\ \A p \in all : \E k \in 1 .. n : order[k] = p
<1>. DEFINE n == Cardinality(all)
<1>1. n \in Nat
  BY FS_CardinalityType
<1>2. /\ order \in [1 .. n -> all]
      /\ \A j, k \in 1 .. n : order[j] = order[k] => j = k
      /\ \A j, k \in 1 .. n : j < k => ~Above(order[k], order[j], key)
  BY Zenon DEF Orders
<1>3. Cardinality(1 .. n) = n
  BY <1>1, FS_Interval
<1>4. order \in Injection(1 .. n, all)
  BY <1>2 DEF Injection, IsInjective
<1>5. order \in Surjection(1 .. n, all)
  BY <1>3, <1>4, FS_Injection
<1>6. \A p \in all : \E k \in 1 .. n : order[k] = p
  BY <1>5 DEF Surjection
<1>. QED
  BY <1>1, <1>2, <1>6
-----------------------------------------------------------------------------
(***************************************************************************)
(* What PrintFrame leaves in the window, without printing line by line:    *)
(* the last rows of a roll that has no end.                                *)
(***************************************************************************)
Screens == [rows : [1 .. Height -> [1 .. Width -> Int]], row : 1 .. Height,
            col : 1 .. Width]

\* A row of the roll before anything is printed: below the window it is blank.
Original(s, r) == IF r <= Height THEN s.rows[r] ELSE BlankRow

\* The row that line j is printed on.
LineRow(s, widths, j) ==
    LET col == IF j = 1 THEN s.col ELSE 1
    IN  [c \in 1 .. Width |-> IF col <= c /\ c < col + widths[j] THEN j
                              ELSE Original(s, s.row + j - 1)[c]]

\* Row r of the roll when k lines have been printed.
RollRow(s, widths, k, r) ==
    IF s.row <= r /\ r < s.row + k THEN LineRow(s, widths, r - s.row + 1)
    ELSE Original(s, r)

\* How far the window has moved down the roll.
Scrolled(s, k) == IF s.row + k <= Height THEN 0 ELSE s.row + k - Height

Printed(s, widths, k) ==
    [rows |-> [r \in 1 .. Height |-> RollRow(s, widths, k, r + Scrolled(s, k))],
     row  |-> s.row + k - Scrolled(s, k),
     col  |-> IF k = 0 THEN s.col ELSE 1]

\* One more line.
LEMMA PrintedNext ==
    ASSUME NEW s \in Screens, NEW widths, NEW k \in Nat
    PROVE  NewLine(Text(Printed(s, widths, k), k + 1, widths[k + 1]))
             = Printed(s, widths, k + 1)
<1>. DEFINE p == Printed(s, widths, k)
            w == widths[k + 1]
            t == Text(p, k + 1, w)
            col == IF k = 0 THEN s.col ELSE 1
            here == s.row + k - Scrolled(s, k)
<1>1. /\ Height \in Nat /\ Height > 1 /\ s.row \in 1 .. Height
      /\ s.rows \in [1 .. Height -> [1 .. Width -> Int]]
  BY WindowAssumption DEF Screens
<1>2. /\ Scrolled(s, k) \in Nat /\ here \in 1 .. Height
      /\ here + Scrolled(s, k) = s.row + k
  BY <1>1 DEF Scrolled
<1>3. /\ p = [rows |-> p.rows, row |-> here, col |-> col]
      /\ p.rows = [r \in 1 .. Height |-> RollRow(s, widths, k, r + Scrolled(s, k))]
  BY DEF Printed
<1>. DEFINE touched == [c \in 1 .. Width |->
                           IF col <= c /\ c < col + w THEN k + 1 ELSE p.rows[here][c]]
<1>4. t = [rows |-> [p.rows EXCEPT ![here] = touched], row |-> here, col |-> col + w]
  <2>. HIDE DEF p, here, col, w
  <2>1. p.row = here /\ p.col = col
    BY <1>3
  <2>2. t = [p EXCEPT !.rows = [p.rows EXCEPT ![here] = touched], !.col = col + w]
    BY <2>1 DEF Text
  <2>. DEFINE q == [p EXCEPT !.rows = [p.rows EXCEPT ![here] = touched]]
  <2>3. q = [rows |-> [p.rows EXCEPT ![here] = touched], row |-> here, col |-> col]
    <3>1. ASSUME NEW before, NEW rows, p = [rows |-> before, row |-> here, col |-> col]
          PROVE  [p EXCEPT !.rows = rows] = [rows |-> rows, row |-> here, col |-> col]
      BY <3>1
    <3>2. p = [rows |-> p.rows, row |-> here, col |-> col]
      BY <1>3
    <3>. QED
      BY <3>1, <3>2
  <2>4. t = [q EXCEPT !.col = col + w]
    BY <2>2
  <2>. HIDE DEF q
  <2>. QED
    BY <2>3, <2>4
<1>5. p.rows[here] = Original(s, s.row + k)
  BY <1>1, <1>2, <1>3 DEF RollRow
<1>6. touched = LineRow(s, widths, k + 1)
  BY <1>5 DEF LineRow
<1>. SUFFICES NewLine(t) = Printed(s, widths, k + 1)
  OBVIOUS
<1>. HIDE DEF p, t, touched, w, col, here
<1>7. t.rows = [r \in 1 .. Height |-> RollRow(s, widths, k + 1, r + Scrolled(s, k))]
  <2>1. ASSUME NEW r \in 1 .. Height
        PROVE  [p.rows EXCEPT ![here] = touched][r]
                 = RollRow(s, widths, k + 1, r + Scrolled(s, k))
    <3>1. CASE r = here
      <4>1. r + Scrolled(s, k) = s.row + k
        BY <1>2, <3>1
      <4>2. RollRow(s, widths, k + 1, s.row + k) = LineRow(s, widths, k + 1)
        BY <1>1 DEF RollRow
      <4>. QED
        BY <1>3, <1>6, <3>1, <4>1, <4>2
    <3>2. CASE r # here
      <4>1. r + Scrolled(s, k) # s.row + k
        BY <1>2, <3>2
      <4>2. RollRow(s, widths, k + 1, r + Scrolled(s, k))
              = RollRow(s, widths, k, r + Scrolled(s, k))
        BY <1>1, <1>2, <4>1 DEF RollRow
      <4>. QED
        BY <1>3, <3>2, <4>2
    <3>. QED
      BY <3>1, <3>2
  <2>2. t.rows = [p.rows EXCEPT ![here] = touched]
    BY <1>4
  <2>. QED
    BY <1>3, <2>1, <2>2
<1>8. t.row = here
  BY <1>4
<1>. DEFINE rolled == [r \in 1 .. Height |-> RollRow(s, widths, k + 1, r + Scrolled(s, k + 1))]
<1>11. Printed(s, widths, k + 1)
        = [rows |-> rolled, row |-> s.row + (k + 1) - Scrolled(s, k + 1), col |-> 1]
  <2>1. k + 1 # 0
    OBVIOUS
  <2>. QED
    BY <2>1, Zenon DEF Printed
<1>9. CASE here < Height
  <2>1. Scrolled(s, k + 1) = Scrolled(s, k)
    BY <1>1, <1>2, <1>9 DEF Scrolled
  <2>2. NewLine(t) = [rows |-> t.rows, row |-> here + 1, col |-> 1]
    BY <1>4, <1>8, <1>9 DEF NewLine
  <2>3. here + 1 = s.row + (k + 1) - Scrolled(s, k + 1)
    BY <1>1, <1>2, <2>1
  <2>. QED
    BY <1>7, <1>11, <2>1, <2>2, <2>3
<1>10. CASE ~(here < Height)
  <2>1. Scrolled(s, k + 1) = Scrolled(s, k) + 1
    BY <1>1, <1>2, <1>10 DEF Scrolled
  <2>. DEFINE moved == [r \in 1 .. Height |-> IF r < Height THEN t.rows[r + 1] ELSE BlankRow]
  <2>2. NewLine(t) = [rows |-> moved, row |-> Height, col |-> 1]
    BY <1>8, <1>10 DEF NewLine
  <2>3. ASSUME NEW r \in 1 .. Height
        PROVE  moved[r] = RollRow(s, widths, k + 1, r + Scrolled(s, k + 1))
    <3>1. CASE r < Height
      <4>0. r + 1 \in 1 .. Height
        BY <1>1, <3>1
      <4>1. (r + 1) + Scrolled(s, k) = r + Scrolled(s, k + 1)
        BY <1>2, <2>1
      <4>2. moved[r] = t.rows[r + 1]
        BY <3>1
      <4>3. t.rows[r + 1] = RollRow(s, widths, k + 1, (r + 1) + Scrolled(s, k))
        BY <1>7, <4>0
      <4>. QED
        BY <4>1, <4>2, <4>3
    <3>2. CASE ~(r < Height)
      <4>1. moved[r] = BlankRow
        BY <3>2
      <4>2. r + Scrolled(s, k + 1) > Height /\ r + Scrolled(s, k + 1) >= s.row + (k + 1)
        BY <1>1, <1>2, <1>10, <2>1, <3>2
      <4>. QED
        BY <1>1, <1>2, <2>1, <4>1, <4>2 DEF RollRow, Original
    <3>. QED
      BY <3>1, <3>2
  <2>4. moved = [r \in 1 .. Height |-> RollRow(s, widths, k + 1, r + Scrolled(s, k + 1))]
    <3>. HIDE DEF moved
    <3>1. moved = [r \in 1 .. Height |-> moved[r]]
      BY DEF moved
    <3>. QED
      BY <2>3, <3>1
  <2>5. Height = s.row + (k + 1) - Scrolled(s, k + 1)
    <3>1. here = Height
      BY <1>1, <1>2, <1>10
    <3>2. /\ s.row \in Nat /\ Scrolled(s, k) \in Nat /\ Height \in Nat
          /\ Height + Scrolled(s, k) = s.row + k
      BY <1>1, <1>2, <3>1
    <3>. QED
      BY <2>1, <3>2
  <2>. QED
    BY <1>11, <2>2, <2>4, <2>5
<1>. QED
  BY <1>9, <1>10

\* PrintFrame is what its recursion says, so the window is the one described.
LEMMA PrintFrameShows ==
    ASSUME NEW s \in Screens, NEW widths, Len(widths) \in Nat
    PROVE  PrintFrame(s, widths) = Printed(s, widths, Len(widths))
<1>. DEFINE n == Len(widths)
            After(f, k) == IF k = 0 THEN s ELSE NewLine(Text(f[k - 1], k, widths[k]))
            shown == [k \in 0 .. n |-> Printed(s, widths, k)]
            IsPrint(f) == f = [k \in 0 .. n |-> After(f, k)]
<1>1. Printed(s, widths, 0) = s
  <2>1. /\ s = [rows |-> s.rows, row |-> s.row, col |-> s.col]
        /\ s.rows = [r \in 1 .. Height |-> s.rows[r]] /\ s.row \in 1 .. Height
        /\ Height \in Nat
    BY WindowAssumption DEF Screens
  <2>2. Scrolled(s, 0) = 0
    BY <2>1 DEF Scrolled
  <2>3. \A r \in 1 .. Height : RollRow(s, widths, 0, r + 0) = s.rows[r]
    BY <2>1 DEF RollRow, Original
  <2>. QED
    BY <2>1, <2>2, <2>3 DEF Printed
<1>2. ASSUME NEW k \in 1 .. n
      PROVE  NewLine(Text(Printed(s, widths, k - 1), k, widths[k])) = Printed(s, widths, k)
  <2>1. k - 1 \in Nat /\ (k - 1) + 1 = k
    OBVIOUS
  <2>. QED
    BY <2>1, PrintedNext
<1>3. IsPrint(shown)
  <2>1. ASSUME NEW k \in 0 .. n PROVE Printed(s, widths, k) = After(shown, k)
    <3>1. CASE k = 0
      BY <1>1, <3>1
    <3>2. CASE k # 0
      <4>1. k \in 1 .. n /\ k - 1 \in 0 .. n
        BY <3>2
      <4>2. shown[k - 1] = Printed(s, widths, k - 1)
        BY <4>1
      <4>. HIDE DEF shown
      <4>. QED
        BY <1>2, <3>2, <4>1, <4>2
    <3>. QED
      BY <3>1, <3>2
  <2>2. shown = [k \in 0 .. n |-> Printed(s, widths, k)]
    OBVIOUS
  <2>. HIDE DEF shown, After
  <2>. QED
    BY <2>1, <2>2
<1>. DEFINE print == CHOOSE f : IsPrint(f)
<1>4. IsPrint(print)
  BY <1>3
<1>5. PrintFrame(s, widths) = print[n]
  BY DEF PrintFrame
<1>. HIDE DEF print
<1>6. ASSUME NEW k \in 0 .. n, print[k] # Printed(s, widths, k) PROVE FALSE
  <2>. DEFINE Astray == {j \in 0 .. n : print[j] # Printed(s, widths, j)}
  <2>1. Astray \subseteq Nat /\ Astray # {}
    BY <1>6
  <2>2. PICK m \in Astray : \A j \in Astray : m <= j
    BY <2>1, LeastNumber
  <2>3. m \in 0 .. n /\ print[m] = After(print, m)
    BY <1>4
  <2>4. m # 0
    BY <1>1, <2>2, <2>3
  <2>5. m \in 1 .. n /\ print[m - 1] = Printed(s, widths, m - 1)
    BY <2>2, <2>3, <2>4
  <2>. QED
    BY <1>2, <2>2, <2>3, <2>4, <2>5
<1>. QED
  BY <1>5, <1>6

\* Rows of a screen, cell by cell.
LEMMA PrintedScreen ==
    ASSUME NEW s \in Screens, NEW widths, NEW k \in Nat,
           \A r \in 1 .. Height, c \in 1 .. Width : s.rows[r][c] \in Cells
    PROVE  /\ Printed(s, widths, k) \in Screens
           /\ \A r \in 1 .. Height, c \in 1 .. Width :
                 Printed(s, widths, k).rows[r][c] \in Cells \cup 1 .. k
<1>. DEFINE p == Printed(s, widths, k)
            down == Scrolled(s, k)
<1>0. /\ s.rows \in [1 .. Height -> [1 .. Width -> Int]] /\ s.col \in 1 .. Width
  BY DEF Screens
<1>1. Height \in Nat /\ Height > 1 /\ s.row \in Nat /\ 1 <= s.row /\ s.row <= Height
  BY WindowAssumption DEF Screens
<1>2. down \in Nat /\ s.row + k - down \in 1 .. Height
  BY <1>1 DEF Scrolled
<1>. HIDE DEF down
<1>3. ASSUME NEW n \in Nat, n >= 1
      PROVE  /\ Original(s, n) \in [1 .. Width -> Int]
             /\ \A c \in 1 .. Width : Original(s, n)[c] \in Cells
  <2>1. CASE n <= Height
    <3>1. n \in 1 .. Height
      BY <1>1, <1>3, <2>1
    <3>2. s.rows[n] \in [1 .. Width -> Int]
      BY <1>0, <3>1
    <3>. QED
      BY <2>1, <3>1, <3>2 DEF Original
  <2>2. CASE ~(n <= Height)
    BY <2>2 DEF Original, BlankRow, Blank, Cells
  <2>. QED
    BY <2>1, <2>2
<1>4. ASSUME NEW j \in 1 .. k
      PROVE  /\ LineRow(s, widths, j) \in [1 .. Width -> Int]
             /\ \A c \in 1 .. Width : LineRow(s, widths, j)[c] \in Cells \cup 1 .. k
  <2>1. s.row + j - 1 \in Nat /\ s.row + j - 1 >= 1
    BY <1>1
  <2>. DEFINE under == Original(s, s.row + j - 1)
  <2>2. \A c \in 1 .. Width : under[c] \in Int /\ under[c] \in Cells
    BY <1>3, <2>1
  <2>. HIDE DEF under
  <2>3. j \in Int
    OBVIOUS
  <2>. QED
    BY <2>2, <2>3 DEF LineRow, under
<1>5. ASSUME NEW r \in 1 .. Height
      PROVE  /\ RollRow(s, widths, k, r + down) \in [1 .. Width -> Int]
             /\ \A c \in 1 .. Width : RollRow(s, widths, k, r + down)[c] \in Cells \cup 1 .. k
  <2>1. r + down \in Nat /\ r + down >= 1
    BY <1>1, <1>2
  <2>2. CASE s.row <= r + down /\ r + down < s.row + k
    <3>. DEFINE n == r + down
    <3>1. n \in Nat /\ s.row <= n /\ n < s.row + k
      BY <2>1, <2>2
    <3>. HIDE DEF n
    <3>2. n - s.row + 1 \in 1 .. k
      BY <1>1, <3>1
    <3>. QED
      BY <1>4, <2>2, <3>2 DEF RollRow, n
  <2>3. CASE ~(s.row <= r + down /\ r + down < s.row + k)
    BY <1>3, <2>1, <2>3 DEF RollRow
  <2>. QED
    BY <2>2, <2>3
<1>6. /\ p.rows = [r \in 1 .. Height |-> RollRow(s, widths, k, r + down)]
      /\ p.row = s.row + k - down /\ p.col = (IF k = 0 THEN s.col ELSE 1)
      /\ p = [rows |-> p.rows, row |-> p.row, col |-> p.col]
  BY DEF Printed, down
<1>. HIDE DEF p
<1>7. p.rows \in [1 .. Height -> [1 .. Width -> Int]]
  BY <1>5, <1>6
<1>8. p.col \in 1 .. Width
  BY <1>0, WindowAssumption, <1>6
<1>9. p \in Screens
  BY <1>2, <1>6, <1>7, <1>8 DEF Screens
<1>10. \A r \in 1 .. Height, c \in 1 .. Width : p.rows[r][c] \in Cells \cup 1 .. k
  BY <1>5, <1>6
<1>. QED
  BY <1>9, <1>10 DEF p

\* Where a line is found, and what is below the last one.
LEMMA PrintedLine ==
    ASSUME NEW s \in Screens, NEW widths, NEW k \in Nat, NEW j \in 1 .. k,
           k - j < Height - 1
    PROVE  LET p == Printed(s, widths, k)
               r == p.row - (k - j) - 1
           IN  r >= 1 => r \in 1 .. p.row - 1 /\ p.rows[r] = LineRow(s, widths, j)
<1>. DEFINE p == Printed(s, widths, k)
            down == Scrolled(s, k)
            r == p.row - (k - j) - 1
<1>1. Height \in Nat /\ Height > 1 /\ s.row \in Nat /\ 1 <= s.row /\ s.row <= Height
  BY WindowAssumption DEF Screens
<1>2. down \in Nat /\ s.row + k - down \in 1 .. Height
  BY <1>1 DEF Scrolled
<1>3. p.rows = [n \in 1 .. Height |-> RollRow(s, widths, k, n + down)]
  BY DEF Printed
<1>0. p.row = s.row + k - down
  BY DEF Printed
<1>. HIDE DEF p, down
<1>4. r \in Int /\ r + down = s.row + j - 1 /\ r <= p.row - 1 /\ r <= Height
  BY <1>0, <1>1, <1>2
<1>5. p.row \in Int
  BY <1>0, <1>1, <1>2
<1>6. RollRow(s, widths, k, s.row + j - 1) = LineRow(s, widths, j)
  <2>1. s.row <= s.row + j - 1 /\ s.row + j - 1 < s.row + k
        /\ (s.row + j - 1) - s.row + 1 = j
    BY <1>1
  <2>. QED
    BY <2>1 DEF RollRow
<1>. HIDE DEF r
<1>7. r >= 1 => r \in 1 .. p.row - 1 /\ r \in 1 .. Height
  BY <1>1, <1>4, <1>5
<1>8. r >= 1 => p.rows[r] = LineRow(s, widths, j)
  BY <1>3, <1>4, <1>6, <1>7
<1>. QED
  BY <1>7, <1>8 DEF r, p

BlankBelow(s) == \A r \in 1 .. Height : s.row < r => s.rows[r] = BlankRow

\* Nothing stands below the cursor after a frame, if nothing did before it.
LEMMA PrintedBelow ==
    ASSUME NEW s \in Screens, BlankBelow(s), NEW widths, NEW k \in Nat
    PROVE  LET p == Printed(s, widths, k)
           IN  /\ BlankBelow(p)
               /\ k # 0 => p.rows[p.row] = BlankRow
<1>. DEFINE p == Printed(s, widths, k)
            down == Scrolled(s, k)
<1>1. Height \in Nat /\ Height > 1 /\ s.row \in Nat /\ 1 <= s.row /\ s.row <= Height
  BY WindowAssumption DEF Screens
<1>2. down \in Nat /\ s.row + k - down \in 1 .. Height
  BY <1>1 DEF Scrolled
<1>3. /\ p.rows = [n \in 1 .. Height |-> RollRow(s, widths, k, n + down)]
      /\ p.row = s.row + k - down
  BY DEF Printed
<1>. HIDE DEF p, down
<1>4. ASSUME NEW r \in 1 .. Height, r > p.row \/ (r = p.row /\ k # 0)
      PROVE  p.rows[r] = BlankRow
  <2>1. r + down \in Nat /\ r + down >= s.row + k /\ r + down > s.row
    BY <1>1, <1>2, <1>3, <1>4
  <2>2. RollRow(s, widths, k, r + down) = Original(s, r + down)
    BY <1>1, <2>1 DEF RollRow
  <2>3. Original(s, r + down) = BlankRow
    BY <1>1, <2>1 DEF Original, BlankBelow
  <2>. QED
    BY <1>3, <2>2, <2>3
<1>5. BlankBelow(p) /\ (k # 0 => p.rows[p.row] = BlankRow)
  BY <1>1, <1>2, <1>3, <1>4 DEF BlankBelow
<1>. QED
  BY <1>5 DEF p

\* Text, field by field.
LEMMA TextWrites ==
    ASSUME NEW rows, NEW row, NEW col, NEW cell, NEW width
    PROVE  Text([rows |-> rows, row |-> row, col |-> col], cell, width)
             = [rows |-> [rows EXCEPT ![row] =
                            [c \in 1 .. Width |-> IF col <= c /\ c < col + width THEN cell
                                                  ELSE rows[row][c]]],
                row |-> row, col |-> col + width]
<1>. DEFINE s == [rows |-> rows, row |-> row, col |-> col]
            new == [rows EXCEPT ![row] =
                       [c \in 1 .. Width |-> IF col <= c /\ c < col + width THEN cell
                                             ELSE rows[row][c]]]
<1>1. s.rows = rows /\ s.row = row /\ s.col = col
  OBVIOUS
<1>2. Text(s, cell, width) = [s EXCEPT !.rows = new, !.col = col + width]
  <2>. HIDE DEF s
  <2>. QED
    BY <1>1 DEF Text
<1>. HIDE DEF new
<1>3. [s EXCEPT !.rows = new] = [rows |-> new, row |-> row, col |-> col]
  OBVIOUS
<1>4. ASSUME NEW t, t = [rows |-> new, row |-> row, col |-> col]
      PROVE  [t EXCEPT !.col = col + width] = [rows |-> new, row |-> row, col |-> col + width]
  BY <1>4
<1>5. [s EXCEPT !.rows = new, !.col = col + width]
        = [[s EXCEPT !.rows = new] EXCEPT !.col = col + width]
  OBVIOUS
<1>. QED
  BY <1>2, <1>3, <1>4, <1>5 DEF new

\* What a screen consists of.
LEMMA ScreenRecord ==
    ASSUME NEW s \in Screens
    PROVE  /\ s = [rows |-> s.rows, row |-> s.row, col |-> s.col]
           /\ s.rows \in [1 .. Height -> [1 .. Width -> Int]]
           /\ s.row \in Nat /\ 1 <= s.row /\ s.row <= Height
           /\ s.col \in Nat /\ 1 <= s.col /\ s.col <= Width
           /\ Height \in Nat /\ Height > 1 /\ Width \in Nat /\ Width > 2
<1>1. Height \in Nat /\ Height > 1 /\ Width \in Nat /\ Width > 2
  BY WindowAssumption
<1>2. s.row \in 1 .. Height /\ s.col \in 1 .. Width
  BY DEF Screens
<1>3. /\ s = [rows |-> s.rows, row |-> s.row, col |-> s.col]
      /\ s.rows \in [1 .. Height -> [1 .. Width -> Int]]
  BY DEF Screens
<1>. QED
  BY <1>1, <1>2, <1>3

\* An empty row is blank, and no mark is the number of a line.
LEMMA EmptyRow ==
    /\ BlankRow \in [1 .. Width -> Int] /\ \A c \in 1 .. Width : BlankRow[c] = Blank
    /\ Blank \in Cells /\ Cells \subseteq Int /\ \A cell \in Cells : ~(cell > 0)
BY DEF BlankRow, Blank, Cells, Shell, Past, Garbage, Message

\* The marks are not the numbers of lines, and differ where it matters.
LEMMA MarksOfAScreen ==
    /\ Blank \in Cells /\ Shell \in Cells /\ Past \in Cells /\ Garbage \in Cells
    /\ Message \in Cells
    /\ \A cell \in Cells : cell \in Int /\ cell <= 0
    /\ Shell # Blank /\ Message \in Int /\ Past \in Int
BY DEF Blank, Shell, Past, Garbage, Message, Cells

\* The window when the program starts.
LEMMA ShellScreenTyped ==
    ASSUME NEW row \in 1 .. Height
    PROVE  LET s == ShellScreen(row)
           IN  /\ s \in Screens /\ s.row = row /\ s.col = 1 /\ BlankBelow(s)
               /\ \A r \in 1 .. Height :
                     s.rows[r] = IF r < row THEN [c \in 1 .. Width |-> Shell] ELSE BlankRow
               /\ \A r \in 1 .. Height, c \in 1 .. Width : s.rows[r][c] \in Cells
<1>. DEFINE s == ShellScreen(row)
            shell == [c \in 1 .. Width |-> Shell]
            rows == [r \in 1 .. Height |-> IF r < row THEN shell ELSE BlankRow]
<1>1. s = [rows |-> rows, row |-> row, col |-> 1]
  BY DEF ShellScreen
<1>2. shell \in [1 .. Width -> Int] /\ \A c \in 1 .. Width : shell[c] \in Cells
  BY DEF Shell, Cells
<1>. HIDE DEF shell
<1>3. /\ rows \in [1 .. Height -> [1 .. Width -> Int]]
      /\ \A r \in 1 .. Height, c \in 1 .. Width : rows[r][c] \in Cells
  BY <1>2, EmptyRow
<1>4. \A r \in 1 .. Height : rows[r] = IF r < row THEN shell ELSE BlankRow
  OBVIOUS
<1>. HIDE DEF rows, s
<1>5. 1 \in 1 .. Width
  BY WindowAssumption
<1>6. s \in Screens
  BY <1>1, <1>3, <1>5 DEF Screens
<1>7. s.rows = rows /\ s.row = row /\ s.col = 1
  BY <1>1
<1>8. Height \in Nat
  BY WindowAssumption
<1>9. BlankBelow(s)
  BY <1>4, <1>7, <1>8 DEF BlankBelow
<1>. QED
  BY <1>3, <1>4, <1>6, <1>7, <1>9 DEF s, shell

\* An escape sequence that is printed as text.
LEMMA EscapeWrites ==
    ASSUME NEW s \in Screens, s.col < Width
    PROVE  LET e == Escape(s)
           IN  /\ e \in Screens /\ e.row = s.row /\ e.col = s.col + 1
               /\ \A r \in 1 .. Height : r # s.row => e.rows[r] = s.rows[r]
               /\ \A r \in 1 .. Height, c \in 1 .. Width :
                     e.rows[r][c] = s.rows[r][c] \/ e.rows[r][c] = Garbage
               /\ BlankBelow(s) => BlankBelow(e)
<1>. DEFINE e == Escape(s)
            new == [c \in 1 .. Width |-> IF s.col <= c /\ c < s.col + 1 THEN Garbage
                                         ELSE s.rows[s.row][c]]
<1>1. /\ s = [rows |-> s.rows, row |-> s.row, col |-> s.col]
      /\ s.rows \in [1 .. Height -> [1 .. Width -> Int]]
  BY ScreenRecord
<1>2. /\ s.row \in Nat /\ 1 <= s.row /\ s.row <= Height /\ s.col \in Nat /\ 1 <= s.col
      /\ Height \in Nat /\ Width \in Nat
  BY ScreenRecord
<1>3. e = [rows |-> [s.rows EXCEPT ![s.row] = new], row |-> s.row, col |-> s.col + 1]
  <2>1. ASSUME NEW rows, NEW row, NEW col, s = [rows |-> rows, row |-> row, col |-> col]
        PROVE  Escape(s) = [rows |-> [rows EXCEPT ![row] =
                                        [c \in 1 .. Width |-> IF col <= c /\ c < col + 1
                                                              THEN Garbage ELSE rows[row][c]]],
                            row |-> row, col |-> col + 1]
    <3>1. Escape(s) = Text([rows |-> rows, row |-> row, col |-> col], Garbage, 1)
      BY <2>1, Zenon DEF Escape
    <3>2. Text([rows |-> rows, row |-> row, col |-> col], Garbage, 1)
            = [rows |-> [rows EXCEPT ![row] =
                           [c \in 1 .. Width |-> IF col <= c /\ c < col + 1
                                                 THEN Garbage ELSE rows[row][c]]],
               row |-> row, col |-> col + 1]
      BY TextWrites
    <3>. QED
      BY <3>1, <3>2, Zenon
  <2>. QED
    BY <1>1, <2>1, Zenon
<1>4. s.row \in 1 .. Height /\ s.col + 1 \in 1 .. Width
  BY <1>2
<1>0. s.rows[s.row] \in [1 .. Width -> Int]
  BY <1>1, <1>4
<1>5. /\ new \in [1 .. Width -> Int]
      /\ \A c \in 1 .. Width : new[c] = s.rows[s.row][c] \/ new[c] = Garbage
  <2>. DEFINE under == s.rows[s.row]
  <2>1. Garbage \in Int /\ under \in [1 .. Width -> Int]
    BY <1>0 DEF Garbage
  <2>. HIDE DEF under
  <2>2. new = [c \in 1 .. Width |-> IF s.col <= c /\ c < s.col + 1 THEN Garbage ELSE under[c]]
    BY DEF under
  <2>. HIDE DEF new
  <2>3. /\ new \in [1 .. Width -> Int]
        /\ \A c \in 1 .. Width : new[c] = under[c] \/ new[c] = Garbage
    BY <2>1, <2>2
  <2>. QED
    BY <2>3 DEF under
<1>. HIDE DEF e, new
<1>6. /\ e.rows = [s.rows EXCEPT ![s.row] = new] /\ e.row = s.row /\ e.col = s.col + 1
  BY <1>3
<1>7. e.rows \in [1 .. Height -> [1 .. Width -> Int]]
  BY <1>1, <1>4, <1>5, <1>6
<1>8. e \in Screens
  BY <1>3, <1>4, <1>6, <1>7 DEF Screens
<1>9. /\ \A r \in 1 .. Height : r # s.row => e.rows[r] = s.rows[r]
      /\ e.rows[s.row] = new
  BY <1>1, <1>4, <1>6
<1>10. \A r \in 1 .. Height, c \in 1 .. Width :
          e.rows[r][c] = s.rows[r][c] \/ e.rows[r][c] = Garbage
  BY <1>5, <1>9
<1>11. BlankBelow(s) => BlankBelow(e)
  BY <1>2, <1>6, <1>9 DEF BlankBelow
<1>. QED
  BY <1>6, <1>8, <1>9, <1>10, <1>11 DEF e

\* Rows whose cells hold Marks, blank below one of them.
Filled(rows, row, Marks) ==
    /\ rows \in [1 .. Height -> [1 .. Width -> Int]] /\ row \in 1 .. Height
    /\ \A r \in 1 .. Height : row < r => rows[r] = BlankRow
    /\ \A r \in 1 .. Height, c \in 1 .. Width : rows[r][c] \in Marks

\* The cursor is at the start of an empty row, and `above` is the row above it.
BelowRow(s, above, Marks) ==
    /\ s \in Screens /\ s.col = 1 /\ s.row > 1
    /\ s.rows[s.row - 1] = above
    /\ \A r \in s.row .. Height : s.rows[r] = BlankRow
    /\ \A r \in 1 .. Height, c \in 1 .. Width : s.rows[r][c] \in Marks

\* "\n" where there is nothing below the cursor.
LEMMA NewLineMoves ==
    ASSUME NEW rows, NEW row, NEW col, NEW Marks, Blank \in Marks, Filled(rows, row, Marks)
    PROVE  BelowRow(NewLine([rows |-> rows, row |-> row, col |-> col]), rows[row], Marks)
<1>. DEFINE s == [rows |-> rows, row |-> row, col |-> col]
            t == NewLine(s)
            up == [r \in 1 .. Height |-> IF r < Height THEN rows[r + 1] ELSE BlankRow]
<1>1. Height \in Nat /\ Height > 1 /\ 1 \in 1 .. Width /\ row \in Nat /\ 1 <= row /\ row <= Height
  BY WindowAssumption DEF Filled
<1>0. /\ rows \in [1 .. Height -> [1 .. Width -> Int]] /\ row \in 1 .. Height
      /\ \A r \in 1 .. Height : row < r => rows[r] = BlankRow
      /\ \A r \in 1 .. Height, c \in 1 .. Width : rows[r][c] \in Marks
  BY DEF Filled
<1>2. s.rows = rows /\ s.row = row /\ s.col = col
  OBVIOUS
<1>3. CASE row < Height
  <2>1. t = [[s EXCEPT !.row = row + 1] EXCEPT !.col = 1]
    <3>1. t = [s EXCEPT !.row = row + 1, !.col = 1]
      <4>. HIDE DEF s
      <4>. QED
        BY <1>2, <1>3 DEF NewLine
    <3>. QED
      BY <3>1
  <2>2. t = [rows |-> rows, row |-> row + 1, col |-> 1]
    BY <2>1
  <2>. HIDE DEF t
  <2>3. t.rows = rows /\ t.row = row + 1 /\ t.col = 1
    BY <2>2
  <2>4. row + 1 \in 1 .. Height /\ (row + 1) - 1 = row
    BY <1>1, <1>3
  <2>5. t \in Screens
    BY <1>0, <1>1, <2>2, <2>4 DEF Screens
  <2>6. \A r \in row + 1 .. Height : r \in 1 .. Height /\ row < r
    BY <1>1
  <2>. QED
    BY <1>0, <1>1, <2>3, <2>4, <2>5, <2>6 DEF t, BelowRow
<1>4. CASE ~(row < Height)
  <2>1. t = [rows |-> up, row |-> Height, col |-> 1]
    <3>. HIDE DEF s
    <3>. QED
      BY <1>2, <1>4 DEF NewLine
  <2>2. \A r \in 1 .. Height : r < Height => r + 1 \in 1 .. Height
    BY <1>1
  <2>3. /\ up \in [1 .. Height -> [1 .. Width -> Int]]
        /\ \A r \in 1 .. Height, c \in 1 .. Width : up[r][c] \in Marks
    BY <1>0, <2>2, EmptyRow
  <2>4. up[Height] = BlankRow /\ up[Height - 1] = rows[Height]
    <3>1. Height \in 1 .. Height /\ Height - 1 \in 1 .. Height /\ Height - 1 < Height
          /\ (Height - 1) + 1 = Height /\ ~(Height < Height)
      BY <1>1
    <3>. QED
      BY <3>1
  <2>5. row = Height /\ \A r \in Height .. Height : r = Height
    BY <1>1, <1>4
  <2>. HIDE DEF t, up
  <2>6. t.rows = up /\ t.row = Height /\ t.col = 1
    BY <2>1
  <2>7. t \in Screens
    BY <1>1, <2>1, <2>3, <1>4 DEF Screens
  <2>. QED
    BY <1>1, <2>3, <2>4, <2>5, <2>6, <2>7 DEF t, BelowRow
<1>. QED
  BY <1>3, <1>4

\* "Shutting down." stands on a row of its own, the one above the cursor.
LEMMA GoodbyeShows ==
    ASSUME NEW s \in Screens, BlankBelow(s), NEW width \in 0 .. Width,
           NEW Marks, Blank \in Marks, Message \in Marks,
           \A r \in 1 .. Height, c \in 1 .. Width : s.rows[r][c] \in Marks
    PROVE  BelowRow(Goodbye(s, width),
                    [c \in 1 .. Width |-> IF c <= width THEN Message ELSE Blank], Marks)
<1>. DEFINE t == NewLine(s)
            text == [c \in 1 .. Width |-> IF c <= width THEN Message ELSE Blank]
            rows == [t.rows EXCEPT ![t.row] = text]
            g == NewLine(Text(t, Message, width))
<1>0. ASSUME NEW old, NEW row, NEW col, s = [rows |-> old, row |-> row, col |-> col],
             Filled(old, row, Marks)
      PROVE  BelowRow(t, old[row], Marks)
  BY <1>0, NewLineMoves, Zenon
<1>1. /\ s = [rows |-> s.rows, row |-> s.row, col |-> s.col]
      /\ Filled(s.rows, s.row, Marks)
  BY ScreenRecord DEF BlankBelow, Screens, Filled
<1>2. /\ t \in Screens /\ t.col = 1 /\ t.row > 1
      /\ \A r \in t.row .. Height : t.rows[r] = BlankRow
      /\ \A r \in 1 .. Height, c \in 1 .. Width : t.rows[r][c] \in Marks
  <2>1. BelowRow(t, s.rows[s.row], Marks)
    BY <1>0, <1>1, Zenon
  <2>. QED
    BY <2>1 DEF BelowRow
<1>. HIDE DEF t
<1>3. /\ t = [rows |-> t.rows, row |-> t.row, col |-> 1]
      /\ t.rows \in [1 .. Height -> [1 .. Width -> Int]]
      /\ t.row \in Nat /\ 1 <= t.row /\ t.row <= Height
      /\ Height \in Nat /\ Width \in Nat
  BY <1>2, ScreenRecord
<1>4. t.rows[t.row] = BlankRow
  <2>1. t.row \in t.row .. Height
    BY <1>3
  <2>. QED
    BY <1>2, <2>1
<1>5. [c \in 1 .. Width |-> IF 1 <= c /\ c < 1 + width THEN Message ELSE t.rows[t.row][c]]
        = text
  <2>1. \A c \in 1 .. Width : BlankRow[c] = Blank /\ (1 <= c /\ c < 1 + width <=> c <= width)
    BY EmptyRow
  <2>2. [c \in 1 .. Width |-> IF 1 <= c /\ c < 1 + width THEN Message ELSE BlankRow[c]] = text
    BY <2>1
  <2>. QED
    BY <1>4, <2>2
<1>6. Text(t, Message, width) = [rows |-> rows, row |-> t.row, col |-> 1 + width]
  <2>1. ASSUME NEW old, NEW row, t = [rows |-> old, row |-> row, col |-> 1]
        PROVE  Text(t, Message, width)
                 = [rows |-> [old EXCEPT ![row] =
                                [c \in 1 .. Width |-> IF 1 <= c /\ c < 1 + width THEN Message
                                                      ELSE old[row][c]]],
                    row |-> row, col |-> 1 + width]
    <3>1. Text([rows |-> old, row |-> row, col |-> 1], Message, width)
                 = [rows |-> [old EXCEPT ![row] =
                                [c \in 1 .. Width |-> IF 1 <= c /\ c < 1 + width THEN Message
                                                      ELSE old[row][c]]],
                    row |-> row, col |-> 1 + width]
      BY TextWrites
    <3>. QED
      BY <2>1, <3>1, Zenon
  <2>2. Text(t, Message, width)
          = [rows |-> [t.rows EXCEPT ![t.row] =
                         [c \in 1 .. Width |-> IF 1 <= c /\ c < 1 + width THEN Message
                                               ELSE t.rows[t.row][c]]],
             row |-> t.row, col |-> 1 + width]
    BY <1>3, <2>1, Zenon
  <2>. QED
    BY <1>5, <2>2, Zenon
<1>7. /\ text \in [1 .. Width -> Int] /\ \A c \in 1 .. Width : text[c] \in Marks
  BY MarksOfAScreen
<1>. HIDE DEF text
<1>8. t.row \in 1 .. Height
  BY <1>3
<1>9. /\ rows \in [1 .. Height -> [1 .. Width -> Int]] /\ rows[t.row] = text
      /\ \A r \in 1 .. Height : r # t.row => rows[r] = t.rows[r]
  BY <1>3, <1>7, <1>8
<1>. HIDE DEF rows
<1>10. \A r \in 1 .. Height : t.row < r => rows[r] = BlankRow
  <2>1. \A r \in 1 .. Height : t.row < r => r \in t.row .. Height /\ r # t.row
    BY <1>3
  <2>. QED
    BY <1>2, <1>9, <2>1
<1>11. \A r \in 1 .. Height, c \in 1 .. Width : rows[r][c] \in Marks
  BY <1>2, <1>7, <1>9
<1>12. Filled(rows, t.row, Marks)
  BY <1>8, <1>9, <1>10, <1>11 DEF Filled
<1>13. ASSUME NEW row, NEW col, Filled(rows, row, Marks)
       PROVE  BelowRow(NewLine([rows |-> rows, row |-> row, col |-> col]), rows[row], Marks)
  BY <1>13, NewLineMoves, Zenon
<1>14. BelowRow(g, text, Marks)
  BY <1>6, <1>9, <1>12, <1>13, Zenon
<1>. QED
  BY <1>14, Zenon DEF Goodbye, g, t, text

\* A repaint: what stood on the window is old, and the cursor is homed.
LEMMA AgedScreen ==
    ASSUME NEW s \in Screens, NEW n \in Nat,
           \A r \in 1 .. Height, c \in 1 .. Width : s.rows[r][c] \in Cells \cup 1 .. n
    PROVE  LET a == Aged(s)
           IN  /\ a \in Screens /\ a.row = s.row /\ a.col = s.col
               /\ \A r \in 1 .. Height, c \in 1 .. Width : a.rows[r][c] \in Cells
               /\ BlankBelow(s) => BlankBelow(a)
<1>. DEFINE a == Aged(s)
            rows == [r \in 1 .. Height |-> [c \in 1 .. Width |->
                        IF s.rows[r][c] > 0 THEN Past ELSE s.rows[r][c]]]
<1>1. /\ s = [rows |-> s.rows, row |-> s.row, col |-> s.col]
      /\ s.rows \in [1 .. Height -> [1 .. Width -> Int]]
  BY ScreenRecord
<1>2. a = [rows |-> rows, row |-> s.row, col |-> s.col]
  <2>1. a = [s EXCEPT !.rows = rows]
    BY DEF Aged
  <2>2. ASSUME NEW old, NEW row, NEW col, NEW new
        PROVE  [[rows |-> old, row |-> row, col |-> col] EXCEPT !.rows = new]
                 = [rows |-> new, row |-> row, col |-> col]
    OBVIOUS
  <2>. HIDE DEF rows
  <2>. QED
    BY <1>1, <2>1, <2>2, Zenon
<1>3. \A r \in 1 .. Height, c \in 1 .. Width : s.rows[r][c] \in Int
  BY <1>1
<1>4. ASSUME NEW r \in 1 .. Height, NEW c \in 1 .. Width
      PROVE  rows[r][c] \in Cells
  <2>. DEFINE cell == s.rows[r][c]
  <2>1. cell \in Cells \cup 1 .. n
    OBVIOUS
  <2>2. rows[r][c] = IF cell > 0 THEN Past ELSE cell
    OBVIOUS
  <2>. HIDE DEF cell
  <2>3. cell \in Cells \/ cell > 0
    BY <2>1
  <2>4. cell > 0 => rows[r][c] = Past
    BY <2>2, Zenon
  <2>5. ~(cell > 0) => rows[r][c] = cell
    BY <2>2, Zenon
  <2>. QED
    BY <2>3, <2>4, <2>5, MarksOfAScreen
<1>5. rows \in [1 .. Height -> [1 .. Width -> Int]]
  <2>1. /\ rows = [r \in 1 .. Height |-> rows[r]]
        /\ \A r \in 1 .. Height : rows[r] = [c \in 1 .. Width |-> rows[r][c]]
    OBVIOUS
  <2>2. \A r \in 1 .. Height, c \in 1 .. Width : rows[r][c] \in Int
    BY <1>4, MarksOfAScreen
  <2>. HIDE DEF rows
  <2>. QED
    BY <2>1, <2>2
<1>6. ASSUME NEW r \in 1 .. Height, s.rows[r] = BlankRow
      PROVE  rows[r] = BlankRow
  <2>1. rows[r] = [c \in 1 .. Width |-> IF BlankRow[c] > 0 THEN Past ELSE BlankRow[c]]
    BY <1>6
  <2>2. \A c \in 1 .. Width : BlankRow[c] = 0
    BY DEF BlankRow, Blank
  <2>3. BlankRow = [c \in 1 .. Width |-> 0]
    BY DEF BlankRow, Blank
  <2>. QED
    BY <2>1, <2>2, <2>3
<1>. HIDE DEF rows, a
<1>7. a.rows = rows /\ a.row = s.row /\ a.col = s.col
  BY <1>2
<1>8. a \in Screens
  BY <1>2, <1>5 DEF Screens
<1>9. BlankBelow(s) => BlankBelow(a)
  BY <1>6, <1>7 DEF BlankBelow
<1>. QED
  BY <1>4, <1>7, <1>8, <1>9 DEF a

\* Homing: the cursor in the first cell, or at most two escape sequences in a
\* row with nothing below it.
LEMMA HomeShows ==
    ASSUME NEW s \in Screens, BlankBelow(s), s.col <= 2, NEW n \in Nat, NEW understood \in BOOLEAN,
           \A r \in 1 .. Height, c \in 1 .. Width : s.rows[r][c] \in Cells \cup 1 .. n
    PROVE  LET h == CursorHome(Aged(s), understood)
           IN  /\ h \in Screens
               /\ \A r \in 1 .. Height, c \in 1 .. Width : h.rows[r][c] \in Cells
               /\ IF understood THEN h.row = 1 /\ h.col = 1 ELSE h.col <= 3 /\ BlankBelow(h)
<1>. DEFINE a == Aged(s)
            h == CursorHome(a, understood)
<1>1. /\ a \in Screens /\ a.col = s.col /\ BlankBelow(a)
      /\ \A r \in 1 .. Height, c \in 1 .. Width : a.rows[r][c] \in Cells
  BY AgedScreen
<1>. HIDE DEF a
<1>2. /\ a = [rows |-> a.rows, row |-> a.row, col |-> a.col]
      /\ a.rows \in [1 .. Height -> [1 .. Width -> Int]]
      /\ Width \in Nat /\ Width > 2 /\ Height \in Nat /\ Height > 1 /\ a.col \in Nat
  BY <1>1, ScreenRecord
<1>3. CASE understood
  <2>1. h = [a EXCEPT !.row = 1, !.col = 1]
    BY <1>3 DEF CursorHome
  <2>2. ASSUME NEW rows, NEW row, NEW col
        PROVE  [[rows |-> rows, row |-> row, col |-> col] EXCEPT !.row = 1, !.col = 1]
                 = [rows |-> rows, row |-> 1, col |-> 1]
    <3>1. [[rows |-> rows, row |-> row, col |-> col] EXCEPT !.row = 1]
            = [rows |-> rows, row |-> 1, col |-> col]
      OBVIOUS
    <3>2. [[rows |-> rows, row |-> 1, col |-> col] EXCEPT !.col = 1]
            = [rows |-> rows, row |-> 1, col |-> 1]
      OBVIOUS
    <3>3. [[rows |-> rows, row |-> row, col |-> col] EXCEPT !.row = 1, !.col = 1]
            = [[[rows |-> rows, row |-> row, col |-> col] EXCEPT !.row = 1] EXCEPT !.col = 1]
      OBVIOUS
    <3>. QED
      BY <3>1, <3>2, <3>3
  <2>3. h = [rows |-> a.rows, row |-> 1, col |-> 1]
    BY <1>2, <2>1, <2>2, Zenon
  <2>. HIDE DEF h
  <2>4. h.rows = a.rows /\ h.row = 1 /\ h.col = 1
    BY <2>3
  <2>5. 1 \in 1 .. Height /\ 1 \in 1 .. Width
    BY <1>2
  <2>6. h \in Screens
    BY <1>2, <2>3, <2>5 DEF Screens
  <2>. QED
    BY <1>1, <1>3, <2>4, <2>6 DEF h, a
<1>4. CASE ~understood
  <2>1. h = Escape(a)
    BY <1>4 DEF CursorHome
  <2>2. a.col < Width
    BY <1>1, <1>2
  <2>. HIDE DEF h
  <2>3. /\ h \in Screens /\ h.col = a.col + 1 /\ BlankBelow(h)
        /\ \A r \in 1 .. Height, c \in 1 .. Width :
              h.rows[r][c] = a.rows[r][c] \/ h.rows[r][c] = Garbage
    BY <1>1, <2>1, <2>2, EscapeWrites
  <2>4. \A r \in 1 .. Height, c \in 1 .. Width : h.rows[r][c] \in Cells
    BY <1>1, <2>3, MarksOfAScreen
  <2>5. h.col <= 3
    BY <1>1, <1>2, <2>3
  <2>. QED
    BY <1>4, <2>3, <2>4, <2>5 DEF h, a
<1>. QED
  BY <1>3, <1>4

\* After a frame: what is below it is cleared, or an escape sequence is printed.
LEMMA ClearShows ==
    ASSUME NEW p \in Screens, p.col = 1, NEW understood \in BOOLEAN,
           ~understood => BlankBelow(p), NEW Marks, Cells \subseteq Marks,
           \A r \in 1 .. Height, c \in 1 .. Width : p.rows[r][c] \in Marks
    PROVE  LET q == ClearBelowCursor(p, understood)
           IN  /\ q \in Screens /\ q.row = p.row /\ q.col <= 2 /\ BlankBelow(q)
               /\ \A r \in 1 .. Height : r < p.row => q.rows[r] = p.rows[r]
               /\ \A r \in 1 .. Height, c \in 1 .. Width : q.rows[r][c] \in Marks
               /\ understood => \A r \in p.row .. Height : q.rows[r] = BlankRow
<1>. DEFINE q == ClearBelowCursor(p, understood)
            rows == [r \in 1 .. Height |-> [c \in 1 .. Width |->
                        IF r < p.row \/ (r = p.row /\ c < p.col) THEN p.rows[r][c] ELSE Blank]]
<1>1. /\ p = [rows |-> p.rows, row |-> p.row, col |-> p.col]
      /\ p.rows \in [1 .. Height -> [1 .. Width -> Int]]
      /\ Width \in Nat /\ Width > 2 /\ Height \in Nat /\ Height > 1
      /\ p.row \in Nat /\ 1 <= p.row /\ p.row <= Height
  BY ScreenRecord
<1>2. CASE understood
  <2>1. q = [p EXCEPT !.rows = rows]
    BY <1>2 DEF ClearBelowCursor
  <2>2. ASSUME NEW old, NEW row, NEW col, NEW new
        PROVE  [[rows |-> old, row |-> row, col |-> col] EXCEPT !.rows = new]
                 = [rows |-> new, row |-> row, col |-> col]
    OBVIOUS
  <2>3. ASSUME NEW r \in 1 .. Height, r < p.row
        PROVE  rows[r] = p.rows[r]
    <3>1. rows[r] = [c \in 1 .. Width |-> p.rows[r][c]]
      BY <2>3
    <3>2. p.rows[r] \in [1 .. Width -> Int]
      BY <1>1
    <3>. QED
      BY <3>1, <3>2
  <2>4. ASSUME NEW r \in 1 .. Height, ~(r < p.row)
        PROVE  rows[r] = BlankRow
    <3>1. \A c \in 1 .. Width : ~(c < p.col)
      OBVIOUS
    <3>2. rows[r] = [c \in 1 .. Width |-> Blank]
      BY <2>4, <3>1
    <3>. QED
      BY <3>2 DEF BlankRow
  <2>. HIDE DEF rows
  <2>5. q = [rows |-> rows, row |-> p.row, col |-> p.col]
    BY <1>1, <2>1, <2>2, Zenon
  <2>. HIDE DEF q
  <2>6. q.rows = rows /\ q.row = p.row /\ q.col = 1
    BY <2>5
  <2>7. \A r \in 1 .. Height :
           rows[r] \in [1 .. Width -> Int] /\ \A c \in 1 .. Width : rows[r][c] \in Marks
    BY <1>1, <2>3, <2>4, EmptyRow
  <2>8. rows \in [1 .. Height -> [1 .. Width -> Int]]
    <3>1. rows = [r \in 1 .. Height |-> rows[r]]
      BY DEF rows
    <3>. QED
      BY <2>7, <3>1
  <2>9. q \in Screens
    BY <2>5, <2>8 DEF Screens
  <2>10. \A r \in p.row .. Height : r \in 1 .. Height /\ ~(r < p.row)
    BY <1>1
  <2>11. BlankBelow(q)
    <3>1. \A r \in 1 .. Height : p.row < r => ~(r < p.row)
      BY <1>1
    <3>. QED
      BY <2>4, <2>6, <3>1 DEF BlankBelow
  <2>12. \A r \in 1 .. Height, c \in 1 .. Width : q.rows[r][c] \in Marks
    BY <2>6, <2>7, Zenon
  <2>13. /\ \A r \in 1 .. Height : r < p.row => q.rows[r] = p.rows[r]
         /\ \A r \in p.row .. Height : q.rows[r] = BlankRow
    BY <2>3, <2>4, <2>6, <2>10, Zenon
  <2>14. q.row = p.row /\ q.col <= 2
    BY <2>6
  <2>. QED
    BY <2>9, <2>11, <2>12, <2>13, <2>14, Zenon DEF q
<1>3. CASE ~understood
  <2>1. q = Escape(p) /\ p.col < Width
    BY <1>1, <1>3 DEF ClearBelowCursor
  <2>. HIDE DEF q
  <2>2. /\ q \in Screens /\ q.row = p.row /\ q.col = p.col + 1 /\ BlankBelow(q)
        /\ \A r \in 1 .. Height : r # p.row => q.rows[r] = p.rows[r]
        /\ \A r \in 1 .. Height, c \in 1 .. Width :
              q.rows[r][c] = p.rows[r][c] \/ q.rows[r][c] = Garbage
    BY <1>3, <2>1, EscapeWrites
  <2>3. \A r \in 1 .. Height, c \in 1 .. Width : q.rows[r][c] \in Marks
    BY <2>2, MarksOfAScreen
  <2>4. q.col <= 2 /\ \A r \in 1 .. Height : r < p.row => r # p.row
    BY <1>1, <2>2
  <2>. QED
    BY <1>3, <2>2, <2>3, <2>4 DEF q
<1>. QED
  BY <1>2, <1>3
-----------------------------------------------------------------------------
(***************************************************************************)
(* What a frame, a repaint and --once leave in the window.                 *)
(***************************************************************************)
\* A report is never empty, and each of its lines has room in the window.
Fits(report) ==
    /\ Len(report) \in Nat \ {0}
    /\ \A k \in 1 .. Len(report) : Columns(report[k]) \in 0 .. Width - 2

Widths(report) == [k \in 1 .. Len(report) |-> Columns(report[k])]

\* Every report that is printed fits.
LEMMA ReportFits ==
    ASSUME NEW s \in Snapshots, NEW c \in Configs, NEW report \in Render(s, c)
    PROVE  Fits(report)
<1>1. IsSnapshot(s) /\ c.top_n \in 1 .. kMaxTopN /\ c.sort_key \in SortKeys
  BY SnapshotsAssumption DEF Configs
<1>2. Render(s, c) = Render(s, [top_n |-> c.top_n, sort_key |-> c.sort_key])
  BY DEF Render, RenderProcesses
<1>3. \A k \in 1 .. Len(report) : Columns(report[k]) \in 0 .. Width - 2
  BY <1>1, <1>2, ColumnsAssumption
<1>4. PICK block, start :
         /\ Parts(report, block, start, 6)
         /\ \A a \in 1 .. 6 : Block(block[a], SectionOrder[a], s[SectionOrder[a]])
  <2>1. c.top_n \in Nat
    BY <1>1 DEF kMaxTopN
  <2>. QED
    BY <1>1, <2>1, ReportParts, Zenon
<1>5. Len(report) \in Nat \ {0}
  <2>1. /\ Len(report) \in Nat /\ start[1] \in Nat /\ Len(block[1]) \in Nat \ {0}
        /\ start[1] + Len(block[1]) <= Len(report)
    BY <1>4 DEF Parts
  <2>. QED
    BY <2>1
<1>. QED
  BY <1>3, <1>5 DEF Fits

\* What printing a report leaves in the window.
LEMMA ReportPrinted ==
    ASSUME NEW s \in Screens, NEW report, Fits(report)
    PROVE  /\ PrintFrame(s, [k \in 1 .. Len(report) |-> Columns(report[k])])
                = Printed(s, Widths(report), Len(report))
           /\ \A j \in 1 .. Len(report) : Widths(report)[j] = Columns(report[j])
<1>1. Len(report) \in Nat
  BY DEF Fits
<1>2. Len(Widths(report)) = Len(report)
  BY <1>1 DEF Widths
<1>3. PrintFrame(s, Widths(report)) = Printed(s, Widths(report), Len(report))
  BY <1>1, <1>2, PrintFrameShows
<1>. QED
  BY <1>3 DEF Widths

\* What FrameReadable and OncePreservesShell say of a screen.
LineStands(row, j, width) ==
    \E c \in 0 .. Width - width : \A x \in 1 .. Width :
        row[x] = j <=> x \in c + 1 .. c + width

Readable(s, report, understood) ==
    LET n == Len(report)
        k == Lesser(n, Height - 1)
    IN  /\ s.row > k
        /\ understood /\ n < Height => s.row = n + 1
        /\ \A j \in n - k + 1 .. n :
              LineStands(s.rows[s.row - (n - j) - 1], j, Columns(report[j]))
        /\ understood => \A r \in s.row .. Height : s.rows[r] = BlankRow

\* FrameReadable is about the window, the frame and ansi.
LEMMA FrameReadableAsReadable ==
    FrameReadable <=> (phase = "painted" => Readable(screen, frame, ansi))
BY Zenon DEF FrameReadable, Readable, LineStands

\* A line of the report, on the row it is printed on.
LEMMA LineShows ==
    ASSUME NEW s \in Screens, s.col <= 3,
           \A r \in 1 .. Height, c \in 1 .. Width : s.rows[r][c] \in Cells,
           NEW report, Fits(report), NEW j \in 1 .. Len(report)
    PROVE  LineStands(LineRow(s, Widths(report), j), j, Columns(report[j]))
<1>. DEFINE col == IF j = 1 THEN s.col ELSE 1
            width == Columns(report[j])
            under == Original(s, s.row + j - 1)
            row == LineRow(s, Widths(report), j)
<1>1. /\ s.row \in Nat /\ 1 <= s.row /\ s.col \in Nat /\ 1 <= s.col
      /\ Width \in Nat /\ Width > 2 /\ Height \in Nat
  BY ScreenRecord
<1>2. width \in 0 .. Width - 2 /\ Len(report) \in Nat
  BY DEF Fits
<1>3. col \in Nat /\ 1 <= col /\ col <= 3
  BY <1>1
<1>4. \A x \in 1 .. Width : under[x] \in Cells
  <2>1. CASE s.row + j - 1 <= Height
    <3>1. s.row + j - 1 \in 1 .. Height
      BY <1>1, <2>1
    <3>. QED
      BY <2>1, <3>1 DEF Original
  <2>2. CASE ~(s.row + j - 1 <= Height)
    BY <2>2, EmptyRow DEF Original
  <2>. QED
    BY <2>1, <2>2
<1>5. \A x \in 1 .. Width : under[x] # j
  <2>1. j > 0 /\ j \in Int
    BY <1>2
  <2>. HIDE DEF under
  <2>2. \A cell \in Cells : cell # j
    BY <2>1, MarksOfAScreen
  <2>. QED
    BY <1>4, <2>2
<1>6. \A x \in 1 .. Width : row[x] = IF col <= x /\ x < col + width THEN j ELSE under[x]
  <2>1. Widths(report)[j] = width
    BY DEF Widths
  <2>. HIDE DEF under, width
  <2>. QED
    BY <2>1 DEF LineRow, under
<1>. HIDE DEF under, row, col, width
<1>7. \A x \in 1 .. Width : row[x] = j <=> col <= x /\ x < col + width
  BY <1>5, <1>6
<1>8. \A x \in 1 .. Width :
         (col <= x /\ x < col + width) <=> x \in (col - 1) + 1 .. (col - 1) + width
  BY <1>1, <1>2, <1>3
<1>9. width > 0 => col - 1 \in 0 .. Width - width
  BY <1>1, <1>2, <1>3
<1>10. CASE col - 1 \in 0 .. Width - width
  <2>1. \A x \in 1 .. Width : row[x] = j <=> x \in (col - 1) + 1 .. (col - 1) + width
    BY <1>7, <1>8
  <2>. QED
    BY <1>10, <2>1 DEF LineStands, row, width
<1>11. CASE ~(col - 1 \in 0 .. Width - width)
  BY <1>1, <1>2, <1>3, <1>11
<1>. QED
  BY <1>10, <1>11

\* A repaint from a homed window shows the frame, and what is left of earlier
\* ones below it is gone (main.cpp L119-L120).
LEMMA PaintShows ==
    ASSUME NEW s \in Screens, s.col <= 3, NEW understood \in BOOLEAN,
           IF understood THEN s.row = 1 ELSE BlankBelow(s),
           \A r \in 1 .. Height, c \in 1 .. Width : s.rows[r][c] \in Cells,
           NEW report, Fits(report)
    PROVE  LET q == ClearBelowCursor(
                        PrintFrame(s, [k \in 1 .. Len(report) |-> Columns(report[k])]),
                        understood)
           IN  /\ q \in Screens /\ q.col <= 2 /\ BlankBelow(q)
               /\ Readable(q, report, understood)
               /\ \A r \in 1 .. Height, c \in 1 .. Width :
                     q.rows[r][c] \in Cells \cup 1 .. Len(report)
<1>. DEFINE n == Len(report)
            p == Printed(s, Widths(report), n)
            q == ClearBelowCursor(p, understood)
            Marks == Cells \cup 1 .. n
<1>1. /\ n \in Nat \ {0} /\ Height \in Nat /\ Height > 1
      /\ s.row \in Nat /\ 1 <= s.row /\ s.row <= Height
  BY ScreenRecord DEF Fits
<1>2. PrintFrame(s, [k \in 1 .. Len(report) |-> Columns(report[k])]) = p
  BY ReportPrinted, Zenon
<1>3. /\ p \in Screens
      /\ \A r \in 1 .. Height, c \in 1 .. Width : p.rows[r][c] \in Marks
  BY <1>1, PrintedScreen
<1>4. p.col = 1 /\ p.row = s.row + n - Scrolled(s, n)
  BY <1>1 DEF Printed
<1>5. BlankBelow(s) => BlankBelow(p)
  BY <1>1, PrintedBelow
<1>. HIDE DEF p
<1>6. /\ q \in Screens /\ q.row = p.row /\ q.col <= 2 /\ BlankBelow(q)
      /\ \A r \in 1 .. Height : r < p.row => q.rows[r] = p.rows[r]
      /\ \A r \in 1 .. Height, c \in 1 .. Width : q.rows[r][c] \in Marks
      /\ understood => \A r \in p.row .. Height : q.rows[r] = BlankRow
  <2>1. ~understood => BlankBelow(p)
    BY <1>5
  <2>2. Cells \subseteq Marks
    OBVIOUS
  <2>. HIDE DEF Marks, q
  <2>. QED
    BY <1>3, <1>4, <2>1, <2>2, ClearShows DEF q
<1>. HIDE DEF q
<1>7. Readable(q, report, understood)
  <2>. DEFINE k == Lesser(n, Height - 1)
  <2>1. k \in Nat /\ k <= n /\ k <= Height - 1 /\ (k = n \/ k = Height - 1)
    BY <1>1 DEF Lesser
  <2>2. p.row \in Nat /\ p.row > k /\ p.row <= Height
        /\ (s.row = 1 /\ n < Height => p.row = n + 1)
    BY <1>1, <1>4, <2>1 DEF Scrolled
  <2>. HIDE DEF k
  <2>3. ASSUME NEW j \in n - k + 1 .. n
        PROVE  LineStands(q.rows[q.row - (n - j) - 1], j, Columns(report[j]))
    <3>. DEFINE r == p.row - (n - j) - 1
    <3>1. j \in 1 .. n /\ n - j < Height - 1 /\ r >= 1
      BY <1>1, <2>1, <2>2
    <3>2. r \in 1 .. p.row - 1 /\ p.rows[r] = LineRow(s, Widths(report), j)
      BY <1>1, <3>1, PrintedLine DEF p
    <3>. HIDE DEF r
    <3>3. r \in 1 .. Height /\ r < p.row
      BY <1>1, <2>2, <3>2
    <3>4. q.rows[r] = LineRow(s, Widths(report), j)
      BY <1>6, <3>2, <3>3
    <3>5. LineStands(LineRow(s, Widths(report), j), j, Columns(report[j]))
      BY <3>1, LineShows
    <3>. QED
      BY <1>6, <3>4, <3>5, Zenon DEF r
  <2>4. /\ q.row > k
        /\ understood /\ n < Height => q.row = n + 1
        /\ understood => \A r \in q.row .. Height : q.rows[r] = BlankRow
    BY <1>6, <2>2
  <2>. QED
    BY <2>3, <2>4, Zenon DEF Readable, k
<1>. QED
  BY <1>2, <1>6, <1>7, Zenon DEF q

\* What --once leaves.
Preserved(s, report) ==
    \A r \in 1 .. Height :
        /\ r < s.row - Len(report) => s.rows[r] = [c \in 1 .. Width |-> Shell]
        /\ r >= s.row - Len(report) => Shell \notin {s.rows[r][c] : c \in 1 .. Width}

\* --once prints below what the shell wrote (main.cpp L109-L112).
LEMMA OnceShows ==
    ASSUME NEW row \in 1 .. Height, NEW report, Fits(report)
    PROVE  LET p == PrintFrame(ShellScreen(row),
                               [k \in 1 .. Len(report) |-> Columns(report[k])])
           IN  /\ p \in Screens /\ Preserved(p, report)
               /\ \A r \in 1 .. Height, c \in 1 .. Width :
                     p.rows[r][c] \in Cells \cup 1 .. Len(report)
<1>. DEFINE s == ShellScreen(row)
            n == Len(report)
            w == Widths(report)
            p == Printed(s, w, n)
            down == Scrolled(s, n)
            shell == [c \in 1 .. Width |-> Shell]
<1>1. /\ s \in Screens /\ s.row = row
      /\ \A r \in 1 .. Height : s.rows[r] = IF r < row THEN shell ELSE BlankRow
      /\ \A r \in 1 .. Height, c \in 1 .. Width : s.rows[r][c] \in Cells
  BY ShellScreenTyped
<1>. HIDE DEF s, shell
<1>2. n \in Nat /\ Height \in Nat /\ Height > 1 /\ row \in Nat /\ 1 <= row /\ row <= Height
  BY WindowAssumption DEF Fits
<1>3. PrintFrame(s, [k \in 1 .. Len(report) |-> Columns(report[k])]) = p
  BY <1>1, ReportPrinted, Zenon
<1>4. /\ p \in Screens
      /\ \A r \in 1 .. Height, c \in 1 .. Width : p.rows[r][c] \in Cells \cup 1 .. n
  BY <1>1, <1>2, PrintedScreen
<1>5. /\ p.row = row + n - down
      /\ \A r \in 1 .. Height : p.rows[r] = RollRow(s, w, n, r + down)
  BY <1>1 DEF Printed
<1>6. down \in Nat
  BY <1>1, <1>2 DEF Scrolled
<1>. HIDE DEF p, down
<1>7. ASSUME NEW r \in 1 .. Height, r < p.row - n
      PROVE  p.rows[r] = shell
  <2>1. r + down < row /\ r + down \in 1 .. Height
    BY <1>2, <1>5, <1>6, <1>7
  <2>2. ~(s.row <= r + down) /\ r + down <= Height
    BY <1>1, <1>2, <2>1
  <2>3. RollRow(s, w, n, r + down) = s.rows[r + down]
    BY <2>2 DEF RollRow, Original
  <2>. QED
    BY <1>1, <1>5, <2>1, <2>3
<1>8. ASSUME NEW r \in 1 .. Height, r >= p.row - n
      PROVE  \A c \in 1 .. Width : p.rows[r][c] # Shell
  <2>1. row <= r + down /\ r + down \in Nat /\ 1 <= r + down
    BY <1>2, <1>5, <1>6, <1>8
  <2>2. ASSUME NEW m \in Nat, row <= m
        PROVE  Original(s, m) = BlankRow
    <3>1. m <= Height => m \in 1 .. Height /\ ~(m < row)
      BY <1>2, <2>2
    <3>. QED
      BY <1>1, <3>1 DEF Original
  <2>3. \A c \in 1 .. Width : BlankRow[c] # Shell
    BY EmptyRow, MarksOfAScreen
  <2>4. CASE r + down < row + n
    <3>. DEFINE j == (r + down) - row + 1
    <3>1. j \in Nat /\ 1 <= j /\ row + j - 1 = r + down
      BY <1>2, <1>6, <2>1
    <3>2. j # Shell
      BY <3>1 DEF Shell
    <3>3. RollRow(s, w, n, r + down) = LineRow(s, w, j)
      <4>1. s.row <= r + down /\ r + down < s.row + n /\ (r + down) - s.row + 1 = j
        BY <1>1, <2>1, <2>4
      <4>. HIDE DEF j
      <4>. QED
        BY <4>1, Zenon DEF RollRow
    <3>. HIDE DEF j
    <3>4. Original(s, s.row + j - 1) = BlankRow
      BY <1>1, <2>1, <2>2, <3>1
    <3>5. \A c \in 1 .. Width : LineRow(s, w, j)[c] = j \/ LineRow(s, w, j)[c] = BlankRow[c]
      BY <3>4 DEF LineRow
    <3>. QED
      BY <1>5, <2>3, <3>2, <3>3, <3>5
  <2>5. CASE ~(r + down < row + n)
    <3>1. RollRow(s, w, n, r + down) = Original(s, r + down)
      BY <1>1, <2>5 DEF RollRow
    <3>. QED
      BY <1>5, <2>1, <2>2, <2>3, <3>1
  <2>. QED
    BY <2>4, <2>5
<1>9. Preserved(p, report)
  BY <1>7, <1>8 DEF Preserved, shell
<1>. QED
  BY <1>3, <1>4, <1>9, Zenon DEF s, p, w
-----------------------------------------------------------------------------
(***************************************************************************)
(* The inductive invariant of what is shown: where the frame comes from    *)
(* and what is in the window, in each phase.                               *)
(***************************************************************************)
\* What PrintOnce and Paint have put into snapshot and frame.
ReportInv == Shown => snapshot \in Snapshots /\ frame \in Render(snapshot, config)

\* Where the window stands in each phase: as the shell left it until something
\* is printed; homed before a repaint, or, if escape sequences are not
\* understood, at most two of them into a row with nothing below it.
WindowInv ==
    /\ phase \in {"parsing", "exited", "once", "live", "polling", "painted", "bye"}
    /\ outcome = "parsing" => phase = "parsing"
    /\ phase \in {"parsing", "once", "live", "polling"} => frame = <<>>
    /\ ansi \in BOOLEAN
    /\ screen \in Screens /\ Len(frame) \in Nat
    /\ \A r \in 1 .. Height, c \in 1 .. Width : screen.rows[r][c] \in Cells \cup 1 .. Len(frame)
    /\ phase \in {"parsing", "once", "live"} =>
          screen \in {ShellScreen(row) : row \in 1 .. Height}
    /\ phase = "polling" =>
          IF ansi THEN screen.row = 1 /\ screen.col = 1
          ELSE screen.col <= 3 /\ BlankBelow(screen)
    /\ phase = "painted" => screen.col <= 2 /\ BlankBelow(screen)

WhatIsShown ==
    /\ phase = "painted" => Readable(screen, frame, ansi)
    /\ phase = "exited" /\ Shown => Preserved(screen, frame)
    /\ phase = "bye" =>
          BelowRow(screen, [c \in 1 .. Width |-> IF c <= GoodbyeWidth THEN Message ELSE Blank],
                   Cells \cup 1 .. Len(frame))

ShowInv == ParserInv /\ ReportInv /\ WindowInv /\ WhatIsShown

\* Without a frame there are no lines.
LEMMA NoFrame == Len(<<>>) = 0 /\ 1 .. Len(<<>>) = {}
OBVIOUS

\* When the program starts, the window is the shell's.
LEMMA ShowInit == ASSUME FrontInit PROVE ShowInv
<1>1. ParserInv
  BY ParserInitInv, LinesAssumption DEF FrontInit
<1>2. /\ phase = "parsing" /\ ansi = FALSE /\ frame = <<>>
      /\ outcome = "parsing"
  BY DEF FrontInit, ParserInit
<1>3. PICK row \in 1 .. Height : screen = ShellScreen(row)
  BY WindowUseAssumption DEF FrontInit
<1>4. /\ screen \in Screens
      /\ \A r \in 1 .. Height, c \in 1 .. Width : screen.rows[r][c] \in Cells
  BY <1>3, ShellScreenTyped
<1>5. ReportInv /\ WhatIsShown
  BY <1>2 DEF ReportInv, WhatIsShown, Shown
<1>6. WindowInv
  BY <1>2, <1>3, <1>4, NoFrame DEF WindowInv
<1>. QED
  BY <1>1, <1>5, <1>6 DEF ShowInv

\* Parsing shows nothing.
LEMMA ParseShows ==
    ASSUME ShowInv, Parse PROVE (ReportInv /\ WindowInv /\ WhatIsShown)'
<1>1. outcome = "parsing" /\ UNCHANGED <<phase, ansi, snapshot, frame, screen>>
  BY DEF Parse, showVars, ParserStep, Help, Once, MissingValue, Interval, Top, Sort,
         UnknownArgument, ArgsOver, HasValue, At
<1>2. phase = "parsing" /\ frame = <<>>
  BY <1>1 DEF ShowInv, WindowInv
<1>3. ReportInv' /\ WhatIsShown'
  BY <1>1, <1>2 DEF ReportInv, WhatIsShown, Shown
<1>4. WindowInv'
  BY <1>1, <1>2 DEF ShowInv, WindowInv
<1>. QED
  BY <1>3, <1>4

\* Nor does the decision what to do.
LEMMA StartShows ==
    ASSUME ShowInv, Start PROVE (ReportInv /\ WindowInv /\ WhatIsShown)'
<1>1. /\ phase = "parsing" /\ outcome # "parsing"
      /\ UNCHANGED <<config, outcome, snapshot, frame, screen>>
      /\ phase' \in {"exited", "once", "live"} /\ ansi' \in BOOLEAN
  BY DEF Start, EnableAnsiEscapeCodes, ShowInv, WindowInv
<1>2. frame = <<>>
  BY <1>1 DEF ShowInv, WindowInv
<1>3. ReportInv' /\ WhatIsShown'
  BY <1>1, <1>2 DEF ReportInv, WhatIsShown, Shown
<1>4. WindowInv'
  BY <1>1, <1>2 DEF ShowInv, WindowInv
<1>. QED
  BY <1>3, <1>4

\* --once shows its report below what is there.
LEMMA PrintOnceShows ==
    ASSUME ShowInv, PrintOnce PROVE (ReportInv /\ WindowInv /\ WhatIsShown)'
<1>1. /\ phase = "once" /\ phase' = "exited" /\ UNCHANGED <<outcome, config, ansi>>
      /\ snapshot' \in Snapshots /\ frame' \in Render(snapshot', config)
      /\ screen' = PrintFrame(screen, [k \in 1 .. Len(frame') |-> Columns(frame'[k])])
  BY DEF PrintOnce, Show, parserVars
<1>2. PICK row \in 1 .. Height : screen = ShellScreen(row)
  BY <1>1 DEF ShowInv, WindowInv
<1>3. Fits(frame')
  <2>1. config \in Configs
    BY DEF ShowInv, ParserInv
  <2>. QED
    BY <1>1, <2>1, ReportFits, Zenon
<1>4. /\ screen' \in Screens /\ Preserved(screen', frame')
      /\ \A r \in 1 .. Height, c \in 1 .. Width : screen'.rows[r][c] \in Cells \cup 1 .. Len(frame')
  BY <1>1, <1>2, <1>3, OnceShows, Zenon
<1>5. ReportInv' /\ WhatIsShown'
  BY <1>1, <1>4 DEF ReportInv, WhatIsShown
<1>6. WindowInv'
  <2>1. Len(frame') \in Nat /\ ansi' \in BOOLEAN /\ outcome' # "parsing"
    BY <1>1, <1>3 DEF Fits, ShowInv, WindowInv
  <2>. QED
    BY <1>1, <1>4, <2>1 DEF WindowInv
<1>. QED
  BY <1>5, <1>6

\* A round of the loop starts by homing the cursor.
LEMMA HomeStep ==
    ASSUME ShowInv, Home PROVE (ReportInv /\ WindowInv /\ WhatIsShown)'
<1>1. /\ phase \in {"live", "painted"} /\ phase' = "polling" /\ UNCHANGED <<outcome, ansi>>
      /\ frame' = <<>> /\ screen' = CursorHome(Aged(screen), ansi)
  BY DEF Home, parserVars
<1>2. /\ screen \in Screens /\ Len(frame) \in Nat /\ ansi \in BOOLEAN /\ outcome # "parsing"
      /\ \A r \in 1 .. Height, c \in 1 .. Width : screen.rows[r][c] \in Cells \cup 1 .. Len(frame)
  BY <1>1 DEF ShowInv, WindowInv
<1>3. screen.col <= 2 /\ BlankBelow(screen)
  <2>1. CASE phase = "live"
    <3>1. PICK row \in 1 .. Height : screen = ShellScreen(row)
      BY <2>1 DEF ShowInv, WindowInv
    <3>2. screen.col = 1 /\ BlankBelow(screen)
      BY <3>1, ShellScreenTyped
    <3>. QED
      BY <3>2
  <2>2. CASE phase = "painted"
    BY <2>2 DEF ShowInv, WindowInv
  <2>. QED
    BY <1>1, <2>1, <2>2
<1>4. /\ screen' \in Screens
      /\ \A r \in 1 .. Height, c \in 1 .. Width : screen'.rows[r][c] \in Cells
      /\ IF ansi THEN screen'.row = 1 /\ screen'.col = 1
         ELSE screen'.col <= 3 /\ BlankBelow(screen')
  BY <1>1, <1>2, <1>3, HomeShows
<1>5. ReportInv' /\ WhatIsShown'
  BY <1>1 DEF ReportInv, WhatIsShown, Shown
<1>6. WindowInv'
  BY <1>1, <1>2, <1>4, NoFrame DEF WindowInv
<1>. QED
  BY <1>5, <1>6

\* A repaint shows its report.
LEMMA PaintStep ==
    ASSUME ShowInv, Paint PROVE (ReportInv /\ WindowInv /\ WhatIsShown)'
<1>1. /\ phase = "polling" /\ phase' = "painted" /\ UNCHANGED <<outcome, config, ansi>>
      /\ snapshot' \in Snapshots /\ frame' \in Render(snapshot', config)
      /\ screen' = ClearBelowCursor(
                       PrintFrame(screen, [k \in 1 .. Len(frame') |-> Columns(frame'[k])]),
                       ansi)
  BY DEF Paint, parserVars
<1>2. /\ screen \in Screens /\ ansi \in BOOLEAN /\ outcome # "parsing" /\ frame = <<>>
      /\ \A r \in 1 .. Height, c \in 1 .. Width : screen.rows[r][c] \in Cells \cup 1 .. Len(frame)
      /\ IF ansi THEN screen.row = 1 /\ screen.col = 1
         ELSE screen.col <= 3 /\ BlankBelow(screen)
  BY <1>1 DEF ShowInv, WindowInv
<1>3. Fits(frame')
  <2>1. config \in Configs
    BY DEF ShowInv, ParserInv
  <2>. QED
    BY <1>1, <2>1, ReportFits, Zenon
<1>4. /\ \A r \in 1 .. Height, c \in 1 .. Width : screen.rows[r][c] \in Cells
      /\ screen.col <= 3
      /\ IF ansi THEN screen.row = 1 ELSE BlankBelow(screen)
  BY <1>2, NoFrame
<1>5. /\ screen' \in Screens /\ screen'.col <= 2 /\ BlankBelow(screen')
      /\ Readable(screen', frame', ansi)
      /\ \A r \in 1 .. Height, c \in 1 .. Width :
            screen'.rows[r][c] \in Cells \cup 1 .. Len(frame')
  BY <1>1, <1>2, <1>3, <1>4, PaintShows, Zenon
<1>6. ReportInv' /\ WhatIsShown'
  BY <1>1, <1>5 DEF ReportInv, WhatIsShown
<1>7. WindowInv'
  <2>1. Len(frame') \in Nat
    BY <1>3 DEF Fits
  <2>. QED
    BY <1>1, <1>2, <1>5, <2>1 DEF WindowInv
<1>. QED
  BY <1>6, <1>7

\* The last line goes below whatever is there, a frame or the shell's text.
LEMMA SayGoodbyeStep ==
    ASSUME ShowInv, SayGoodbye PROVE (ReportInv /\ WindowInv /\ WhatIsShown)'
<1>1. /\ phase \in {"live", "painted"} /\ phase' = "bye"
      /\ UNCHANGED <<outcome, config, ansi, snapshot, frame>>
      /\ screen' = Goodbye(screen, GoodbyeWidth)
  BY DEF SayGoodbye, parserVars
<1>2. /\ screen \in Screens /\ Len(frame) \in Nat /\ ansi \in BOOLEAN /\ outcome # "parsing"
      /\ \A r \in 1 .. Height, c \in 1 .. Width : screen.rows[r][c] \in Cells \cup 1 .. Len(frame)
  BY <1>1 DEF ShowInv, WindowInv
<1>3. BlankBelow(screen)
  <2>1. CASE phase = "live"
    <3>1. PICK row \in 1 .. Height : screen = ShellScreen(row)
      BY <2>1 DEF ShowInv, WindowInv
    <3>. QED
      BY <3>1, ShellScreenTyped
  <2>2. CASE phase = "painted"
    BY <2>2 DEF ShowInv, WindowInv
  <2>. QED
    BY <1>1, <2>1, <2>2
<1>. DEFINE text == [c \in 1 .. Width |-> IF c <= GoodbyeWidth THEN Message ELSE Blank]
            Marks == Cells \cup 1 .. Len(frame)
<1>4. BelowRow(screen', text, Marks)
  <2>1. Blank \in Marks /\ Message \in Marks
    BY MarksOfAScreen
  <2>2. GoodbyeWidth \in 0 .. Width
    BY WindowUseAssumption
  <2>. QED
    BY <1>1, <1>2, <1>3, <2>1, <2>2, GoodbyeShows, Zenon
<1>5. ReportInv'
  BY <1>1 DEF ShowInv, ReportInv, Shown
<1>6. WhatIsShown'
  BY <1>1, <1>4 DEF WhatIsShown
<1>7. WindowInv'
  <2>1. /\ screen' \in Screens
        /\ \A r \in 1 .. Height, c \in 1 .. Width : screen'.rows[r][c] \in Marks
    BY <1>4 DEF BelowRow
  <2>. QED
    BY <1>1, <1>2, <2>1 DEF WindowInv
<1>. QED
  BY <1>5, <1>6, <1>7

\* Hence the invariant, in every reachable state.
LEMMA ShowInductive == FrontSpec => []ShowInv
<1>1. ASSUME ShowInv, [FrontNext]_frontVars
      PROVE  ShowInv'
  <2>1. ParserInv'
    BY <1>1, FrontStepInv DEF ShowInv
  <2>2. CASE UNCHANGED frontVars
    BY <1>1, <2>1, <2>2 DEF ShowInv, ReportInv, WindowInv, WhatIsShown, Shown, frontVars,
                            showVars, parserVars
  <2>. QED
    BY <1>1, <2>1, <2>2, ParseShows, StartShows, PrintOnceShows, HomeStep, PaintStep,
       SayGoodbyeStep DEF FrontNext, Over, ShowInv
<1>. QED
  BY <1>1, ShowInit, PTL DEF FrontSpec
-----------------------------------------------------------------------------
\* Every variable keeps its type: parse_args never looks past the arguments nor
\* reports one that is not there (parser.cpp L37-L99), and a cell of the window is
\* a mark or a line of the frame there is (main.cpp L90-L127).
THEOREM FrontTyped == FrontSpec => []FrontTypeOK
<1>1. ShowInv => FrontTypeOK
  <2>. SUFFICES ASSUME ShowInv PROVE FrontTypeOK
    OBVIOUS
  <2>1. /\ ParserTypeOK /\ ansi \in BOOLEAN /\ screen \in Screens
        /\ phase \in {"parsing", "exited", "once", "live", "polling", "painted", "bye"}
        /\ \A r \in 1 .. Height, c \in 1 .. Width : screen.rows[r][c] \in Cells \cup 1 .. Len(frame)
    BY DEF ShowInv, ParserInv, WindowInv
  <2>2. screen.rows \in [1 .. Height -> [1 .. Width -> Int]]
        /\ screen.row \in 1 .. Height /\ screen.col \in 1 .. Width
    BY <2>1 DEF Screens
  <2>. DEFINE Marks == Cells \cup 1 .. Len(frame)
  <2>3. \A r \in 1 .. Height : screen.rows[r] \in [1 .. Width -> Marks]
    <3>1. ASSUME NEW r \in 1 .. Height
          PROVE  /\ screen.rows[r] \in [1 .. Width -> Int]
                 /\ \A c \in 1 .. Width : screen.rows[r][c] \in Marks
      BY <2>1, <2>2
    <3>. HIDE DEF Marks
    <3>. QED
      BY <3>1
  <2>. HIDE DEF Marks
  <2>4. screen.rows \in [1 .. Height -> [1 .. Width -> Marks]]
    BY <2>2, <2>3
  <2>. QED
    BY <2>1, <2>2, <2>4 DEF FrontTypeOK, Marks
<1>. QED
  BY <1>1, ShowInductive, PTL

\* After a repaint the whole frame can be read, or its last lines in a window that
\* is too low, whatever was there before and whether or not the console
\* understands escape sequences (main.cpp L58-L61, L74-L77, L116-L122).
THEOREM EveryFrameReadable == FrontSpec => []FrameReadable
<1>1. ShowInv => FrameReadable
  BY FrameReadableAsReadable DEF ShowInv, WhatIsShown
<1>. QED
  BY <1>1, ShowInductive, PTL

\* --once writes over nothing: above the report stands what the shell wrote, and
\* the report is below it, for any report and wherever the cursor was
\* (main.cpp L109-L112).
THEOREM ShellPreserved == FrontSpec => []OncePreservesShell
<1>1. ShowInv => OncePreservesShell
  BY DEF ShowInv, WhatIsShown, OncePreservesShell, Preserved
<1>. QED
  BY <1>1, ShowInductive, PTL

\* "Shutting down." stands on a row of its own with nothing below it, after any
\* number of repaints, with and without escape sequences, and also when no frame
\* was shown (main.cpp L116-L126).
THEOREM EveryGoodbyeReadable == FrontSpec => []GoodbyeReadable
<1>1. ShowInv => GoodbyeReadable
  BY DEF ShowInv, WhatIsShown, GoodbyeReadable, BelowRow
<1>. QED
  BY <1>1, ShowInductive, PTL

\* A size is printed right (format.cpp L9-L26), over the sizes a run looks at;
\* EverySizeRight is about all.
THEOREM EveryBytesFaithful == FrontSpec => []BytesFaithful
<1>1. BytesFaithful
  BY EverySizeRight, NumbersAssumption DEF BytesFaithful
<1>. QED
  BY <1>1, PTL

\* A duration can be read back (format.cpp L34-L56), over the durations a run
\* looks at; EveryDurationRight is about all.
THEOREM EveryDurationFaithful == FrontSpec => []DurationFaithful
<1>1. DurationFaithful
  BY EveryDurationRight, NumbersAssumption DEF DurationFaithful
<1>. QED
  BY <1>1, PTL
-----------------------------------------------------------------------------
(***************************************************************************)
(* What the frame that is shown says of the snapshot it was made of.       *)
(***************************************************************************)
\* The frame that is shown, taken apart.
LEMMA FrameParts ==
    ASSUME ShowInv, Shown
    PROVE  \E block, start :
             /\ Apart(frame, snapshot, block, start)
             /\ block[3] = RenderMemory(snapshot.memory) /\ block[4] = RenderDisks(snapshot.disks)
             /\ block[5] = RenderNetwork(snapshot.network)
             /\ block[6] \in RenderProcesses(snapshot.processes, config)
<1>1. snapshot \in Snapshots /\ frame \in Render(snapshot, config) /\ config \in Configs
  BY DEF ShowInv, ReportInv, ParserInv
<1>2. IsSnapshot(snapshot) /\ config.top_n \in Nat
  BY <1>1, SnapshotsAssumption DEF Configs, kMaxTopN
<1>. QED
  BY <1>1, <1>2, ReportParts DEF Apart

\* The sections, by their places.
LEMMA SectionNames ==
    /\ SectionOrder[1] = "system" /\ SectionOrder[2] = "cpu" /\ SectionOrder[3] = "memory"
    /\ SectionOrder[4] = "disks" /\ SectionOrder[5] = "network" /\ SectionOrder[6] = "processes"
BY DEF SectionOrder

\* The lines of a kind in a section are those of its block.
LEMMA KindsOfSection ==
    ASSUME NEW s, NEW block, NEW start, Apart(frame, s, block, start),
           NEW a \in 1 .. 6, NEW kind
    PROVE  InFrame(SectionOrder[a], kind) # {} <=> HasKind(block[a], kind)
<1>1. ASSUME NEW k \in InFrame(SectionOrder[a], kind)
      PROVE  \E j \in 1 .. Len(block[a]) : block[a][j].kind = kind
  <2>1. k \in 1 .. Len(frame) /\ frame[k].section = SectionOrder[a] /\ frame[k].kind = kind
    BY DEF InFrame
  <2>2. PICK j \in 1 .. Len(block[a]) : frame[k] = block[a][j]
    <3>1. InSection(frame, k, a)
      BY <2>1 DEF InSection
    <3>2. IsLine(frame, k, block[a], k - start[a])
      BY <3>1, LineOfSection, Zenon
    <3>. QED
      BY <3>2 DEF IsLine
  <2>. QED
    BY <2>1, <2>2
<1>2. ASSUME NEW j \in 1 .. Len(block[a]), block[a][j].kind = kind
      PROVE  InFrame(SectionOrder[a], kind) # {}
  <2>1. /\ start[a] \in Nat /\ Len(block[a]) \in Nat /\ Len(frame) \in Nat
        /\ start[a] + Len(block[a]) <= Len(frame)
        /\ frame[start[a] + j] = block[a][j]
    BY DEF Apart, Parts
  <2>2. start[a] + j \in 1 .. Len(frame)
    BY <2>1
  <2>3. block[a][j].section = SectionOrder[a]
    BY DEF Apart, Block
  <2>4. start[a] + j \in InFrame(SectionOrder[a], kind)
    BY <1>2, <2>1, <2>2, <2>3 DEF InFrame
  <2>. QED
    BY <2>4
<1>. QED
  BY <1>1, <1>2 DEF HasKind

\* Each section is in the report, in its place, and tells a failed sample from an
\* empty list, whatever becomes of the other sections (result.hpp L8-L11,
\* renderer.cpp L145-L154): for any snapshot and any number of rows.
THEOREM EverySectionIsShown == FrontSpec => []EverySectionShown
<1>. SUFFICES ASSUME ShowInv, Shown PROVE
        /\ \A k \in 1 .. Len(frame) : \E a \in 1 .. 6 : frame[k].section = SectionOrder[a]
        /\ \A a, b \in 1 .. 6 : b < a =>
              \A j, k \in 1 .. Len(frame) :
                  frame[j].section = SectionOrder[a] /\ frame[k].section = SectionOrder[b]
                    => k < j
        /\ \A a \in 1 .. 6 :
              LET section == SectionOrder[a]
              IN  /\ \E k \in 1 .. Len(frame) : frame[k].section = section
                  /\ InFrame(section, "unavailable") # {} <=> ~snapshot[section].ok
                  /\ InFrame(section, "row") # {} => snapshot[section].ok
        /\ \A section \in {"disks", "network"} :
              InFrame(section, "none") # {}
                <=> snapshot[section].ok /\ snapshot[section].value = <<>>
  <2>1. ShowInv => EverySectionShown
    BY DEF EverySectionShown
  <2>. QED
    BY <2>1, ShowInductive, PTL
<1>1. PICK block, start :
           /\ Apart(frame, snapshot, block, start)
           /\ block[3] = RenderMemory(snapshot.memory) /\ block[4] = RenderDisks(snapshot.disks)
           /\ block[5] = RenderNetwork(snapshot.network)
  BY FrameParts, Zenon
<1>2. ASSUME NEW k \in 1 .. Len(frame)
      PROVE  \E a \in 1 .. 6 : frame[k].section = SectionOrder[a]
  <2>1. PICK a \in 1 .. 6 : start[a] < k /\ k <= start[a] + Len(block[a])
    BY <1>1 DEF Apart, Parts
  <2>2. start[a] \in Nat /\ Len(block[a]) \in Nat /\ Len(frame) \in Nat
        /\ \A j \in 1 .. Len(block[a]) : frame[start[a] + j] = block[a][j]
    BY <1>1 DEF Apart, Parts
  <2>3. k - start[a] \in 1 .. Len(block[a]) /\ k = start[a] + (k - start[a])
    BY <2>1, <2>2
  <2>4. frame[k] = block[a][k - start[a]]
    BY <2>2, <2>3
  <2>5. block[a][k - start[a]].section = SectionOrder[a]
    BY <1>1, <2>3 DEF Apart, Block
  <2>. QED
    BY <2>4, <2>5
<1>3. ASSUME NEW a \in 1 .. 6, NEW b \in 1 .. 6, b < a,
             NEW j \in 1 .. Len(frame), NEW k \in 1 .. Len(frame),
             frame[j].section = SectionOrder[a], frame[k].section = SectionOrder[b]
      PROVE  k < j
  <2>1. InSection(frame, j, a) /\ InSection(frame, k, b)
    BY <1>3 DEF InSection
  <2>2. IsLine(frame, j, block[a], j - start[a]) /\ IsLine(frame, k, block[b], k - start[b])
    BY <1>1, <2>1, LineOfSection, Zenon
  <2>4. j - start[a] \in 1 .. Len(block[a]) /\ k - start[b] \in 1 .. Len(block[b])
    BY <2>2 DEF IsLine
  <2>3. /\ start[a] \in Nat /\ start[b] \in Nat /\ Len(block[a]) \in Nat /\ Len(block[b]) \in Nat
        /\ start[b] + Len(block[b]) <= start[a]
    BY <1>1, <1>3 DEF Apart, Parts
  <2>. QED
    BY <2>3, <2>4
<1>4. ASSUME NEW a \in 1 .. 6
      PROVE  LET section == SectionOrder[a]
             IN  /\ \E k \in 1 .. Len(frame) : frame[k].section = section
                 /\ InFrame(section, "unavailable") # {} <=> ~snapshot[section].ok
                 /\ InFrame(section, "row") # {} => snapshot[section].ok
  <2>. DEFINE section == SectionOrder[a]
              lines == block[a]
  <2>1. \A kind : InFrame(section, kind) # {} <=> HasKind(lines, kind)
    BY <1>1, KindsOfSection, Zenon
  <2>2. Block(lines, section, snapshot[section])
    BY <1>1 DEF Apart
  <2>. HIDE DEF lines, section
  <2>3. Len(lines) \in 1 .. Len(lines)
    BY <2>2 DEF Apart, Block
  <2>4. InFrame(section, "unavailable") # {} <=> ~snapshot[section].ok
    BY <2>1, <2>2, <2>3 DEF HasKind, Block
  <2>5. InFrame(section, "row") # {} => snapshot[section].ok
    BY <2>1, <2>2 DEF HasKind, Block
  <2>6. \E k \in 1 .. Len(frame) : frame[k].section = section
    <3>. DEFINE kind == lines[Len(lines)].kind
    <3>1. InFrame(section, kind) # {}
      BY <2>1, <2>3 DEF HasKind
    <3>. QED
      BY <3>1 DEF InFrame
  <2>. QED
    BY <2>4, <2>5, <2>6 DEF section
<1>5. ASSUME NEW section \in {"disks", "network"}
      PROVE  InFrame(section, "none") # {}
               <=> snapshot[section].ok /\ snapshot[section].value = <<>>
  <2>1. IsSnapshot(snapshot)
    BY SnapshotsAssumption DEF ShowInv, ReportInv
  <2>2. CASE section = "disks"
    <3>. DEFINE disks == snapshot.disks
    <3>1. /\ disks.ok \in BOOLEAN
          /\ disks.ok => disks.value \in Seq([total : Nat, free : Nat])
      BY <2>1 DEF IsSnapshot
    <3>2. InFrame("disks", "none") # {}
            <=> HasKind(RenderDisks(disks), "none")
      <4>1. 4 \in 1 .. 6
        OBVIOUS
      <4>2. InFrame(SectionOrder[4], "none") # {} <=> HasKind(block[4], "none")
        BY <1>1, <4>1, KindsOfSection, Zenon
      <4>. QED
        BY <1>1, <4>2, SectionNames
    <3>. HIDE DEF disks
    <3>3. HasKind(RenderDisks(disks), "none")
            <=> disks.ok /\ disks.value = <<>>
      BY <3>1, DisksBlock DEF HasKind
    <3>. QED
      BY <2>2, <3>2, <3>3 DEF disks
  <2>3. CASE section = "network"
    <3>. DEFINE network == snapshot.network
    <3>1. /\ network.ok \in BOOLEAN
          /\ network.ok => network.value \in Seq([down : Nat, up : Nat])
      BY <2>1 DEF IsSnapshot
    <3>2. InFrame("network", "none") # {}
            <=> HasKind(RenderNetwork(network), "none")
      <4>1. 5 \in 1 .. 6
        OBVIOUS
      <4>2. InFrame(SectionOrder[5], "none") # {} <=> HasKind(block[5], "none")
        BY <1>1, <4>1, KindsOfSection, Zenon
      <4>. QED
        BY <1>1, <4>2, SectionNames
    <3>. HIDE DEF network
    <3>3. HasKind(RenderNetwork(network), "none")
            <=> network.ok /\ network.value = <<>>
      BY <3>1, NetworkBlock DEF HasKind
    <3>. QED
      BY <2>3, <3>2, <3>3 DEF network
  <2>. QED
    BY <2>2, <2>3
<1>. QED
  BY <1>2, <1>3, <1>4, <1>5

\* What a memory or disk row prints as used is within what it prints as the
\* total, with a percentage that fits them, for any two numbers the system hands
\* out (renderer.cpp L34-L47, L60-L64).
THEOREM EveryUsageMakesSense == FrontSpec => []UsageMakesSense
<1>1. ASSUME ShowInv, Shown,
             NEW section \in {"memory", "disks"}, NEW k \in InFrame(section, "row")
      PROVE  SensibleLine(frame[k].show)
  <2>1. PICK block, start :
             /\ Apart(frame, snapshot, block, start)
             /\ block[3] = RenderMemory(snapshot.memory) /\ block[4] = RenderDisks(snapshot.disks)
    BY <1>1, FrameParts, Zenon
  <2>2. k \in 1 .. Len(frame) /\ frame[k].section = section /\ frame[k].kind = "row"
    BY DEF InFrame
  <2>3. IsSnapshot(snapshot)
    BY <1>1, SnapshotsAssumption DEF ShowInv, ReportInv
  <2>4. CASE section = "memory"
    <3>1. PICK j \in 1 .. Len(block[3]) : frame[k] = block[3][j]
      <4>1. InSection(frame, k, 3)
        BY <2>2, <2>4, SectionNames DEF InSection
      <4>2. IsLine(frame, k, block[3], k - start[3])
        BY <2>1, <4>1, LineOfSection, Zenon
      <4>. QED
        BY <4>2 DEF IsLine
    <3>2. snapshot.memory.ok
      <4>1. Block(block[3], "memory", snapshot.memory)
        BY <2>1, SectionNames DEF Apart
      <4>. QED
        BY <2>2, <3>1, <4>1 DEF Block
    <3>3. frame[k].show = Usage(snapshot.memory.value.total, snapshot.memory.value.available)
      <4>1. snapshot.memory.ok \in BOOLEAN
        BY <2>3 DEF IsSnapshot
      <4>. QED
        BY <2>1, <2>2, <3>1, <4>1, MemoryBlock
    <3>4. snapshot.memory.value.total \in Nat /\ snapshot.memory.value.available \in Nat
      BY <2>3, <3>2 DEF IsSnapshot
    <3>. QED
      BY <3>3, <3>4, UsageSensible
  <2>5. CASE section = "disks"
    <3>1. PICK j \in 1 .. Len(block[4]) : frame[k] = block[4][j]
      <4>1. InSection(frame, k, 4)
        BY <2>2, <2>5, SectionNames DEF InSection
      <4>2. IsLine(frame, k, block[4], k - start[4])
        BY <2>1, <4>1, LineOfSection, Zenon
      <4>. QED
        BY <4>2 DEF IsLine
    <3>. DEFINE disks == snapshot.disks
    <3>2. disks.ok
      <4>1. Block(block[4], "disks", disks)
        BY <2>1, SectionNames DEF Apart
      <4>. QED
        BY <2>2, <3>1, <4>1 DEF Block
    <3>3. /\ disks.ok \in BOOLEAN
          /\ disks.ok => disks.value \in Seq([total : Nat, free : Nat])
      BY <2>3 DEF IsSnapshot
    <3>. HIDE DEF disks
    <3>4. PICK d \in 1 .. Len(disks.value) :
              RenderDisks(disks)[j].show = Usage(disks.value[d].total, disks.value[d].free)
      <4>1. RenderDisks(disks) = block[4]
        BY <2>1 DEF disks
      <4>2. \A m \in 1 .. Len(RenderDisks(disks)) : RenderDisks(disks)[m].kind = "row" =>
                \E d \in 1 .. Len(disks.value) :
                   RenderDisks(disks)[m].show = Usage(disks.value[d].total, disks.value[d].free)
        BY <3>3, DisksBlock
      <4>. QED
        BY <2>2, <3>1, <4>1, <4>2
    <3>5. frame[k].show = Usage(disks.value[d].total, disks.value[d].free)
      BY <2>1, <3>1, <3>4 DEF disks
    <3>6. disks.value[d].total \in Nat /\ disks.value[d].free \in Nat
      <4>1. disks.value[d] \in [total : Nat, free : Nat]
        <5>1. ASSUME NEW S, NEW v \in Seq(S), NEW e \in 1 .. Len(v)
              PROVE  v[e] \in S
          OBVIOUS
        <5>. QED
          BY <3>2, <3>3, <5>1, Zenon
      <4>. QED
        BY <4>1
    <3>. QED
      BY <3>5, <3>6, UsageSensible
  <2>. QED
    BY <2>4, <2>5
<1>2. ShowInv => UsageMakesSense
  BY <1>1, Zenon DEF UsageMakesSense, SensibleLine, Sensible
<1>. QED
  BY <1>2, ShowInductive, PTL

\* The rows that are shown stand one after another, in an order of all processes.
LEMMA RowsOfFrame ==
    ASSUME ShowInv, Shown, snapshot.processes.ok
    PROVE  LET all   == snapshot.processes.value
               shown == Lesser(config.top_n, Cardinality(all))
           IN  \E order \in Orders(all, config.sort_key), first \in Nat :
                  /\ InFrame("processes", "row") = first + 1 .. first + shown
                  /\ \A k \in 1 .. shown : frame[first + k].show = ProcessRow(order[k])
                  /\ \E k \in InFrame("processes", "header") :
                        frame[k].show.total = Cardinality(all)
<1>. DEFINE result == snapshot.processes
            all    == result.value
            shown  == Lesser(config.top_n, Cardinality(all))
            rows   == InFrame("processes", "row")
<1>1. PICK block, start :
           Apart(frame, snapshot, block, start)
           /\ block[6] \in RenderProcesses(snapshot.processes, config)
  BY FrameParts, Zenon
<1>. DEFINE lines == block[6]
            z     == start[6]
            first == z + 1
<1>2. IsSnapshot(snapshot) /\ config \in Configs
  BY SnapshotsAssumption DEF ShowInv, ReportInv, ParserInv
<1>3. result.ok \in BOOLEAN /\ IsFiniteSet(all) /\ Cardinality(all) \in Nat
  <2>1. result.ok \in BOOLEAN /\ IsFiniteSet(all)
    BY <1>2 DEF IsSnapshot
  <2>. QED
    BY <2>1, FS_CardinalityType
<1>4. shown \in Nat
  BY <1>2, <1>3 DEF Lesser, Configs, kMaxTopN
<1>5. /\ Len(lines) = 1 + shown /\ lines[1].kind = "header"
      /\ lines[1].show.total = Cardinality(all)
      /\ \E order \in Orders(all, config.sort_key) :
            \A k \in 1 .. shown : /\ lines[1 + k].kind = "row"
                                  /\ lines[1 + k].show = ProcessRow(order[k])
  <2>. HIDE DEF result, lines
  <2>1. result.ok
    BY DEF result
  <2>2. lines \in RenderProcesses(result, config) /\ (result.ok => shown \in Nat)
    BY <1>1, <1>4 DEF result, lines
  <2>3. Listed(lines, result, config)
    BY <1>3, <2>2, ProcessesBlock
  <2>. QED
    BY <2>1, <2>3, Zenon DEF Listed
<1>6. PICK order \in Orders(all, config.sort_key) :
            \A k \in 1 .. shown : /\ lines[1 + k].kind = "row"
                                  /\ lines[1 + k].show = ProcessRow(order[k])
  BY <1>5
<1>A. z \in Nat /\ Len(frame) \in Nat /\ z + Len(lines) <= Len(frame)
  BY <1>1 DEF Apart, Parts
<1>B. \A k \in 1 .. Len(lines) : frame[z + k] = lines[k]
  BY <1>1 DEF Apart, Parts
<1>7. \A k \in 1 .. Len(lines) : frame[z + k] = lines[k] /\ lines[k].section = "processes"
  <2>1. Block(lines, "processes", result)
    BY <1>1, SectionNames DEF Apart
  <2>. QED
    BY <1>B, <2>1 DEF Block
<1>. HIDE DEF lines, shown, all, result, z
<1>8. 1 \in 1 .. Len(lines) /\ \A k \in 1 .. shown : 1 + k \in 1 .. Len(lines)
  BY <1>4, <1>5
<1>9. \A k \in 1 .. shown : /\ frame[first + k] = lines[1 + k]
                            /\ first + k \in 1 .. Len(frame)
  <2>. SUFFICES ASSUME NEW k \in 1 .. shown
                PROVE  frame[first + k] = lines[1 + k] /\ first + k \in 1 .. Len(frame)
    OBVIOUS
  <2>1. first + k = z + (1 + k) /\ first + k \in 1 .. Len(frame)
    BY <1>4, <1>5, <1>A
  <2>. QED
    BY <1>7, <1>8, <2>1
<1>10. \A k \in 1 .. shown : frame[first + k].show = ProcessRow(order[k])
  BY <1>6, <1>9
<1>11. \E k \in InFrame("processes", "header") : frame[k].show.total = Cardinality(all)
  <2>1. frame[first] = lines[1] /\ first \in 1 .. Len(frame)
    BY <1>4, <1>5, <1>7, <1>8, <1>A
  <2>2. lines[1].section = "processes"
    BY <1>7, <1>8
  <2>3. first \in InFrame("processes", "header")
    BY <1>5, <2>1, <2>2 DEF InFrame
  <2>. QED
    BY <1>5, <2>1, <2>3
<1>12. rows = first + 1 .. first + shown
  <2>1. ASSUME NEW k \in rows
        PROVE  k \in first + 1 .. first + shown
    <3>1. k \in 1 .. Len(frame) /\ frame[k].section = "processes" /\ frame[k].kind = "row"
      BY DEF InFrame
    <3>2. InSection(frame, k, 6)
      BY <3>1, SectionNames DEF InSection
    <3>3. IsLine(frame, k, lines, k - z)
      BY <1>1, <3>2, LineOfSection, Zenon DEF lines, z
    <3>4. k - z \in 1 .. 1 + shown /\ frame[k] = lines[k - z]
      BY <1>5, <3>3 DEF IsLine
    <3>5. k - z # 1
      BY <1>5, <3>1, <3>4
    <3>. QED
      BY <1>4, <1>A, <3>1, <3>4, <3>5
  <2>2. ASSUME NEW k \in first + 1 .. first + shown
        PROVE  k \in rows
    <3>1. k - first \in 1 .. shown /\ first + (k - first) = k
      BY <1>4, <1>A
    <3>2. frame[k] = lines[1 + (k - first)] /\ k \in 1 .. Len(frame)
      BY <1>9, <3>1
    <3>3. lines[1 + (k - first)].kind = "row" /\ lines[1 + (k - first)].section = "processes"
      BY <1>6, <1>7, <1>8, <3>1
    <3>. QED
      BY <3>2, <3>3 DEF InFrame
  <2>. QED
    BY <2>1, <2>2
<1>13. first \in Nat
  BY <1>A
<1>. QED
  BY <1>10, <1>11, <1>12, <1>13 DEF all, shown, result

\* What TopRows says, of any rows.
TopOf(all, rows, top, key) ==
    LET out == {p \in all : \A k \in rows : frame[k].show.pid # p.pid}
        Column(k) == IF key = "cpu" THEN frame[k].show.cpu
                     ELSE Read(frame[k].show.memory)
    IN  /\ \A k \in rows : \E p \in all : frame[k].show = ProcessRow(p)
        /\ \A j, k \in rows : frame[j].show.pid = frame[k].show.pid => j = k
        /\ Cardinality(rows) = Lesser(top, Cardinality(all))
        /\ \A p \in all \ out, q \in out : ~Above(q, p, key)
        /\ \A j, k \in rows : j < k => Column(j) >= Column(k)

\* The first rows of an order that Orders allows are the top ones, each process
\* once, and in the order of the column as it is printed, rounded.
LEMMA TopShown ==
    ASSUME NEW all, IsFiniteSet(all),
           \A p \in all : IsRatio(p.cpu) /\ AtLeast(p.cpu, 0) /\ p.memory \in Nat,
           \A p, q \in all : p.pid = q.pid => p = q,
           NEW key \in SortKeys, NEW top \in Nat, NEW order \in Orders(all, key),
           NEW first \in Nat, NEW rows,
           rows = first + 1 .. first + Lesser(top, Cardinality(all)),
           \A k \in 1 .. Lesser(top, Cardinality(all)) :
               frame[first + k].show = ProcessRow(order[k])
    PROVE  TopOf(all, rows, top, key)
<1>. DEFINE n == Cardinality(all)
            shown == Lesser(top, n)
            out == {p \in all : \A k \in rows : frame[k].show.pid # p.pid}
<1>1. /\ n \in Nat /\ order \in [1 .. n -> all]
      /\ \A j, k \in 1 .. n : order[j] = order[k] => j = k
      /\ \A j, k \in 1 .. n : j < k => ~Above(order[k], order[j], key)
      /\ \A p \in all : \E k \in 1 .. n : order[k] = p
  BY OrderOfAll
<1>. HIDE DEF n
<1>2. shown \in Nat /\ shown <= n
  BY <1>1 DEF Lesser
<1>0. rows = first + 1 .. first + shown
  BY DEF n
<1>3. \A k \in 1 .. shown : frame[first + k].show = ProcessRow(order[k])
  BY DEF n
<1>. HIDE DEF shown
<1>4. \A k \in rows : k - first \in 1 .. shown /\ k - first \in 1 .. n /\ k \in Int
                      /\ first + (k - first) = k
  <2>1. \A k \in first + 1 .. first + shown :
            /\ k - first \in 1 .. shown /\ k - first \in 1 .. n /\ k \in Int
            /\ first + (k - first) = k
    BY <1>1, <1>2
  <2>. QED
    BY <1>0, <2>1
<1>5. \A k \in rows : frame[k].show = ProcessRow(order[k - first])
  BY <1>3, <1>4
<1>6. \A k \in rows : order[k - first] \in all
  BY <1>1, <1>4
<1>7. \A k \in rows : frame[k].show.pid = order[k - first].pid
  <2>1. \A p : ProcessRow(p).pid = p.pid
    BY DEF ProcessRow
  <2>. QED
    BY <1>5, <2>1
<1>8. \A k \in rows : \E p \in all : frame[k].show = ProcessRow(p)
  BY <1>5, <1>6
<1>9. ASSUME NEW j \in rows, NEW k \in rows, frame[j].show.pid = frame[k].show.pid
      PROVE  j = k
  <2>1. order[j - first] = order[k - first]
    BY <1>6, <1>7, <1>9
  <2>2. j - first = k - first
    BY <1>1, <1>4, <2>1
  <2>. QED
    BY <1>4, <2>2
<1>10. Cardinality(rows) = shown
  <2>1. first + 1 \in Int /\ first + shown \in Int
    BY <1>2
  <2>2. Cardinality(rows) = IF first + 1 > first + shown THEN 0
                            ELSE (first + shown) - (first + 1) + 1
    BY <1>0, <2>1, FS_Interval
  <2>. QED
    BY <1>2, <2>2
<1>11. ASSUME NEW p \in all \ out, NEW q \in out
       PROVE  ~Above(q, p, key)
  <2>1. PICK k \in rows : frame[k].show.pid = p.pid
    OBVIOUS
  <2>2. p = order[k - first]
    BY <1>6, <1>7, <2>1
  <2>3. PICK x \in 1 .. n : order[x] = q
    BY <1>1
  <2>4. x > shown
    <3>. SUFFICES ASSUME x <= shown PROVE FALSE
      BY <1>2
    <3>1. first + x \in rows /\ (first + x) - first = x
      <4>1. first + x \in first + 1 .. first + shown /\ (first + x) - first = x
        BY <1>2
      <4>. QED
        BY <1>0, <4>1
    <3>2. frame[first + x].show.pid = q.pid
      BY <1>7, <2>3, <3>1
    <3>. QED
      BY <3>1, <3>2
  <2>5. k - first \in 1 .. n /\ k - first < x
    BY <1>2, <1>4, <2>4
  <2>. QED
    BY <1>1, <2>2, <2>3, <2>5
<1>12. ASSUME NEW j \in rows, NEW k \in rows, j < k
       PROVE  IF key = "cpu" THEN frame[j].show.cpu >= frame[k].show.cpu
              ELSE Read(frame[j].show.memory) >= Read(frame[k].show.memory)
  <2>. DEFINE p == order[j - first]
              q == order[k - first]
  <2>1. /\ j - first \in 1 .. n /\ k - first \in 1 .. n /\ j - first < k - first
    BY <1>4, <1>12
  <2>2. ~Above(q, p, key)
    BY <1>1, <2>1
  <2>3. p \in all /\ q \in all
    BY <1>6
  <2>4. frame[j].show = ProcessRow(p) /\ frame[k].show = ProcessRow(q)
    BY <1>5
  <2>. HIDE DEF p, q
  <2>5. IF key = "cpu" THEN ProcessRow(p).cpu >= ProcessRow(q).cpu
        ELSE Read(ProcessRow(p).memory) >= Read(ProcessRow(q).memory)
    BY <2>2, <2>3, ColumnsOrdered
  <2>. QED
    BY <2>4, <2>5
<1>. QED
  BY <1>8, <1>9, <1>10, <1>11, <1>12, Zenon DEF TopOf, shown, n, out

\* The rows of the process table are the top ones, for any number of processes,
\* any ties and either sort key, and their column never increases downwards
\* though it is rounded (renderer.cpp L85-L141).
THEOREM TopRowsShown == FrontSpec => []TopRows
<1>1. ASSUME ShowInv, Shown, snapshot.processes.ok
      PROVE  /\ TopOf(snapshot.processes.value, InFrame("processes", "row"), config.top_n,
                      config.sort_key)
             /\ \E k \in InFrame("processes", "header") :
                   frame[k].show.total = Cardinality(snapshot.processes.value)
  <2>. DEFINE all == snapshot.processes.value
  <2>1. PICK order \in Orders(all, config.sort_key), first \in Nat :
          /\ InFrame("processes", "row")
               = first + 1 .. first + Lesser(config.top_n, Cardinality(all))
          /\ \A k \in 1 .. Lesser(config.top_n, Cardinality(all)) :
                frame[first + k].show = ProcessRow(order[k])
          /\ \E k \in InFrame("processes", "header") : frame[k].show.total = Cardinality(all)
    BY <1>1, RowsOfFrame, Zenon
  <2>2. IsSnapshot(snapshot) /\ config \in Configs
    BY <1>1, SnapshotsAssumption DEF ShowInv, ReportInv, ParserInv
  <2>3. /\ IsFiniteSet(all)
        /\ \A p \in all : IsRatio(p.cpu) /\ AtLeast(p.cpu, 0) /\ p.memory \in Nat
        /\ \A p, q \in all : p.pid = q.pid => p = q
    BY <1>1, <2>2 DEF IsSnapshot
  <2>4. config.top_n \in Nat /\ config.sort_key \in SortKeys
    BY <2>2 DEF Configs, kMaxTopN
  <2>. HIDE DEF all
  <2>5. TopOf(all, InFrame("processes", "row"), config.top_n, config.sort_key)
    BY <2>1, <2>3, <2>4, TopShown, Zenon
  <2>. QED
    BY <2>1, <2>5 DEF all
<1>2. ShowInv => TopRows
  BY <1>1, Zenon DEF TopRows, TopOf
<1>. QED
  BY <1>2, ShowInductive, PTL
=============================================================================
