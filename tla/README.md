# System Resource Monitor: formal models

TLA+ models, TLC runs and TLAPS proofs for `srm`, a Windows console program
that samples CPU, memory, disks, processes and network interfaces and repaints
a text report at an interval. Paths below are relative to `src/`.

## 1. Inventory

| Part | State it keeps | Operations | Talks to |
|---|---|---|---|
| `main.cpp` | `g_shutdown_requested`, `config`, the sleep's `remaining` | parse, priming poll, baseline sleep, `--once`, live loop, `interruptible_sleep`, `console_ctrl_handler` | calls the engine; shares one atomic with the handler thread, which Windows starts |
| `monitor/engine.cpp` | the six monitors | `poll()` | calls each monitor's `sample()` in order |
| `process_monitor.cpp` | `previous_ticks_` (by pid), `previous_sample_time_` | `sample()`, `translate()` | Toolhelp snapshot, then one `OpenProcess` per pid, then the clock |
| `network_monitor.cpp` | `previous_bytes_` (by LUID), `previous_sample_time_` | `sample()`, `translate()` | `GetIfTable2`, then the clock |
| `cpu_monitor.cpp` | `previous_` (one reading, which may have failed) | constructor's reading, `sample()`, `translate()` | `GetSystemTimes` |
| `disk_monitor.cpp` | the thread's error mode, for the length of a call | `sample()`, `translate()` | `GetLogicalDrives`, two queries per drive |
| `memory_monitor.cpp`, `system_monitor.cpp` | none | `sample()`, `translate()` | one or two calls each |
| `core/math.cpp` | none | four calculations on counters | called by monitors and renderer |
| `core/format.cpp`, `presentation/renderer.cpp` | none (the screen keeps the last frame) | `render()` | `std::cout` |
| `cli/parser.cpp` | none | `parse_args()` | called once by `main` |

What is hard here, and what makes each part correct:

- **main**: two threads and the operating system. The flag may be stored
  anywhere; polls cannot be interrupted; the handler exists only from a certain
  point on; Windows treats the three handled events differently. Correct: after
  a stop request at most one more frame, a bounded wait, and an end; sleeps that
  nobody interrupts last their whole interval; the loop keeps refreshing.
- **main and the monitors together**: a figure is as good as the time it is
  measured over, and that time depends on the loop, on the sleeps a Ctrl+C cuts
  short, and on the readings that failed. Correct: no painted figure over a
  window shorter than the baseline sleep or the interval, and none over a window
  longer than one round, unless a reading failed.
- **process monitor**: a table that changes between the system calls of one
  `sample()`; pids are reused; every call may fail by itself; the clock is read
  once. Correct: baselines come from the last successful sample, no CPU time is
  counted twice, the skew is bounded, `sample()` returns.
- **network monitor**: counters that wrap and restart, links that flap,
  interfaces that vanish and come back, samples that fail. Correct: no traffic
  made up, and none lost that the counters still tell.
- **CPU monitor**: readings that fail. Correct: successive windows are
  contiguous, `Unavailable` only before the first good reading, recovery.
- **engine**: six samples in order on one thread, one of which may block behind
  a dialog. Correct: a failure hides no other section; a poll returns on an
  unattended machine.
- **disk monitor**: media that are exchanged between two queries; queries that
  fail; a thread-wide mode to change and to restore, by calls that may fail.
  Correct: the caller's mode is back on every path unless the restoring call
  itself fails, no dialog where it could be
  avoided, no row that mixes drives, no drive lost to another's failure.
- **parser**: bounds, missing values, `--help` before an error, repeated
  options, values that look like options. Correct: the accepted language, the
  argument an error names, and the bounds of what is returned.
- **renderer and format**: an unstable sort cut after `top_n`, figures rounded
  after they were sorted by, free bytes that exceed the total, changes of unit.
  Correct: the rows shown dominate the others, each section shows its own
  outcome, and a printed figure can be read back to half its last digit.
- **the repaint**: a window that scrolls, a console that may not understand
  escape sequences, frames of different sizes. Correct: every line of the frame
  is whole and in order, and nothing stands below it. (That *nothing else* is on
  the screen is what ARCHITECTURE.md suggests and is not so: see the run
  `repaint`.)

The hazards, each at its line and with the properties that cover it, are listed
in `PROJECT.json`. Four have none, for the reason noted there: a row with the name
of one process and the figures of another, a process enumeration that ends early
unnoticed, an API failure reported as `Unavailable`, and a row with the size of
one medium and the file system of another. The model has these behaviours (but for
the second, which looks like a shorter process table); nothing in the repository
promises otherwise.

## 2. Modules

| Module | What it is |
|---|---|
| `StopPromise` | abstract: what a user who asks the program to stop may expect |
| `MainLoop` | `main.cpp`, both threads, and the clock; implements `StopPromise` |
| `MCMainLoop` | its instance, and three claims of the documents |
| `Frames` | `MainLoop` composed with the baselines of the monitors it polls |
| `MCFrames` | its instance |
| `CoreMath` | `core/math.cpp` over exact ratios |
| `ProcessMonitor`, `MCProcessMonitor` | `process_monitor.cpp` over a changing process table; two claims of the comments |
| `NetworkMonitor` | `network_monitor.cpp` over changing interfaces |
| `CpuMonitor` | `cpu_monitor.cpp` with readings that fail |
| `DiskMonitor` | `disk_monitor.cpp` over drives whose media change |
| `MonitorEngine`, `MCMonitorEngine` | `engine.cpp` composed with `DiskMonitor`; its instance |
| `Parser` | `parse_args`, and what a command line means |
| `Format` | `core/format.cpp`, and what its conversions promise |
| `Renderer` | `render()`: from a snapshot to lines |
| `Screen` | the console window and the sequences written to it |
| `FrontEnd`, `MCFrontEnd` | `main`'s input and output: `Parser`, `Renderer` and `Screen` composed; its instance, and a claim of a document |
| `MainLoop_proofs`, `Frames_proofs`, `CoreMath_proofs`, `ProcessMonitor_proofs`, `NetworkMonitor_proofs`, `CpuMonitor_proofs`, `MonitorEngine_proofs`, `FrontEnd_proofs` | the theorems |

Who uses whom: `Frames` EXTENDS `MainLoop`, which INSTANCEs `StopPromise`;
`ProcessMonitor`, `NetworkMonitor`, `CpuMonitor` and `Format` EXTEND `CoreMath`;
`MonitorEngine` EXTENDS `DiskMonitor`; `FrontEnd` EXTENDS `Parser`, `Renderer`
(which EXTENDS `Format`) and `Screen`. The state of each baseline monitor is
looked at closely in its own module; `Frames` keeps only the age of its
baseline, `MonitorEngine` only the outcome of its sample.

Operators whose names end in `_Something` and whose comment begins with
"Mutated" are deliberately wrong versions of the definition below them. No
specification uses them; substituting one must make the property it is meant for
fail, which shows that the property depends on that piece of the code.

### MainLoop

`pc` is where the main thread is. Its blocking calls are `prime`, `once` and
`poll` (each an `engine.poll()`), `baseline` (the 200 ms sleep) and `slice` (one
`sleep_for`). `Tick` lets a unit of time pass while the thread is in one of
them; all other steps of `main` take no time. A poll lasts 0 to `MaxPoll` units,
a sleep its duration plus 0 to `MaxOversleep`. The flag is read where the code
reads it: at the loop test (`CheckLoop`, L117) and before each slice (`Nap`,
L51).

Every console event kind has a thread: `RaiseEvent` starts it (or kills the
process when no handler is registered), `HandlerRuns` is the body of
`console_ctrl_handler`, `HandlerReturns` what Windows does afterwards. Several
kinds may be in flight together; two of one kind may not, which loses nothing as
the handler is idempotent. `InstallHandler` may fail, since the code ignores the
result. `latency`, `late` and `slept` are history: no guard reads them.

### Frames

Each step of `MainLoop` is taken together with what it does to the monitors'
baselines. `MakeEngine` constructs them: only the CPU monitor's takes a reading
then, which may fail. A poll is no longer one step: `SampleSection` samples the
next section (`sampled` counts them), and its reading becomes the baseline
unless it failed; `PollDone` returns and, except for the priming poll, paints.
`status` is the outcome of a section's last reading, `age` the time since its
baseline. Ages saturate at `AgeCap`, an assumption of the module: larger than
the longest window of two samples in a row, so that saturation never makes a
window look shorter or more recent than what the properties tell apart.

### ProcessMonitor

A process is a number in order of creation; a pid is a name the table gives it
and may give again. `TakeSnapshot` fixes the entries; `Query(p)` stands for
`OpenProcess`, `GetProcessTimes` and `GetProcessMemoryInfo` on one entry, and
finds whatever process has the pid now; `Finish` reads the clock, translates and
replaces the baseline. `Tick`, `Spawn` and `Exit` interleave anywhere. Two of
the code's orders are not kept: entries are visited in any order, which is more
general, and the three calls on one handle are one step, as the handle pins the
process. A reading carries `of` and `at` (whose it is, and when it was made) as
history. Time and CPU time share a unit (`TicksPerSecond = 1`).

### NetworkMonitor

`ReadTable` copies the table in one step, as `GetIfTable2` does, and `Finish`
reads the clock afterwards; the interfaces may change in between. `Carry`
advances a counter and may wrap it, `Restart` is a driver reset, `Remove` and
`Appear` take an interface away and bring it back under its LUID. `carried` is
what an interface really carried, `reported` what the rows stand for.

### CpuMonitor

`total` and `idle` are the two counters `GetSystemTimes` gives (kernel time, and
so `total`, includes idle time). `Readings` are the outcomes of one call;
`Sample` is the whole of `sample()`, which makes one call. The constructor's
call is in `Init` and may fail too. `shown` is what the percentages returned so
far stand for, in ticks.

### CoreMath

A `double` is a pair `[num, den]`. The properties are about sign, range and
which reading a figure was computed from, not about rounding; the conversion of
`uint64_t` to `double` (exact below 2^53) is outside the model. Counters here
are integers whose subtraction may go below zero, where the C++ would wrap to an
enormous value: a row that would be enormous in the program is negative in the
model, and `TypeOK` forbids it.

### DiskMonitor

One step per system call of `sample()`, with `Change(d)` (a medium inserted,
removed or exchanged, a drive plugged in or unplugged) possible between any two.
`medium[d]` is a volume, `Vacant` for an empty drive, or `NoDrive`. An answer of
a query *is* the volume that gave it, so that a row tells which medium its size
and its file system are of; `NoDrive` is the absence of one. `ListDrives` is
`GetLogicalDrives`, whose empty mask is a failure; `SetMode` is
`SetThreadErrorMode`, which may fail and then leaves `previous_error_mode` 0;
`Query` is either query of the letter visited, `SpaceKnown` and `NameKnown` what
the code does with its answer; `ReturnDisks` restores the mode, which may fail
as well and is not looked at, and translates.
A query of an empty drive under the mode `"dialog"` puts up a dialog
(`AskUser`), and the thread waits for `Cancel` or `TryAgain`. The mode at the
start is the parent's and may be either. `seen`, `refused`, `inherited` and
`restoreFailed` are history. The conversion of names to UTF-8 is a name that may come out empty.

### MonitorEngine

`section` is the monitor being sampled, in the order of the designated
initializers in `poll()`; `snapshot` has the status of each result so far. The
disk monitor runs step by step, `MonitorEngine` waiting in `SampleDisks`; the
memory and system monitors are one system call each; of the three with a
baseline only the outcome enters, any at any time. `AnswerDialog` and
`Environment` belong to no thread of the program.

### Parser

An argument is a token; what `std::from_chars` makes of it (error, whether the
whole text was used, the value) and what `to_lower` makes of it are the
constants `Chars` and `Lower`, so the model holds for any text. One step per
argument of the loop, one action per branch. `offender` is the position an error
message names. The reference has no loop: `IsHead` says which arguments are
options and which are values of the one before (in a row of options that take a
value, every second argument is one), `Wrong` which are errors, `Stops` where
parsing ends, and `Latest` what an option ends up with.

### Format, Renderer

A number printed with one decimal is the integer of its tenths, with the index of its unit
(`Bytes`), rounded half to even; `UnitSize` is what the loop has divided by, and
`UnitIndex` where it stops, from 1. `Read` takes a printed size back to a number.
`Kilo` is 1024; the instance takes 4 to reach all six units and the carries
between them with small numbers. A line is `[section, kind, show]`: kinds tell
rows from headers, empty lists and failures, `show` has the numbers. `Render` is
a *set* of frames, since `std::sort` is not stable: `Orders` has every order that
no pair of processes contradicts. Used bytes are clamped where the code clamps
them. `IsSnapshot` says what a snapshot may be: the C++ types make sizes and
rates unsigned, `core/math.cpp` keeps a process' share of a CPU at 0 or above,
and a process table lists a pid once. Lists may have any length. Wording, padding, names and column widths are layout.

### Screen, FrontEnd

The window is a grid of cells, each with the line of the current frame that
wrote it, or `Shell`, `Past` (an earlier frame), `Garbage` (an escape sequence
printed as text), `Message` or `Blank`. `NewLine` scrolls in the last row;
`Text` overwrites only the cells it covers; `CursorHome` and `ClearBelowCursor`
are the two sequences, and one cell of garbage each where `ansi` is false.
`enable_ansi_escape_codes` may fail, which the code ignores.

`FrontEnd` is `main` as its user sees it: the parsing, then `--once`
(`PrintOnce`) or the loop (`Home`, `Paint`, `SayGoodbye`). Snapshots are
arbitrary members of `Snapshots`, `ansi` is arbitrary, and the loop may end
before any round: `MainLoop` and the monitors say when these things happen, and
nothing here depends on it. What is assumed of the constants: `Lines` are command
lines of `Tokens`, of any length; `Snapshots` are snapshots; the window has two
rows and three columns at least; and no line is wider than the window less the
two cells that escape sequences may have taken in its row (`ColumnsAssumption`).
The last one is not the code's but its environment's: a wider line would wrap,
which `Screen` leaves out.

## 3. Runs

| Run | Shows |
|---|---|
| `main_loop` | `MCFrames`: the windows the figures are measured over; one late frame at most, a bounded stop, whole naps, bounded drift; the loop keeps refreshing; the refinement of `StopPromise`, liveness included |
| `main_loop_early` | refutes "exits cleanly on Ctrl+C" (README.md L78): Ctrl+C during startup kills the process |
| `main_loop_close` | refutes "suppresses the default (immediate-kill) action" (main.cpp L40) for `CTRL_CLOSE_EVENT` |
| `main_loop_latency` | refutes "bounded by the 100ms sleep-slice size" (ARCHITECTURE.md L207): a poll is not sliced |
| `process` | all properties of `ProcessMonitor` |
| `process_pid_reuse` | refutes "simply reports 0% CPU" (interfaces.hpp L52-54) for a process under a reused pid |
| `process_skew` | refutes the reading of `cpu_percent` as CPU time over the time between its readings (math.hpp L30-33, L38-41) |
| `network` | all properties of `NetworkMonitor` |
| `cpu` | all properties of `CpuMonitor` |
| `engine` | a poll with the disk monitor inside: the mode restored unless the restoring call fails, no dialog unattended, rows of their own drive, none lost, no section skipped, every unattended poll returns |
| `front_end` | from the command line to the window: the parser against its reference, the conversions, the report, and the console after each repaint |
| `repaint` | refutes "clear screen, print" (ARCHITECTURE.md L38): the tail of a longer, older line stays on the screen |

Bounds, and why they suffice:

- `main_loop`: a slice is 2 units, so that time can pass inside one; the intervals are
  one slice exactly (the code's minimum) and two and a half (a partial last
  slice); a poll lasts up to 4 units, longer than a slice with its oversleep, so
  that the two terms of `ResponseBound` differ; all four kinds of event. One
  section: the sections do not look at one another, and that of the CPU monitor
  starts with a baseline or without one. Ages saturate at 17, above every window
  of two samples in a row.
- `process`: two pids and two processes, enough for a reuse and for a process
  untouched by it; two units of time, so that there are intervals of length 0, 1
  and 2, and an enumeration may take as long as an interval; four
  attempts, the code's number. The number of samples is not bounded.
- `network`: one interface, since `translate()` and the refill treat the rows
  one by one; counters of three values and three octets, so that one wraps; two
  restarts, so that a counter may end above, at or below its baseline after one.
- `cpu`: two processors, so that a tick may be half busy, and four units of time;
  the number of samples, failed or not, is not bounded.
- `engine`: a fixed disk that may refuse, and a card reader that may hold either
  of two cards, be empty or be unplugged: one drive for each role of the
  properties, and two media to confuse. Either inherited mode. Polls, changes
  and dialogs are not bounded.
- `front_end`: 3317 command lines, all of up to two arguments over 21 words (each
  option, each bound and its neighbours, a number with a tail, one past
  `long long`), and longer ones over fewer words, for repetitions and values that look
  like options. A window of twelve rows and five columns, which all frames fit
  but the longest; the cursor in the top or the bottom row at the start.
  Snapshots differ from an ordinary one in one section each (failed, empty,
  quota, ties, zero total), and one has failed throughout; rounds are not
  bounded, so that any report follows any other. Conversions: `Sizes` are all up
  to 5000 (6 units of 4), `Durations` those around each carry; they are looked at
  in the first state of the empty command line.

Deadlock is checked in the `main_loop`, `engine`, `front_end` and `repaint` runs;
`Done` and `Over` are the only steps of a terminated process. It is not in the
others: their clock and their supply of processes or traffic are bounded.

Fairness. In `Frames`: the main thread and each started handler thread are
scheduled (weak fairness), and time passes; nothing makes anyone press Ctrl+C.
That blocking calls return follows: they have a latest end, and time passes. In
`ProcessMonitor`: a `sample()` under way goes on (weak fairness of
`SampleStep`); when it is called, and which of its calls fail, is unconstrained.
In `MonitorEngine`: a system call returns unless a dialog is up (weak fairness of
`EngineStep`). Nobody need answer a dialog, change a medium or ask for a poll.

Seen on the way, and contradicted by no document: a restoring
`SetThreadErrorMode` that fails once leaves the thread quiet for good, as every
later sample saves that mode as the caller's; a size just under a unit
boundary prints as "1024.0 KB" (`BytesRight` allows it); where escape sequences
are not understood, each frame is printed below the last with two cells of
garbage (`FrameReadable` still holds); the size and the file system in a disk
row may be those of two cards exchanged in between (`RowsAreTheDrives` allows
exactly that).

## 4. Proofs

| Theorem | States | Of |
|---|---|---|
| `TypeCorrect` | `Spec => []TypeOK` | `MainLoop`, `ProcessMonitor`, `NetworkMonitor`, `CpuMonitor` |
| `OneLateFrame`, `StopIsPrompt` | `AtMostOneLateFrame`, `PromptStop` | `MainLoop` |
| `NapIsWhole`, `DriftIsBounded`, `CtrlCIsSafe` | `NapNotCutShort`, `NapDrift`, `CtrlCNeverKills` | `MainLoop` |
| `ImplementsPromise` | `Spec => Promise!Safe` | `MainLoop` |
| `FramesImplementMainLoop` | `FramesSpec => Spec` | `Frames` |
| `FramesTypeCorrect`, `WindowsAreMeaningful`, `WindowsAreRecent` | `FramesTypeOK`, `WindowsMeaningful`, `WindowsRecent` | `Frames` |
| `BaselineIsFresh`, `NothingCountedTwice`, `SkewIsBounded` | `FreshBaseline`, `NoDoubleCounting`, `SkewBound` | `ProcessMonitor` |
| `NoTrafficMadeUp`, `NoTrafficLost` | `NeverOverReports`, `NothingMissed` | `NetworkMonitor` |
| `NoBusyTickLost`, `Recovers` | `BusyAccounted`, `NeverStranded` | `CpuMonitor` |
| `DiskTypeCorrect`, `ErrorModeRestored`, `NoUnattendedDialog`, `RowsFromTheirDrive`, `NoDriveLost`, `NoSectionSkipped` | `DiskTypeOK`, `ModeRestored`, `UnattendedNeverBlocks`, `RowsAreTheDrives`, `EveryDriveShown`, `EverySectionSampled` | `MonitorEngine` |
| `ConfigStaysInBounds`, `CommandLineAsMeant` | `ConfigInBounds`, `ParsedAsMeant` | `FrontEnd` (`Parser`) |
| `EverySizeRight`, `EveryDurationRight` | `BytesRight`, `DurationRight` of every natural number, hence (`EveryBytesFaithful`, `EveryDurationFaithful`) `BytesFaithful`, `DurationFaithful` | `Format` |
| `EverySectionIsShown`, `EveryUsageMakesSense`, `TopRowsShown` | `EverySectionShown`, `UsageMakesSense`, `TopRows` | `FrontEnd` (`Renderer`) |
| `FrontTyped`, `EveryFrameReadable`, `ShellPreserved`, `EveryGoodbyeReadable` | `FrontTypeOK`, `FrameReadable`, `OncePreservesShell`, `GoodbyeReadable` | `FrontEnd` (`Screen`) |
| `UsedWithinTotal` | a use within the total | `Renderer` |
| `PercentUsedInRange`, `CpuPercentInRange`, ... | ranges of the calculations | `CoreMath` |

They hold for every value of the constants under the `ASSUME`s of the modules:
positive intervals and slice, natural bounds, at least one core, a counter of
positive size, distinct sections, any letters and media, any words and any set
of finite command lines, snapshots with lists of any length, any number above 1
for `Kilo`, and windows of any size above the least.

- **MainLoop.** Neither `AtMostOneLateFrame` nor `PromptStop` is inductive: from a
  state at `poll` with the flag set and one late frame counted, a second would
  follow. The invariant (`RequestInv`) says that no late frame has been counted
  while a poll or a slice is under way, and that no more time has passed since
  the request than in that call; that there is no request before the handler is
  installed (`HandlerInv`); and that `spent` is 0 outside blocking calls. For
  `NapNotCutShort`: while asleep, `slept + remaining` is at least the interval.
  For `NapDrift` (`DriftInv`): as long as something remains to be slept, what
  has been slept is a whole number of slices, each overslept once at most; the
  last slice, which may be clipped, is counted by the rounding up. The solvers
  know no division by a variable: `QuotientAtLeast` and `ProductMonotone` supply
  what is needed of it.
- **Frames.** Every step is a step of `MainLoop` or leaves it alone
  (`StepIsMainLoops`), so `FramesSpec => Spec` and every theorem about `Spec`
  holds of the composition. `WindowsMeaningful` speaks of the moment of a
  sample; `AgeInv` follows the age from there: a section not sampled in the poll
  under way is as old as what has been slept, also while napping, and after a
  nap *the flag did not cut short* at least an interval. A nap that was cut
  short ends the loop, which is why the frame after a Ctrl+C is safe.
  `RecentInv` bounds the same age from above, per program point, and rests on
  `DriftInv` for the length of a nap.
- **ProcessMonitor.** `NoDoubleCounting` needs `CreditInv`: what was credited to
  a process is covered by its baseline and by the reading under way, and a
  process that took over a pid has been credited nothing before its first row;
  and `OwnerInv`: a process is under one pid all its life. `SkewBound` rests on
  `SpeedInv` (a process uses at most `Cores` ticks per unit between two dated
  readings) and `TimeInv` (readings lie within the enumeration that made them).
- **NetworkMonitor.** `FollowInv`: if a counter is at or above a reading of it, at
  least as many octets were carried since as it advanced, and exactly as many if
  it did not wrap or restart in between. A counter below its baseline is
  excluded by the guard of `rate_per_second`. `ReportInv`: what was reported had
  been carried when the latest readings were made.
- **CpuMonitor.** `BaselineInv`: the baseline is the last good reading and exists
  once any reading was good; busy and idle ticks have only grown since. With it,
  lemma `BusyTicks` gives the exact numerator of a percentage.
- **MonitorEngine.** The properties speak of what `sample()` returned; the
  invariant of what it is doing. `ModeInv`: with the mode changed, the one
  found on entry is in `savedMode`, and that one (`ModeOnEntry`) is the caller's
  as long as no restoring call has failed, quiet afterwards. `VisitInv`: what is recorded of a drive comes from a medium
  seen in it; a drive that held one medium is still to be visited or recorded,
  and as long as it refused nothing the record is that medium, the half-made
  one of the letter being visited included. `SectionInv`: which sections are in
  the snapshot follows from the one being sampled, and only while it is the
  disks may the disk monitor be running.
- **FrontEnd, the command line.** `ParserInv`: the configuration is in bounds at
  every argument, from the ranges checked before each assignment; nothing after
  the parsing writes it. For `ParsedAsMeant`, `MeaningInv` says what the loop
  knows at argument `i`: `i` is a head of the reference, no head before it stops
  the parsing, and each field of the configuration is what the uses before `i`
  mean. That `i + 1`, or `i + 2` after a value, is the next head is a fact about
  where the row of options around `i` starts and how long it is (`HeadAfter`),
  not an induction over the arguments.
- **FrontEnd, the numbers.** Rounding to the nearest tenth keeps order
  (`NearestMonotone`), hence so does `Read(Bytes(_))` within a unit and across a
  change of units (`BytesMonotone`): from that, used within total as printed, and
  a column that never increases. For every `Kilo` above 1; a bound as sharp as
  95 in 100 between used and total at "100.0%" would be false at 1.0 of 1.1, and
  `UsageMakesSense` says 10 of 11.
- **FrontEnd, the report.** A report is six blocks, one after the other, and each
  line of it is in one of them at a known place (`Parts`, `Apart`); what a block
  may contain is said once per section (`Block`). `TopRows` then is about an
  order alone (`TopShown`): an injection of `1 .. n` into a set of `n` processes
  is onto, so that what is not in the first rows stands behind them, and ranks no
  higher.
- **FrontEnd, the window.** `PrintFrame` prints line by line and may scroll at each.
  Its closed form (`PrintFrameShows`) is a window over a roll without an end:
  `RollRow` is what stands on a row of the roll after `k` lines, `Scrolled` how
  far the window has moved. The invariant `ShowInv` adds to `ParserInv` where the
  frame comes from (`ReportInv`: it was rendered from `snapshot` under `config`),
  where the window stands in each phase (`WindowInv`: as the shell left it;
  homed; or, without escape sequences, in a row with two of them at most and
  nothing below it), and what can be read in it (`WhatIsShown`). `WindowInv` is
  needed since `FrameReadable` is only about `painted`: the room that the first
  line of a frame has depends on what was printed before it was homed.

Where a proof needs induction over data (the closed form of `PrintFrame`), it
takes the least number for which the claim fails and contradicts it
(`WFMin` of the well-founded order on the natural numbers), since the library's
induction rules take an operator as a parameter, which no installed prover
instantiates.

Only model-checked are the liveness properties (`KeepsRefreshing`,
`SampleReturns`, `UnattendedPollReturns` and the `WF` part of `KeepsPromise`):
liveness under fairness and `ENABLED` are out of this prover's reach. All other
properties of the passing runs are theorems.

No module of the project uses a RECURSIVE operator.

## 5. Not modelled

- Text: the wording of messages and of the usage, names and mount points,
  padding and column widths, the wrapping of lines wider than the window and the
  scrollback above it. UTF-8 conversion (`string_convert`) is two system calls
  without state and enters as a name that may be empty.
- `Result`'s `to_string`, `value_or` and move overloads, which decide nothing
  in the program; a `Result` is a `Success` or a `Failure` without a value.
- `uptime_millis / 1000`, and the rounding of `double` beyond exact ratios.
- Allocation failure and exceptions; `main` catches none.
- A window that is resized, and output that is redirected to a file.
- The tests, the test framework and the build files.

## 6. Plan

Done, in this order: the main loop, the process, network and CPU monitors and
the calculations they share; the main loop composed with the age of the
baselines (`Frames`); the disk monitor inside the engine (`MonitorEngine`); the
command line, the report and the window (`FrontEnd`); `NapDrift` and the
theorems of the new modules; the theorems about `FrontEnd`, which leave no
safety property of a run without a proof.

Left:

1. An abstract meter, whose successive rows partition the time since its first
   good reading, implemented by `CpuMonitor` and, row by row, by
   `NetworkMonitor`; the two refinements proved.
2. Several sections in the instance of `Frames`, which `WindowsMeaningful` and
   `WindowsRecent` already cover for any number of them by proof.
