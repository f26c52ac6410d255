------------------------------ MODULE Renderer ------------------------------
(***************************************************************************)
(* render() of src/src/presentation/renderer.cpp: a snapshot becomes a     *)
(* sequence of lines.  A line is [section, kind, show]: the section it     *)
(* belongs to, whether it is a "row", a "header", or the text for an empty *)
(* list ("none") or a failed sample ("unavailable"), and the values that   *)
(* it shows.  Wording, padding and column widths are layout.               *)
(***************************************************************************)
EXTENDS Format, FiniteSets

\* A snapshot has a Result per section: [ok, value], without a value if not ok.
Failure   == [ok |-> FALSE]
Success(v) == [ok |-> TRUE, value |-> v]

\* What the samples of a snapshot are: sizes are not negative, a percentage or a
\* process' share of a CPU is a ratio, and a process is listed once.
IsSnapshot(s) ==
    /\ \A section \in {"system", "cpu", "memory", "disks", "network", "processes"} :
          s[section].ok \in BOOLEAN
    /\ s.memory.ok => s.memory.value \in [total : Nat, available : Nat]
    /\ s.disks.ok => s.disks.value \in Seq([total : Nat, free : Nat])
    /\ s.network.ok => s.network.value \in Seq([down : Nat, up : Nat])
    /\ s.processes.ok =>
          /\ IsFiniteSet(s.processes.value)
          /\ \A p \in s.processes.value :
                IsRatio(p.cpu) /\ AtLeast(p.cpu, 0) /\ p.memory \in Nat
          /\ \A p, q \in s.processes.value : p.pid = q.pid => p = q

SectionOrder == <<"system", "cpu", "memory", "disks", "network", "processes">>

Line(section, kind, show) == [section |-> section, kind |-> kind, show |-> show]
Unavailable(section)      == <<Line(section, "unavailable", <<>>)>>

RenderSystem(result) ==
    IF ~result.ok THEN Unavailable("system")
    ELSE <<Line("system", "row", [hostname |-> result.value.hostname,
                                  uptime   |-> DurationSeconds(result.value.uptime)])>>

RenderCpu(result) ==
    IF ~result.ok THEN Unavailable("cpu")
    ELSE <<Line("cpu", "row", [percent |-> Percent(result.value)])>>

\* Mutated: no guard.  (Modulo 2^64 in the code; any number beyond all sizes.)
Used_Unguarded(total, free) == IF total >= free THEN total - free ELSE 2 ^ 20
\* More may be free than the total: a quota, or a snapshot of moving counters.
Used(total, free) == IF total >= free THEN total - free ELSE 0

Usage(total, free) ==
    [used    |-> Bytes(Used(total, free)),
     total   |-> Bytes(total),
     percent |-> Percent(PercentUsed(total, free))]

RenderMemory(result) ==
    IF ~result.ok THEN Unavailable("memory")
    ELSE <<Line("memory", "row", Usage(result.value.total, result.value.available))>>

\* A section that is a list: its header, and a row per element.
List(section, rows) ==
    <<Line(section, "header", <<>>)>> \o
    (IF rows = <<>> THEN <<Line(section, "none", <<>>)>>
     ELSE [k \in 1 .. Len(rows) |-> Line(section, "row", rows[k])])

FailedList(section) == <<Line(section, "header", <<>>)>> \o Unavailable(section)

RenderDisks(result) ==
    IF ~result.ok THEN FailedList("disks")
    ELSE List("disks", [k \in 1 .. Len(result.value) |->
                            Usage(result.value[k].total, result.value[k].free)])

\* Rates are cut to whole bytes per second.
Rates(interfaces) ==
    [k \in 1 .. Len(interfaces) |-> [down |-> Bytes(interfaces[k].down),
                                     up   |-> Bytes(interfaces[k].up)]]

\* Mutated: a failed sample is rendered like an empty table.
RenderNetwork_Merged(result) ==
    List("network", IF result.ok THEN Rates(result.value) ELSE <<>>)
RenderNetwork(result) ==
    IF ~result.ok THEN FailedList("network") ELSE List("network", Rates(result.value))

\* Mutated: the comparator looks at CPU only.
Above_Cpu(a, b, key) == a.cpu.num * b.cpu.den > b.cpu.num * a.cpu.den
\* The comparator of std::sort: larger first, by CPU or by memory.
Above(a, b, key) ==
    IF key = "cpu" THEN a.cpu.num * b.cpu.den > b.cpu.num * a.cpu.den
    ELSE a.memory > b.memory

\* std::sort is not stable: any order that no pair contradicts.
Orders(processes, key) ==
    LET n == Cardinality(processes)
    IN  {s \in [1 .. n -> processes] :
            /\ \A j, k \in 1 .. n : s[j] = s[k] => j = k
            /\ \A j, k \in 1 .. n : j < k => ~Above(s[k], s[j], key)}

ProcessRow(p) == [pid |-> p.pid, cpu |-> Percent(p.cpu), memory |-> Bytes(p.memory)]

\* The processes section, for each order of equal processes: the header counts
\* all of them.
RenderProcesses(result, config) ==
    IF ~result.ok THEN {Unavailable("processes")}
    ELSE LET total == Cardinality(result.value)
             shown == Lesser(config.top_n, total)
             header == Line("processes", "header",
                            [total |-> total, top |-> config.top_n, by |-> config.sort_key])
         IN  {<<header>> \o [k \in 1 .. shown |->
                                 Line("processes", "row", ProcessRow(order[k]))] :
                  order \in Orders(result.value, config.sort_key)}

Render(snapshot, config) ==
    {RenderSystem(snapshot.system) \o RenderCpu(snapshot.cpu)
       \o RenderMemory(snapshot.memory) \o RenderDisks(snapshot.disks)
       \o RenderNetwork(snapshot.network) \o processes :
         processes \in RenderProcesses(snapshot.processes, config)}
=============================================================================
