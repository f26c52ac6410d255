----------------------- MODULE NetworkMonitor_proofs -----------------------
(***************************************************************************)
(* The properties of NetworkMonitor, for any interfaces, any counter size  *)
(* and any interleaving of traffic, restarts and samples.                  *)
(***************************************************************************)
EXTENDS NetworkMonitor, CoreMath_proofs

(***************************************************************************)
(* The inductive invariant.  Octets o, with k carried and e epochs, follow *)
(* a reading r if no fewer were carried since than the counter advanced -  *)
(* and exactly as many if the counter ran on.                              *)
(***************************************************************************)
Follows(o, k, e, r) ==
    /\ r.epoch <= e
    /\ \A d \in Dirs :
          /\ r.carried[d] <= k[d]
          /\ o[d] >= r.octets[d] => o[d] - r.octets[d] <= k[d] - r.carried[d]
          /\ r.epoch = e         => o[d] - r.octets[d] = k[d] - r.carried[d]

\* The system follows both readings the monitor holds, and the new one the old.
FollowInv ==
    /\ \A l \in DOMAIN prevBytes : Follows(octets[l], carried[l], epoch[l], prevBytes[l])
    /\ \A l \in DOMAIN raw : Follows(octets[l], carried[l], epoch[l], raw[l])
    /\ \A l \in DOMAIN raw \cap DOMAIN prevBytes :
          Follows(raw[l].octets, raw[l].carried, raw[l].epoch, prevBytes[l])

\* What was reported was already carried when the latest readings were made.
ReportInv ==
    \A l \in Luids, d \in Dirs :
       /\ reported[l][d] <= carried[l][d]
       /\ l \in DOMAIN raw => reported[l][d] <= raw[l].carried[d]
       /\ l \in DOMAIN prevBytes => reported[l][d] <= prevBytes[l].carried[d]

\* The baseline is the last successful sample's, readings and time.
BaselineInv == prevTime = lastEnd /\ prevBytes = lastTable

IInv == TypeOK /\ FollowInv /\ ReportInv /\ BaselineInv
-----------------------------------------------------------------------------
\* What rate_per_second yields for two counter values (math.cpp L16-L21).
LEMMA Rate ==
    ASSUME NEW previous \in Nat, NEW current \in Nat, NEW elapsed \in Int
    PROVE  LET r == RatePerSecond(previous, current, elapsed)
           IN  /\ r \in [num : Nat, den : Nat \ {0}]
               /\ r.num = 0 \/ (current >= previous /\ r.num = current - previous)
               /\ elapsed > 0 /\ current >= previous
                    => r = Ratio(current - previous, elapsed)
BY DEF RatePerSecond, Zero, Ratio

\* The rows translate() makes (network_monitor.cpp L32-L59).
LEMMA TranslateRows ==
    ASSUME TypeOK, NEW elapsed \in Int
    PROVE  /\ LuidMap(Translate(elapsed), PerDir([num : Nat, den : Nat \ {0}]))
           /\ \A l \in shown, d \in Dirs :
                 LET r == Translate(elapsed)[l][d]
                 IN  /\ r \in [num : Nat, den : Nat \ {0}]
                     /\ l \notin DOMAIN prevBytes => r.num = 0
                     /\ l \in DOMAIN prevBytes =>
                           r = RatePerSecond(prevBytes[l].octets[d], raw[l].octets[d], elapsed)
<1>1. ASSUME NEW l \in shown, NEW d \in Dirs
      PROVE  LET r == Translate(elapsed)[l][d]
             IN  /\ r \in [num : Nat, den : Nat \ {0}]
                 /\ l \notin DOMAIN prevBytes => r.num = 0
                 /\ l \in DOMAIN prevBytes =>
                       r = RatePerSecond(prevBytes[l].octets[d], raw[l].octets[d], elapsed)
  <2>1. CASE l \in DOMAIN prevBytes
    <3>1. Translate(elapsed)[l][d]
            = RatePerSecond(prevBytes[l].octets[d], raw[l].octets[d], elapsed)
      BY <2>1 DEF Translate
    <3>2. prevBytes[l].octets[d] \in Nat /\ raw[l].octets[d] \in Nat
      BY <2>1 DEF TypeOK, LuidMap, ReadingType, PerDir
    <3>. QED
      BY <2>1, <3>1, <3>2, Rate
  <2>2. CASE l \notin DOMAIN prevBytes
    BY <2>2 DEF Translate, Zero, Ratio
  <2>. QED
    BY <2>1, <2>2
<1>2. DOMAIN Translate(elapsed) = shown /\ shown \subseteq Luids
  BY DEF Translate, TypeOK, LuidMap
<1>3. Translate(elapsed) \in [shown -> PerDir([num : Nat, den : Nat \ {0}])]
  BY <1>1 DEF Translate, PerDir
<1>. QED
  BY <1>1, <1>2, <1>3 DEF LuidMap

LEMMA TypeStep == TypeOK /\ [Next]_vars => TypeOK'
<1>. SUFFICES ASSUME TypeOK, [Next]_vars PROVE TypeOK'
  OBVIOUS
<1>0. \A T : LuidMap(Empty, T)
  BY DEF LuidMap, Empty
<1>1. CASE Tick
  BY <1>1 DEF Tick, monitor, TypeOK, LuidMap
<1>2. ASSUME NEW l \in Luids, NEW d \in Dirs, Carry(l, d) PROVE TypeOK'
  <2>1. carried' \in [Luids -> PerDir(Nat)]
    BY <1>2 DEF Carry, TypeOK, PerDir
  <2>2. octets' \in [Luids -> PerDir(0 .. CounterSize - 1)] /\ epoch' \in [Luids -> Nat]
    <3>0. octets[l][d] \in Nat /\ octets \in [Luids -> PerDir(0 .. CounterSize - 1)]
      BY CounterAssumption DEF TypeOK, PerDir
    <3>1. CASE octets[l][d] + 1 < CounterSize
      <4>1. octets' = [octets EXCEPT ![l][d] = octets[l][d] + 1] /\ epoch' = epoch
        BY <1>2, <3>1 DEF Carry
      <4>2. octets[l][d] + 1 \in 0 .. CounterSize - 1
        BY <3>0, <3>1, CounterAssumption
      <4>. QED
        BY <3>0, <4>1, <4>2 DEF TypeOK, PerDir
    <3>2. CASE ~(octets[l][d] + 1 < CounterSize)
      <4>1. octets' = [octets EXCEPT ![l][d] = 0] /\ epoch' = [epoch EXCEPT ![l] = epoch[l] + 1]
        BY <1>2, <3>2 DEF Carry
      <4>2. 0 \in 0 .. CounterSize - 1
        BY CounterAssumption
      <4>. QED
        BY <3>0, <4>1, <4>2 DEF TypeOK, PerDir
    <3>. QED
      BY <3>1, <3>2
  <2>. QED
    BY <1>2, <2>1, <2>2 DEF Carry, monitor, TypeOK, LuidMap
<1>3. ASSUME NEW l \in Luids, LinkChange(l) \/ Remove(l) PROVE TypeOK'
  BY <1>3 DEF LinkChange, Remove, monitor, TypeOK, LuidMap
<1>4. ASSUME NEW l \in Luids, Restart(l) \/ Appear(l) PROVE TypeOK'
  <2>1. Nothing \in PerDir(0 .. CounterSize - 1)
    BY CounterAssumption DEF Nothing, PerDir
  <2>2. octets' \in [Luids -> PerDir(0 .. CounterSize - 1)]
    BY <1>4, <2>1 DEF Restart, Appear, TypeOK
  <2>3. epoch' \in [Luids -> Nat]
    BY <1>4 DEF Restart, Appear, TypeOK
  <2>. QED
    BY <1>4, <2>2, <2>3 DEF Restart, Appear, monitor, TypeOK, LuidMap
<1>5. CASE TableFails
  BY <1>0, <1>5 DEF TableFails, system, TypeOK, LuidMap
<1>6. CASE ReadTable
  <2>1. LuidMap(raw', ReadingType) /\ shown' \subseteq DOMAIN raw'
    <3>1. \A l \in Luids : octets[l] \in PerDir(Nat) /\ carried[l] \in PerDir(Nat)
                           /\ epoch[l] \in Nat
      BY CounterAssumption DEF TypeOK, PerDir
    <3>. QED
      BY <1>6, <3>1 DEF ReadTable, TypeOK, LuidMap, ReadingType
  <2>. QED
    BY <1>0, <1>6, <2>1 DEF ReadTable, system, TypeOK, LuidMap
<1>7. CASE Finish
  <2>. DEFINE rows == Translate(clock - prevTime)
  <2>1. clock - prevTime \in Int
    BY DEF TypeOK
  <2>2. LuidMap(rows, PerDir([num : Nat, den : Nat \ {0}]))
        /\ \A l \in shown, d \in Dirs : rows[l][d].num \in Nat
    BY <2>1, TranslateRows
  <2>3. reported' \in [Luids -> PerDir(Nat)]
    BY <1>7, <2>2 DEF Finish, TypeOK, PerDir
  <2>4. /\ LuidMap(prevBytes', ReadingType)
        /\ LuidMap(raw', ReadingType) /\ shown' \subseteq DOMAIN raw'
    BY <1>0, <1>7 DEF Finish, Baseline, TypeOK
  <2>. QED
    BY <1>7, <2>2, <2>3, <2>4 DEF Finish, system, TypeOK
<1>8. CASE UNCHANGED vars
  BY <1>8 DEF vars, TypeOK, LuidMap
<1>. QED
  BY <1>1, <1>2, <1>3, <1>4, <1>5, <1>6, <1>7, <1>8 DEF Next
-----------------------------------------------------------------------------
\* Whatever the interfaces do, they keep following a reading made earlier.
LEMMA SystemFollows ==
    ASSUME TypeOK, NEW l \in Luids, NEW r \in ReadingType,
           Follows(octets[l], carried[l], epoch[l], r),
           Tick \/ \E k \in Luids : \/ \E d \in Dirs : Carry(k, d)
                                    \/ LinkChange(k) \/ Restart(k) \/ Remove(k) \/ Appear(k)
    PROVE  Follows(octets'[l], carried'[l], epoch'[l], r)
<1>0. /\ r.epoch \in Nat /\ epoch[l] \in Nat
      /\ \A d \in Dirs : {r.octets[d], r.carried[d], octets[l][d], carried[l][d]} \subseteq Nat
  BY CounterAssumption DEF TypeOK, ReadingType, PerDir
<1>1. CASE octets'[l] = octets[l] /\ carried'[l] = carried[l] /\ epoch'[l] = epoch[l]
  BY <1>1
\* A counter that starts again is past no reading, except one of 0.
<1>2. CASE octets'[l] = Nothing /\ carried'[l] = carried[l] /\ epoch'[l] = epoch[l] + 1
  BY <1>0, <1>2 DEF Follows, Nothing
<1>3. ASSUME NEW d \in Dirs, Carry(l, d)
      PROVE  Follows(octets'[l], carried'[l], epoch'[l], r)
  <2>1. /\ carried'[l][d] = carried[l][d] + 1
        /\ \A c \in Dirs : c # d => carried'[l][c] = carried[l][c]
    BY <1>3 DEF Carry, TypeOK, PerDir
  <2>2. CASE octets[l][d] + 1 < CounterSize
    <3>1. /\ octets'[l][d] = octets[l][d] + 1 /\ epoch'[l] = epoch[l]
          /\ \A c \in Dirs : c # d => octets'[l][c] = octets[l][c]
      BY <1>3, <2>2 DEF Carry, TypeOK, PerDir
    <3>. QED
      BY <1>0, <2>1, <3>1 DEF Follows
  <2>3. CASE ~(octets[l][d] + 1 < CounterSize)
    <3>1. /\ octets'[l][d] = 0 /\ epoch'[l] = epoch[l] + 1
          /\ \A c \in Dirs : c # d => octets'[l][c] = octets[l][c]
      BY <1>3, <2>3 DEF Carry, TypeOK, PerDir
    <3>. QED
      BY <1>0, <2>1, <3>1 DEF Follows
  <2>. QED
    BY <2>2, <2>3
<1>4. CASE Tick
  BY <1>1, <1>4 DEF Tick
<1>5. ASSUME NEW k \in Luids, LinkChange(k) \/ Remove(k)
      PROVE  Follows(octets'[l], carried'[l], epoch'[l], r)
  BY <1>1, <1>5 DEF LinkChange, Remove
<1>6. ASSUME NEW k \in Luids, Restart(k) \/ Appear(k)
      PROVE  Follows(octets'[l], carried'[l], epoch'[l], r)
  BY <1>1, <1>2, <1>6 DEF Restart, Appear, TypeOK
<1>7. ASSUME NEW k \in Luids, NEW d \in Dirs, Carry(k, d), k # l
      PROVE  Follows(octets'[l], carried'[l], epoch'[l], r)
  BY <1>1, <1>7 DEF Carry, TypeOK
<1>. QED
  BY <1>3, <1>4, <1>5, <1>6, <1>7

LEMMA FollowStep == TypeOK /\ FollowInv /\ [Next]_vars => FollowInv'
<1>. SUFFICES ASSUME TypeOK, FollowInv, [Next]_vars PROVE FollowInv'
  OBVIOUS
<1>0. /\ DOMAIN raw \subseteq Luids /\ \A l \in DOMAIN raw : raw[l] \in ReadingType
      /\ DOMAIN prevBytes \subseteq Luids
      /\ \A l \in DOMAIN prevBytes : prevBytes[l] \in ReadingType
  BY DEF TypeOK, LuidMap
<1>1. CASE Tick \/ \E l \in Luids : \/ \E d \in Dirs : Carry(l, d)
                                   \/ LinkChange(l) \/ Restart(l) \/ Remove(l) \/ Appear(l)
  <2>1. raw' = raw /\ prevBytes' = prevBytes
    BY <1>1 DEF Tick, Carry, LinkChange, Restart, Remove, Appear, monitor
  <2>. QED
    BY <1>0, <1>1, <2>1, SystemFollows DEF FollowInv
<1>2. CASE TableFails
  BY <1>2 DEF TableFails, system, FollowInv
<1>3. CASE ReadTable
  <2>1. /\ octets' = octets /\ carried' = carried /\ epoch' = epoch
        /\ prevBytes' = prevBytes
        /\ DOMAIN raw' \subseteq Luids
        /\ \A l \in DOMAIN raw' : /\ raw'[l].octets = octets[l]
                                  /\ raw'[l].carried = carried[l]
                                  /\ raw'[l].epoch = epoch[l]
    BY <1>3 DEF ReadTable, system, TypeOK
  <2>2. \A l \in Luids : /\ epoch[l] \in Nat
                         /\ \A d \in Dirs : octets[l][d] \in Nat /\ carried[l][d] \in Nat
    BY CounterAssumption DEF TypeOK, PerDir
  <2>3. \A l \in DOMAIN raw' : Follows(octets[l], carried[l], epoch[l], raw'[l])
    BY <2>1, <2>2 DEF Follows
  <2>. QED
    BY <1>0, <2>1, <2>3 DEF FollowInv
<1>4. CASE Finish
  <2>1. /\ octets' = octets /\ carried' = carried /\ epoch' = epoch
        /\ prevBytes' = raw /\ DOMAIN raw' = {}
    BY <1>4 DEF Finish, Baseline, system, Empty
  <2>. QED
    BY <2>1 DEF FollowInv
<1>5. CASE UNCHANGED vars
  BY <1>5 DEF vars, FollowInv
<1>. QED
  BY <1>1, <1>2, <1>3, <1>4, <1>5 DEF Next

LEMMA ReportStep == TypeOK /\ FollowInv /\ ReportInv /\ [Next]_vars => ReportInv'
<1>. SUFFICES ASSUME TypeOK, FollowInv, ReportInv, [Next]_vars,
                     NEW l \in Luids, NEW d \in Dirs
              PROVE  /\ reported'[l][d] <= carried'[l][d]
                     /\ l \in DOMAIN raw' => reported'[l][d] <= raw'[l].carried[d]
                     /\ l \in DOMAIN prevBytes' => reported'[l][d] <= prevBytes'[l].carried[d]
  BY DEF ReportInv
<1>0. /\ reported[l][d] \in Nat /\ carried[l][d] \in Nat
      /\ l \in DOMAIN raw => raw[l].carried[d] \in Nat /\ raw[l].octets[d] \in Nat
      /\ l \in DOMAIN prevBytes =>
            prevBytes[l].carried[d] \in Nat /\ prevBytes[l].octets[d] \in Nat
  BY DEF TypeOK, LuidMap, ReadingType, PerDir
<1>1. CASE Tick \/ \E k \in Luids : LinkChange(k) \/ Restart(k) \/ Remove(k) \/ Appear(k)
  BY <1>1 DEF Tick, LinkChange, Restart, Remove, Appear, monitor, ReportInv
<1>2. ASSUME NEW k \in Luids, NEW c \in Dirs, Carry(k, c)
      PROVE  /\ carried'[l][d] \in Nat /\ carried'[l][d] >= carried[l][d]
             /\ reported' = reported /\ raw' = raw /\ prevBytes' = prevBytes
  BY <1>0, <1>2 DEF Carry, monitor, TypeOK, PerDir
<1>3. CASE \E k \in Luids, c \in Dirs : Carry(k, c)
  BY <1>0, <1>2, <1>3 DEF ReportInv
<1>4. CASE TableFails
  BY <1>4 DEF TableFails, system, ReportInv
<1>5. CASE ReadTable
  BY <1>5 DEF ReadTable, system, ReportInv
<1>6. CASE Finish
  <2>. DEFINE rows == Translate(clock - prevTime)
  <2>1. /\ carried' = carried /\ DOMAIN raw' = {} /\ prevBytes' = raw
        /\ reported'[l][d] = reported[l][d] + IF l \in shown THEN rows[l][d].num ELSE 0
    BY <1>6 DEF Finish, Baseline, system, Empty
  <2>2. CASE l \notin shown
    BY <1>0, <2>1, <2>2 DEF ReportInv
  <2>3. CASE l \in shown
    <3>1. l \in DOMAIN raw
      BY <2>3 DEF TypeOK
    <3>2. clock - prevTime \in Int
      BY DEF TypeOK
    <3>3. CASE l \notin DOMAIN prevBytes
      <4>1. rows[l][d].num = 0
        BY <2>3, <3>2, <3>3, TranslateRows
      <4>. QED
        BY <1>0, <2>1, <2>3, <4>1 DEF ReportInv
    <3>4. CASE l \in DOMAIN prevBytes
      <4>1. rows[l][d]
              = RatePerSecond(prevBytes[l].octets[d], raw[l].octets[d], clock - prevTime)
        BY <2>3, <3>2, <3>4, TranslateRows
      <4>2. \/ rows[l][d].num = 0
            \/ /\ raw[l].octets[d] >= prevBytes[l].octets[d]
               /\ rows[l][d].num = raw[l].octets[d] - prevBytes[l].octets[d]
        BY <1>0, <3>1, <3>2, <3>4, <4>1, Rate
      <4>3. raw[l].octets[d] >= prevBytes[l].octets[d]
              => raw[l].octets[d] - prevBytes[l].octets[d]
                   <= raw[l].carried[d] - prevBytes[l].carried[d]
        BY <3>1, <3>4 DEF FollowInv, Follows
      <4>4. raw[l].carried[d] <= carried[l][d]
        BY <3>1 DEF FollowInv, Follows
      <4>. QED
        BY <1>0, <2>1, <2>3, <3>1, <3>4, <4>2, <4>3, <4>4 DEF ReportInv
    <3>. QED
      BY <3>3, <3>4
  <2>. QED
    BY <2>2, <2>3
<1>7. CASE UNCHANGED vars
  BY <1>7 DEF vars, ReportInv
<1>. QED
  BY <1>1, <1>3, <1>4, <1>5, <1>6, <1>7 DEF Next

LEMMA Inductive == Spec => []IInv
<1>1. Init => IInv
  <2>. SUFFICES ASSUME Init PROVE IInv
    OBVIOUS
  <2>1. \A T : LuidMap(Empty, T)
    BY DEF LuidMap, Empty
  <2>2. /\ octets \in [Luids -> PerDir(0 .. CounterSize - 1)]
        /\ carried \in [Luids -> PerDir(Nat)] /\ reported \in [Luids -> PerDir(Nat)]
        /\ epoch \in [Luids -> Nat]
    BY CounterAssumption DEF Init, Nothing, PerDir
  <2>3. TypeOK
    BY <2>1, <2>2 DEF Init, TypeOK, Empty
  <2>4. FollowInv /\ ReportInv /\ BaselineInv
    BY DEF BaselineInv, Init, FollowInv, ReportInv, Empty, Nothing
  <2>. QED
    BY <2>3, <2>4 DEF IInv
<1>2. BaselineInv /\ [Next]_vars => BaselineInv'
  BY DEF BaselineInv, Baseline, Next, Tick, Carry, LinkChange, Restart, Remove, Appear, TableFails, ReadTable,
         Finish, monitor, vars
<1>3. IInv /\ [Next]_vars => IInv'
  BY <1>2, TypeStep, FollowStep, ReportStep DEF IInv
<1>. QED
  BY <1>1, <1>3, PTL DEF Spec
-----------------------------------------------------------------------------
\* Every variable keeps its type; no row ever shows a negative rate.
THEOREM TypeCorrect == Spec => []TypeOK
<1>1. IInv => TypeOK
  BY DEF IInv
<1>. QED
  BY Inductive, <1>1, PTL

\* Over all samples no interface is shown more octets than it carried.
THEOREM NoTrafficMadeUp == Spec => []NeverOverReports
<1>1. IInv => NeverOverReports
  BY DEF IInv, ReportInv, NeverOverReports
<1>. QED
  BY Inductive, <1>1, PTL

\* An interface whose counters ran on is shown with exactly what it carried
\* between the last two tables, over the time since the last success.
THEOREM NoTrafficLost == Spec => NothingMissed
<1>. DEFINE Exact ==
       pc = "read" /\ pc' = "idle" /\ clock > lastEnd =>
         \A l \in shown \cap DOMAIN lastTable :
            raw[l].epoch = lastTable[l].epoch =>
               \A d \in Dirs :
                  result'.rows[l][d] = Ratio(raw[l].carried[d] - lastTable[l].carried[d],
                                             clock - lastEnd)
<1>1. IInv /\ [Next]_vars => [Exact]_vars
  <2>. SUFFICES ASSUME IInv, [Next]_vars, pc = "read", pc' = "idle", clock > lastEnd,
                       NEW l \in shown \cap DOMAIN prevBytes,
                       raw[l].epoch = prevBytes[l].epoch, NEW d \in Dirs
                PROVE  result'.rows[l][d]
                         = Ratio(raw[l].carried[d] - prevBytes[l].carried[d], clock - lastEnd)
    BY DEF IInv, BaselineInv
  <2>1. Finish
    BY DEF Next, Tick, Carry, LinkChange, Restart, Remove, Appear, TableFails, ReadTable,
           monitor, vars
  <2>2. /\ l \in DOMAIN raw
        /\ {raw[l].octets[d], prevBytes[l].octets[d],
            raw[l].carried[d], prevBytes[l].carried[d], clock, lastEnd} \subseteq Nat
    BY DEF IInv, TypeOK, LuidMap, ReadingType, PerDir
  <2>3. /\ prevBytes[l].carried[d] <= raw[l].carried[d]
        /\ raw[l].octets[d] - prevBytes[l].octets[d]
             = raw[l].carried[d] - prevBytes[l].carried[d]
    BY <2>2 DEF IInv, FollowInv, Follows
  <2>4. result'.rows[l][d]
          = RatePerSecond(prevBytes[l].octets[d], raw[l].octets[d], clock - lastEnd)
    <3>1. result'.rows = Translate(clock - lastEnd) /\ clock - lastEnd \in Int
      BY <2>1, <2>2 DEF Finish, IInv, BaselineInv
    <3>. QED
      BY <3>1, TranslateRows DEF IInv
  <2>5. clock - lastEnd \in Int /\ clock - lastEnd > 0
        /\ raw[l].octets[d] >= prevBytes[l].octets[d]
    BY <2>2, <2>3
  <2>6. result'.rows[l][d]
          = Ratio(raw[l].octets[d] - prevBytes[l].octets[d], clock - lastEnd)
    BY <2>2, <2>4, <2>5, Rate
  <2>. QED
    BY <2>3, <2>6
<1>. QED
  BY Inductive, <1>1, PTL DEF Spec, NothingMissed
=============================================================================
