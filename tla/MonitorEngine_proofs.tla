------------------------ MODULE MonitorEngine_proofs ------------------------
(***************************************************************************)
(* The safety properties of MonitorEngine and of the disk monitor in it,   *)
(* for any drives, any media and any pattern of failures.                  *)
(***************************************************************************)
EXTENDS MonitorEngine, WellFoundedInduction, TLAPS

(***************************************************************************)
(* The inductive invariant, in three parts.  The error mode is the one     *)
(* found on entry unless sample() has changed it, and then that one is in  *)
(* savedMode; it is the caller's until a restoring call has failed, quiet  *)
(* from then on.  What has been recorded of a drive comes from a medium    *)
(* that was in it; and as long as only one medium was, and it refused      *)
(* nothing, that medium is recorded.  Between two polls the six sections   *)
(* are there.                                                              *)
(***************************************************************************)
\* What a sample finds, and leaves behind.
ModeOnEntry == IF restoreFailed THEN "quiet" ELSE inherited

ModeInv ==
    /\ modeSet => /\ step \in {"space", "name", "restore"}
                  /\ mode = "quiet" /\ savedMode = ModeOnEntry
    /\ ~modeSet => mode = ModeOnEntry
    /\ dialog => step \in {"space", "name"} /\ mode = "dialog"

\* An answer of drive d is a medium that was in it, or no answer.
From(answer, d) == answer \in (seen[d] \cap Media) \cup {NoDrive}

Undisturbed(d, m) == d \in Letters \ refused /\ m \in Media /\ seen[d] = {m}

VisitInv ==
    /\ step # "idle" => \A d \in Letters : medium[d] \in seen[d]
    /\ step # "idle" => \A d \in Letters : \A m \in Media :
          seen[d] = {m} => d \in mask \cup DOMAIN rawDisks
    /\ step = "name" =>
          /\ From(query.space, Letter)
          /\ \A m \in Media : Undisturbed(Letter, m) => query.space = m
    /\ step # "idle" => \A d \in DOMAIN rawDisks :
          /\ From(rawDisks[d].space, d) /\ From(rawDisks[d].filesystem, d)
          /\ \A m \in Media :
                Undisturbed(d, m) => rawDisks[d] = [space |-> m, filesystem |-> m]
    /\ step = "restore" => mask = {}

ResultInv == volumes.status = "ok" => step = "idle"

SectionInv ==
    /\ section \in DOMAIN After \cup {"idle"}
    /\ step # "idle" => section = "disks"
    /\ section = "cpu"       => DOMAIN snapshot = {}
    /\ section = "memory"    => DOMAIN snapshot = {"cpu"}
    /\ section = "disks"     => DOMAIN snapshot = {"cpu", "memory"}
    /\ section = "processes" => DOMAIN snapshot = {"cpu", "memory", "disks"}
    /\ section = "network"   => DOMAIN snapshot = {"cpu", "memory", "disks", "processes"}
    /\ section = "system"    => DOMAIN snapshot = DOMAIN After \ {"system"}
    /\ section = "idle" => snapshot = <<>> \/ DOMAIN snapshot = DOMAIN After

DiskInv == /\ DiskTypeOK /\ ModeInv /\ VisitInv /\ ResultInv
           /\ RowsAreTheDrives /\ EveryDriveShown
-----------------------------------------------------------------------------
\* The loop over the letters visits one of those left (L53-L56).
LEMMA LetterInMask ==
    ASSUME mask \subseteq Letters, mask # {}
    PROVE  Letter \in mask
<1>1. mask \subseteq Nat
  BY LetterAssumption
<1>2. PICK d \in mask : \A e \in mask : ~ (<<e, d>> \in OpToRel(<, Nat))
  BY <1>1, NatLessThanWellFounded, WFMin, Zenon
<1>3. \A e \in mask : <<e, d>> \in Nat \X Nat /\ e < d => <<e, d>> \in OpToRel(<, Nat)
  BY Zenon DEF OpToRel
<1>4. \A e \in mask : e \in Nat /\ d \in Nat /\ ~(e < d)
  BY <1>1, <1>2, <1>3
<1>5. \A e \in mask : d <= e
  BY <1>4
<1>. QED
  BY <1>5 DEF Letter

\* The initial states satisfy the invariant of the disk monitor.
LEMMA DiskInitInv == DiskInit => DiskInv
<1>. SUFFICES ASSUME DiskInit PROVE DiskInv
  OBVIOUS
<1>. USE DEF DiskInit
<1>1. DiskTypeOK
  BY DEF DiskTypeOK, NoRows, NoQuery
<1>2. ModeInv /\ VisitInv /\ ResultInv
  BY DEF ModeInv, ModeOnEntry, VisitInv, ResultInv
<1>3. RowsAreTheDrives /\ EveryDriveShown
  BY DEF RowsAreTheDrives, EveryDriveShown
<1>. QED
  BY <1>1, <1>2, <1>3 DEF DiskInv

\* A medium that comes or goes is added to what has been in its drive.
LEMMA ChangeInv == ASSUME DiskInv, NEW c \in Letters, Change(c) PROVE DiskInv'
<1>. USE DEF DiskInv, Change
<1>0. PICK n \in Contents \ {medium[c]} :
        /\ medium' = [medium EXCEPT ![c] = n]
        /\ seen' = IF step = "idle" THEN seen ELSE [seen EXCEPT ![c] = @ \cup {n}]
  BY FitsAssumption
<1>1. DiskTypeOK'
  BY <1>0 DEF DiskTypeOK
<1>2. ModeInv' /\ ResultInv'
  BY DEF ModeInv, ModeOnEntry, ResultInv
<1>3. Letter' = Letter
  BY DEF Letter
<1>4. /\ \A d \in Letters : seen[d] \subseteq seen'[d]
      /\ \A d \in Letters : \A m : seen'[d] = {m} /\ step # "idle" => seen[d] = {m} /\ d # c
  BY <1>0 DEF DiskTypeOK, VisitInv
<1>5. VisitInv'
  <2>1. (step # "idle" => \A d \in Letters : medium[d] \in seen[d])'
    BY <1>0 DEF VisitInv, DiskTypeOK
  <2>2. (step # "idle" => \A d \in Letters : \A m \in Media :
            seen[d] = {m} => d \in mask \cup DOMAIN rawDisks)'
    BY <1>4 DEF VisitInv
  <2>3. (step = "name" => /\ From(query.space, Letter)
            /\ \A m \in Media : Undisturbed(Letter, m) => query.space = m)'
    <3>. SUFFICES ASSUME step = "name"
         PROVE  (/\ From(query.space, Letter)
                 /\ \A m \in Media : Undisturbed(Letter, m) => query.space = m)'
      OBVIOUS
    <3>1. Letter \in Letters
      BY LetterInMask DEF DiskTypeOK
    <3>. QED
      BY <1>3, <1>4, <3>1 DEF VisitInv, From, Undisturbed
  <2>4. (step # "idle" => \A d \in DOMAIN rawDisks :
            /\ From(rawDisks[d].space, d) /\ From(rawDisks[d].filesystem, d)
            /\ \A m \in Media :
                  Undisturbed(d, m) => rawDisks[d] = [space |-> m, filesystem |-> m])'
    BY <1>4 DEF VisitInv, From, Undisturbed, DiskTypeOK
  <2>5. (step = "restore" => mask = {})'
    BY DEF VisitInv
  <2>. QED
    BY <2>1, <2>2, <2>3, <2>4, <2>5 DEF VisitInv
<1>6. RowsAreTheDrives' /\ EveryDriveShown'
  BY <1>0 DEF RowsAreTheDrives, EveryDriveShown, ResultInv
<1>. QED
  BY <1>1, <1>2, <1>5, <1>6

\* Every drive with a medium is still to be visited when the loop begins.
LEMMA ListDrivesInv == ASSUME DiskInv, ListDrives PROVE DiskInv'
<1>. USE DEF DiskInv, ListDrives
<1>1. /\ mask' \in {{}, {d \in Letters : medium[d] # NoDrive}}
      /\ step' = IF mask' = {} THEN "idle" ELSE "mode"
      /\ volumes'.status = IF mask' = {} THEN "failed" ELSE "none"
  OBVIOUS
<1>2. DiskTypeOK'
  BY <1>1 DEF DiskTypeOK, NoRows, world
<1>3. ModeInv' /\ ResultInv'
  BY <1>1 DEF ModeInv, ModeOnEntry, ResultInv, world
<1>4. VisitInv'
  BY <1>1, MediaAssumption DEF VisitInv, NoRows, world, DiskTypeOK
<1>5. RowsAreTheDrives' /\ EveryDriveShown'
  BY <1>1 DEF RowsAreTheDrives, EveryDriveShown
<1>. QED
  BY <1>2, <1>3, <1>4, <1>5

\* The mode is quiet only where the caller's could be saved.
LEMMA SetModeInv == ASSUME DiskInv, SetMode PROVE DiskInv'
<1>. USE DEF DiskInv, SetMode
<1>1. DiskTypeOK'
  BY DEF DiskTypeOK, ModeToSet, world
<1>2. ModeInv' /\ ResultInv'
  BY DEF ModeInv, ModeOnEntry, ResultInv, world, ModeToSet
<1>3. VisitInv'
  BY DEF VisitInv, world, From, Undisturbed
<1>4. RowsAreTheDrives' /\ EveryDriveShown'
  BY DEF RowsAreTheDrives, EveryDriveShown, ResultInv
<1>. QED
  BY <1>1, <1>2, <1>3, <1>4

\* What a query answers was in the drive; and a drive that held one medium all
\* along, and refused nothing, answers with that medium.
LEMMA AnswerInv ==
    ASSUME DiskInv, step \in {"space", "name"}, NEW m \in Answers, Refuse(m)
    PROVE  /\ Letter \in mask /\ Letter \in Letters
           /\ m \in (seen[Letter] \cap Media) \cup {NoDrive}
           /\ refused \subseteq refused' /\ refused' \subseteq Letters
           /\ \A n \in Media : seen[Letter] = {n} /\ Letter \notin refused' => m = n
<1>1. Letter \in mask /\ Letter \in Letters
  BY LetterInMask DEF DiskInv, DiskTypeOK
<1>2. medium[Letter] \in seen[Letter]
  BY <1>1 DEF DiskInv, VisitInv
<1>3. m = NoDrive \/ (m = medium[Letter] /\ m \in Media)
  BY DEF Answers
<1>4. refused' = IF m = NoDrive /\ medium[Letter] \in Media
                 THEN refused \cup {Letter} ELSE refused
  BY DEF Refuse
<1>5. refused \subseteq Letters
  BY DEF DiskInv, DiskTypeOK
<1>6. \A n \in Media : seen[Letter] = {n} /\ Letter \notin refused' => m = n
  BY <1>2, <1>3, <1>4
<1>. QED
  BY <1>1, <1>2, <1>3, <1>4, <1>5, <1>6

\* The space query of the letter answered, or failed.
LEMMA SpaceKnownInv ==
    ASSUME DiskInv, NEW m \in Answers, Refuse(m), SpaceKnown(m), dialog' = FALSE
    PROVE  DiskInv'
<1>. USE DEF DiskInv, SpaceKnown
<1>1. /\ Letter \in mask /\ Letter \in Letters
      /\ m \in (seen[Letter] \cap Media) \cup {NoDrive}
      /\ refused \subseteq refused' /\ refused' \subseteq Letters
      /\ \A n \in Media : seen[Letter] = {n} /\ Letter \notin refused' => m = n
  BY AnswerInv
<1>2. /\ query = NoQuery /\ query' = [space |-> m, filesystem |-> NoDrive]
      /\ Letter' = Letter /\ UNCHANGED <<seen, rawDisks, mask, medium>>
  BY DEF DiskTypeOK, NoQuery, Letter, world
<1>3. DiskTypeOK'
  BY <1>1, <1>2 DEF DiskTypeOK, world
<1>4. ModeInv' /\ ResultInv'
  BY DEF ModeInv, ModeOnEntry, ResultInv, world
<1>5. VisitInv'
  <2>1. (step = "name" => /\ From(query.space, Letter)
            /\ \A n \in Media : Undisturbed(Letter, n) => query.space = n)'
    BY <1>1, <1>2 DEF From, Undisturbed
  <2>2. (step # "idle" => \A d \in DOMAIN rawDisks :
            /\ From(rawDisks[d].space, d) /\ From(rawDisks[d].filesystem, d)
            /\ \A n \in Media :
                  Undisturbed(d, n) => rawDisks[d] = [space |-> n, filesystem |-> n])'
    BY <1>1, <1>2 DEF VisitInv, From, Undisturbed
  <2>. QED
    BY <1>2, <2>1, <2>2 DEF VisitInv
<1>6. RowsAreTheDrives' /\ EveryDriveShown'
  BY DEF RowsAreTheDrives, EveryDriveShown, ResultInv
<1>. QED
  BY <1>3, <1>4, <1>5, <1>6

\* The volume query of the letter answered, or failed: the row is complete.
LEMMA NameKnownInv ==
    ASSUME DiskInv, NEW m \in Answers, Refuse(m), NameKnown(m), dialog' = FALSE
    PROVE  DiskInv'
<1>. USE DEF DiskInv, NameKnown
<1>1. /\ Letter \in mask /\ Letter \in Letters
      /\ m \in (seen[Letter] \cap Media) \cup {NoDrive}
      /\ refused \subseteq refused' /\ refused' \subseteq Letters
      /\ \A n \in Media : seen[Letter] = {n} /\ Letter \notin refused' => m = n
  BY AnswerInv
<1>. DEFINE q == [space |-> query.space, filesystem |-> m]
<1>2. /\ query \in [space : Media \cup {NoDrive}, filesystem : {NoDrive}]
      /\ query = [space |-> query.space, filesystem |-> NoDrive]
      /\ q = IF m = NoDrive THEN query ELSE [query EXCEPT !.filesystem = m]
  BY DEF DiskTypeOK
<1>. HIDE DEF q
<1>3. /\ rawDisks' = [d \in DOMAIN rawDisks \cup {Letter} |->
                          IF d = Letter THEN q ELSE rawDisks[d]]
      /\ mask' = mask \ {Letter} /\ query' = NoQuery
      /\ step' = IF mask' = {} THEN "restore" ELSE "space"
      /\ UNCHANGED <<medium, inherited, restoreFailed, mode, modeSet, savedMode, volumes,
                     seen>>
  BY <1>2 DEF Rest, FreshQuery, ModeBetween, world
<1>4. q \in [space : Media \cup {NoDrive}, filesystem : Media \cup {NoDrive}]
  BY <1>1, <1>2 DEF q
<1>5. DiskTypeOK'
  <2>1. (\A d \in DOMAIN rawDisks :
            rawDisks[d] \in [space : Media \cup {NoDrive}, filesystem : Media \cup {NoDrive}])'
    BY <1>1, <1>3, <1>4 DEF DiskTypeOK
  <2>2. NoQuery \in [space : Media \cup {NoDrive}, filesystem : {NoDrive}]
    BY DEF NoQuery
  <2>3. DOMAIN rawDisks' \subseteq Letters /\ mask' \subseteq Letters
    BY <1>1, <1>3 DEF DiskTypeOK
  <2>. QED
    BY <1>1, <1>3, <2>1, <2>2, <2>3 DEF DiskTypeOK
<1>6. ModeInv' /\ ResultInv'
  BY <1>3 DEF ModeInv, ModeOnEntry, ResultInv
<1>7. /\ From(q.space, Letter) /\ From(q.filesystem, Letter)
      /\ \A n \in Media : seen[Letter] = {n} /\ Letter \notin refused'
              => q = [space |-> n, filesystem |-> n]
  BY <1>1 DEF VisitInv, From, Undisturbed, q
<1>8. VisitInv'
  <2>1. (step # "idle" => \A d \in Letters : \A n \in Media :
            seen[d] = {n} => d \in mask \cup DOMAIN rawDisks)'
    BY <1>3 DEF VisitInv
  <2>2. ASSUME NEW d \in DOMAIN rawDisks'
        PROVE  (/\ From(rawDisks[d].space, d) /\ From(rawDisks[d].filesystem, d)
                /\ \A n \in Media :
                      Undisturbed(d, n) => rawDisks[d] = [space |-> n, filesystem |-> n])'
    <3>1. CASE d = Letter
      BY <3>1, <1>3, <1>7 DEF From, Undisturbed
    <3>2. CASE d # Letter
      BY <3>2, <1>1, <1>3 DEF VisitInv, From, Undisturbed
    <3>. QED
      BY <3>1, <3>2
  <2>. QED
    BY <1>3, <2>1, <2>2 DEF VisitInv
<1>9. RowsAreTheDrives' /\ EveryDriveShown'
  BY <1>3 DEF RowsAreTheDrives, EveryDriveShown, ResultInv
<1>. QED
  BY <1>5, <1>6, <1>8, <1>9

\* A query that answers at once.
LEMMA QueryInv == ASSUME DiskInv, Query PROVE DiskInv'
<1>1. PICK m \in Answers : Refuse(m) /\ (SpaceKnown(m) \/ NameKnown(m))
  BY DEF Query
<1>2. dialog' = FALSE
  BY DEF Query, DiskInv, DiskTypeOK
<1>. QED
  BY <1>1, <1>2, SpaceKnownInv, NameKnownInv

\* The user gives up: the query failed.
LEMMA CancelInv == ASSUME DiskInv, Cancel PROVE DiskInv'
<1>1. NoDrive \in Answers
  BY DEF Answers
<1>. QED
  BY <1>1, SpaceKnownInv, NameKnownInv DEF Cancel

\* A dialog comes up, or is answered with "Try Again": a query is under way,
\* in the caller's own mode.
LEMMA DialogInv == ASSUME DiskInv, AskUser \/ TryAgain PROVE DiskInv'
<1>. USE DEF DiskInv
<1>1. /\ UNCHANGED <<medium, inherited, restoreFailed, mode, step, mask, modeSet,
                     savedMode, query, rawDisks, volumes, seen, refused>>
      /\ step \in {"space", "name"}
      /\ dialog' \in BOOLEAN /\ (dialog' => mode = "dialog")
  BY DEF AskUser, TryAgain, world, Blocks, ModeInv, ModeOnEntry
<1>2. DiskTypeOK'
  BY <1>1 DEF DiskTypeOK
<1>3. ModeInv' /\ ResultInv'
  BY <1>1 DEF ModeInv, ModeOnEntry, ResultInv
<1>4. Letter' = Letter
  BY <1>1 DEF Letter
<1>5. VisitInv'
  BY <1>1, <1>4 DEF VisitInv, From, Undisturbed
<1>6. RowsAreTheDrives' /\ EveryDriveShown'
  BY <1>1 DEF RowsAreTheDrives, EveryDriveShown
<1>. QED
  BY <1>2, <1>3, <1>5, <1>6

\* The mode found on entry is restored, or stays quiet, and the rows are what VisitInv says of raw.
LEMMA ReturnDisksInv == ASSUME DiskInv, ReturnDisks PROVE DiskInv'
<1>. USE DEF DiskInv, ReturnDisks
<1>. USE DEF ModeOnEntry
<1>0. UNCHANGED <<medium, inherited, dialog, mask, savedMode, query, rawDisks, seen, refused>>
  BY DEF world
<1>a. PICK fails \in BOOLEAN :
        /\ mode' = IF modeSet /\ ~fails THEN savedMode ELSE mode
        /\ restoreFailed' = (restoreFailed \/ (modeSet /\ fails))
  BY DEF Restored
<1>b. /\ mode' \in {"dialog", "quiet"} /\ restoreFailed' \in BOOLEAN
      /\ mode' = ModeOnEntry'
  BY <1>a, <1>0 DEF DiskTypeOK, ModeInv
<1>1. DiskTypeOK'
  BY <1>0, <1>b DEF DiskTypeOK
<1>2. ModeInv' /\ ResultInv'
  BY <1>0, <1>b DEF ModeInv, ModeOnEntry, ResultInv
<1>3. VisitInv'
  BY DEF VisitInv
<1>. DEFINE shown == {d \in DOMAIN rawDisks : rawDisks[d].space # NoDrive}
<1>4. volumes'.status = "ok" /\ volumes'.rows = [d \in shown |-> rawDisks[d]]
  BY DEF TranslateDisks
<1>5. RowsAreTheDrives'
  BY <1>0, <1>4 DEF RowsAreTheDrives, VisitInv, From
<1>6. ASSUME NEW d \in Letters \ refused, NEW m \in Contents, seen[d] = {m}
      PROVE  /\ d \in shown <=> m \in Media
             /\ m \in Media => rawDisks[d] = [space |-> m, filesystem |-> m]
  <2>1. CASE m \in Media
    BY <1>6, <2>1, MediaAssumption DEF VisitInv, Undisturbed
  <2>2. CASE m \notin Media
    BY <1>6, <2>2 DEF VisitInv, From
  <2>. QED
    BY <2>1, <2>2
<1>7. EveryDriveShown'
  <2>. HIDE DEF shown
  <2>. SUFFICES ASSUME NEW d \in Letters \ refused, NEW m \in Contents, seen[d] = {m}
       PROVE  /\ d \in shown <=> m \in Media
              /\ m \in Media => [e \in shown |-> rawDisks[e]][d]
                                  = [space |-> m, filesystem |-> m]
    BY <1>0, <1>4 DEF EveryDriveShown
  <2>. QED
    BY <1>6
<1>. QED
  BY <1>1, <1>2, <1>3, <1>5, <1>7

\* Every step of the disk monitor and of its drives keeps the invariant.
LEMMA DiskStepInv ==
    ASSUME DiskInv,
           ListDrives \/ DiskStep \/ UserStep \/ \E d \in Letters : Change(d)
    PROVE  DiskInv'
BY ListDrivesInv, SetModeInv, QueryInv, CancelInv, DialogInv, ReturnDisksInv, ChangeInv
   DEF DiskStep, UserStep

\* The engine leaves the disk monitor alone while it samples another one.
LEMMA DiskStutterInv == ASSUME DiskInv, UNCHANGED diskVars PROVE DiskInv'
<1>1. UNCHANGED <<medium, inherited, restoreFailed, mode, step, dialog, mask, modeSet,
                  savedMode, query, rawDisks, volumes, seen, refused>>
  BY DEF diskVars
<1>2. Letter' = Letter
  BY <1>1 DEF Letter
<1>. QED
  BY <1>1, <1>2 DEF DiskInv, DiskTypeOK, ModeInv, ModeOnEntry, VisitInv, ResultInv, From, Undisturbed,
       RowsAreTheDrives, EveryDriveShown
-----------------------------------------------------------------------------
\* The section that returns is recorded, and the next one begins.
LEMMA SampledInv ==
    ASSUME SectionInv, step' = "idle", NEW name \in DOMAIN After, NEW st, Sampled(name, st)
    PROVE  SectionInv'
<1>1. /\ section = name
      /\ section' = After[name]
      /\ DOMAIN snapshot' = DOMAIN snapshot \cup {name}
  BY DEF Sampled, Following
<1>. QED
  BY <1>1 DEF SectionInv, After

\* Between two polls all six sections are there, whatever failed in them.
LEMMA EngineStepInv ==
    ASSUME DiskInv, SectionInv, [EngineNext]_engineVars
    PROVE  DiskInv' /\ SectionInv'
<1>1. CASE Poll
  BY <1>1, DiskStutterInv DEF Poll, SectionInv, After, diskVars
<1>2. CASE \E name \in {"cpu", "processes", "network"} : SampleBaseline(name)
  <2>1. PICK name \in {"cpu", "processes", "network"} : SampleBaseline(name)
    BY <1>2
  <2>2. PICK st \in {"ok", "failed"} : Sampled(name, st)
    BY <2>1 DEF SampleBaseline
  <2>3. step' = "idle"
    BY <2>1, <2>2 DEF SampleBaseline, Sampled, SectionInv, diskVars
  <2>. QED
    BY <2>1, <2>2, <2>3, SampledInv, DiskStutterInv DEF SampleBaseline, After
<1>3. CASE SampleMemory
  <2>1. PICK st : Sampled("memory", st)
    BY <1>3 DEF SampleMemory
  <2>2. step' = "idle"
    BY <1>3, <2>1 DEF SampleMemory, Sampled, SectionInv, diskVars
  <2>. QED
    BY <1>3, <2>1, <2>2, SampledInv, DiskStutterInv DEF SampleMemory, After
<1>4. CASE SampleSystem
  <2>1. step' = "idle"
    BY <1>4 DEF SampleSystem, Sampled, SectionInv, diskVars
  <2>. QED
    BY <1>4, <2>1, SampledInv, DiskStutterInv DEF SampleSystem, After
<1>5. CASE SampleDisks
  <2>1. DiskInv'
    BY <1>5, DiskStepInv DEF SampleDisks
  <2>2. CASE step' = "idle"
    BY <1>5, <2>1, <2>2, SampledInv DEF SampleDisks, After
  <2>3. CASE step' # "idle"
    BY <1>5, <2>1, <2>3 DEF SampleDisks, SectionInv
  <2>. QED
    BY <2>1, <2>2, <2>3
<1>6. CASE Environment
  BY <1>6, DiskStepInv DEF Environment, Change, SectionInv
<1>7. CASE UNCHANGED engineVars
  BY <1>7, DiskStutterInv DEF engineVars, diskVars, SectionInv
<1>. QED
  BY <1>1, <1>2, <1>3, <1>4, <1>5, <1>6, <1>7 DEF EngineNext, EngineStep, AnswerDialog

\* The inductive invariant holds throughout every run of the engine.
THEOREM EngineInvariant == EngineSpec => [](DiskInv /\ SectionInv)
<1>1. EngineInit => DiskInv /\ SectionInv
  BY DiskInitInv DEF EngineInit, SectionInv, DiskInit
<1>2. DiskInv /\ SectionInv /\ [EngineNext]_engineVars => (DiskInv /\ SectionInv)'
  BY EngineStepInv
<1>. QED
  BY <1>1, <1>2, PTL DEF EngineSpec

\* Every variable of the disk monitor keeps its type (disk_monitor.cpp
\* L38-L84), and no answer outlives the letter it was given for.
THEOREM DiskTypeCorrect == EngineSpec => []DiskTypeOK
<1>1. DiskInv => DiskTypeOK
  BY DEF DiskInv
<1>. QED
  BY <1>1, EngineInvariant, PTL

\* The caller's error mode is back whenever sample() is not running, whether
\* or not it could be changed and whatever failed in between (L49-L50, L81-L83),
\* until a restoring call fails; from then on the mode is quiet in every sample.
THEOREM ErrorModeRestored == EngineSpec => []ModeRestored
<1>1. DiskInv => ModeRestored
  BY DEF DiskInv, ModeInv, ModeOnEntry, ModeRestored, DiskTypeOK
<1>. QED
  BY <1>1, EngineInvariant, PTL

\* No dialog ever comes up where the mode could be changed (L40-L50).
THEOREM NoUnattendedDialog == EngineSpec => []UnattendedNeverBlocks
<1>1. DiskInv => UnattendedNeverBlocks
  BY DEF DiskInv, ModeInv, ModeOnEntry, UnattendedNeverBlocks
<1>. QED
  BY <1>1, EngineInvariant, PTL

\* No row mixes in another drive's answer (L57-L79), for any number of drives
\* and however their media change during the sample.
THEOREM RowsFromTheirDrive == EngineSpec => []RowsAreTheDrives
<1>1. DiskInv => RowsAreTheDrives
  BY DEF DiskInv
<1>. QED
  BY <1>1, EngineInvariant, PTL

\* Every drive that answered is shown with its own figures, whatever other
\* drives refused (L12-L30, L53-L79).
THEOREM NoDriveLost == EngineSpec => []EveryDriveShown
<1>1. DiskInv => EveryDriveShown
  BY DEF DiskInv
<1>. QED
  BY <1>1, EngineInvariant, PTL

\* A poll that returned sampled all six monitors (engine.cpp L20-L29).
THEOREM NoSectionSkipped == EngineSpec => []EverySectionSampled
<1>1. SectionInv => EverySectionSampled
  BY DEF SectionInv, EverySectionSampled
<1>. QED
  BY <1>1, EngineInvariant, PTL
=============================================================================
