---------------------------- MODULE DiskMonitor ----------------------------
(***************************************************************************)
(* src/src/platform/windows/disk_monitor.cpp over drives whose medium      *)
(* comes, goes and is exchanged while they are being queried.              *)
(*                                                                         *)
(* A query of a drive without a medium puts up a modal dialog and blocks   *)
(* until somebody answers it, unless the thread's error mode says          *)
(* SEM_FAILCRITICALERRORS, "quiet" here.  The mode a thread starts with is *)
(* inherited from the parent process and may be either.                    *)
(***************************************************************************)
EXTENDS Integers

CONSTANTS
    Letters,    \* drive letters: some of 0 .. 25
    Media,      \* volumes that may be in a drive
    NoDrive,    \* what is at a letter that is no drive,
    Vacant,     \* and in a drive that is empty
    Fits        \* what may be at each letter: a fixed disk only ever holds itself

Contents == Media \cup {NoDrive, Vacant}

ASSUME LetterAssumption == Letters \subseteq 0 .. 25
ASSUME MediaAssumption  == {NoDrive, Vacant} \cap Media = {} /\ NoDrive # Vacant
ASSUME FitsAssumption   == Fits \in [Letters -> SUBSET Contents]

VARIABLES
    medium,     \* per letter, the volume in the drive, Vacant or NoDrive
    mode,       \* the thread's error mode, "dialog" or "quiet"
    step,       \* in sample(): "idle", "mode", "space", "name" or "restore"
    dialog,     \* a dialog is up: the query of this step blocks
    mask,       \* drive_mask, as the set of letters not yet visited
    modeSet,    \* error_mode_set
    savedMode,  \* previous_error_mode
    query,      \* q, of the letter being visited
    rawDisks,   \* raw, as a map from the letters visited
    volumes     \* what sample() returned last: [status, rows]

\* History variables.
VARIABLES
    inherited,  \* the error mode the caller had set
    restoreFailed,  \* a call that was to restore it has failed, in any sample()
    seen,       \* per letter, what has been in it since sample() was called
    refused     \* letters whose medium failed a query in that time

diskVars == <<medium, mode, step, dialog, mask, modeSet, savedMode, query,
              rawDisks, volumes, inherited, restoreFailed, seen, refused>>
world == <<medium, inherited, restoreFailed>>

\* A query's answers name the medium that gave them; NoDrive stands for the
\* initial values of RawVolumeQuery: false, zeros and the empty string.
NoQuery == [space |-> NoDrive, filesystem |-> NoDrive]
NoRows  == [d \in {} |-> NoQuery]

\* The letter being visited: the loop goes through them in order.
Letter == CHOOSE d \in mask : \A e \in mask : d <= e
-----------------------------------------------------------------------------
DiskInit ==
    /\ medium \in {c \in [Letters -> Contents] : \A d \in Letters : c[d] \in Fits[d]}
    /\ mode \in {"dialog", "quiet"}
    /\ step = "idle"
    /\ dialog = FALSE
    /\ mask = {}
    /\ modeSet = FALSE
    /\ savedMode = "dialog"
    /\ query = NoQuery
    /\ rawDisks = NoRows
    /\ volumes = [status |-> "none", rows |-> NoRows]
    /\ inherited = mode
    /\ restoreFailed = FALSE
    /\ seen = [d \in Letters |-> {}]
    /\ refused = {}

\* A medium is inserted, taken out or exchanged, or the drive itself comes or
\* goes.
Change(d) ==
    /\ \E m \in Fits[d] \ {medium[d]} :
           /\ medium' = [medium EXCEPT ![d] = m]
           /\ seen' = IF step = "idle" THEN seen
                      ELSE [seen EXCEPT ![d] = @ \cup {m}]
    /\ UNCHANGED <<mode, step, dialog, mask, modeSet, savedMode, query, rawDisks,
                   volumes, inherited, restoreFailed, refused>>
-----------------------------------------------------------------------------
(* sample() *)

\* GetLogicalDrives: an empty mask is a failure.
ListDrives ==
    /\ step = "idle"
    /\ seen' = [d \in Letters |-> {medium[d]}]
    /\ refused' = {}
    /\ rawDisks' = NoRows
    /\ \E present \in {{}, {d \in Letters : medium[d] # NoDrive}} :
          /\ mask' = present
          /\ step' = IF present = {} THEN "idle" ELSE "mode"
          /\ volumes' = [status |-> IF present = {} THEN "failed" ELSE "none",
                         rows   |-> NoRows]
    /\ UNCHANGED <<world, mode, dialog, modeSet, savedMode, query>>

\* Mutated: another flag, which does not cover critical errors.
ModeToSet_WrongFlag == mode
ModeToSet == "quiet"

\* SetThreadErrorMode may fail: previous_error_mode is then still 0.
SetMode ==
    /\ step = "mode"
    /\ step' = "space"
    /\ modeSet' \in BOOLEAN
    /\ savedMode' = IF modeSet' THEN mode ELSE "dialog"
    /\ mode' = IF modeSet' THEN ModeToSet ELSE mode
    /\ UNCHANGED <<world, dialog, mask, query, rawDisks, volumes, seen, refused>>

\* What a query of the letter may answer: the medium in it, or NoDrive for a
\* failure.
Answers   == {NoDrive} \cup ({medium[Letter]} \cap Media)
Refuse(m) == refused' = IF m = NoDrive /\ medium[Letter] \in Media
                        THEN refused \cup {Letter} ELSE refused

\* Mutated: q and fs_name are declared before the loop.
FreshQuery_Hoisted == query
FreshQuery == NoQuery

\* GetDiskFreeSpaceExW answered m; GetVolumeInformationW is next.
SpaceKnown(m) ==
    /\ step = "space"
    /\ step' = "name"
    /\ query' = IF m = NoDrive THEN query ELSE [query EXCEPT !.space = m]
    /\ UNCHANGED <<world, mode, mask, modeSet, savedMode, rawDisks, volumes, seen>>

\* Mutated: `break` after a space query that failed.
Rest_Break == IF query.space = NoDrive THEN {} ELSE mask \ {Letter}
\* The letters still to visit.
Rest == mask \ {Letter}

\* Mutated: the mode is restored inside the loop.
ModeBetween_Restored == IF modeSet THEN savedMode ELSE mode
ModeBetween == mode

\* GetVolumeInformationW answered m: q is complete.  (narrow_or_empty leaves
\* the name empty where it cannot convert it: as if the query had failed.)
NameKnown(m) ==
    /\ step = "name"
    /\ LET q == IF m = NoDrive THEN query ELSE [query EXCEPT !.filesystem = m]
       IN  rawDisks' = [d \in DOMAIN rawDisks \cup {Letter} |->
                            IF d = Letter THEN q ELSE rawDisks[d]]
    /\ query' = FreshQuery
    /\ mask' = Rest
    /\ step' = IF Rest = {} THEN "restore" ELSE "space"
    /\ mode' = ModeBetween
    /\ UNCHANGED <<world, modeSet, savedMode, volumes, seen>>

\* The query of this step blocks behind a dialog.
Blocks == medium[Letter] = Vacant /\ mode = "dialog"

Query ==
    /\ step \in {"space", "name"} /\ ~dialog /\ ~Blocks
    /\ \E m \in Answers : Refuse(m) /\ (SpaceKnown(m) \/ NameKnown(m))
    /\ UNCHANGED dialog

AskUser ==
    /\ step \in {"space", "name"} /\ ~dialog /\ Blocks
    /\ dialog' = TRUE
    /\ UNCHANGED <<world, mode, step, mask, modeSet, savedMode, query, rawDisks,
                   volumes, seen, refused>>

\* Somebody answers the dialog: "Cancel" fails the query, even if there is a
\* medium by now, "Try Again" makes it once more.
Cancel ==
    /\ dialog
    /\ dialog' = FALSE
    /\ Refuse(NoDrive) /\ (SpaceKnown(NoDrive) \/ NameKnown(NoDrive))

TryAgain ==
    /\ dialog
    /\ dialog' = FALSE
    /\ UNCHANGED <<world, mode, step, mask, modeSet, savedMode, query, rawDisks,
                   volumes, seen, refused>>

\* translate(): a drive whose space query failed is left out.
TranslateDisks(raw) ==
    LET shown == {d \in DOMAIN raw : raw[d].space # NoDrive}
    IN  [d \in shown |-> raw[d]]

\* Mutated: previous_error_mode is restored even where it was never filled in.
Restored_Always(fails) == IF fails THEN mode ELSE savedMode
Restored(fails) == IF modeSet /\ ~fails THEN savedMode ELSE mode

\* The restoring SetThreadErrorMode may fail like the first one; nobody looks.
ReturnDisks ==
    /\ step = "restore"
    /\ step' = "idle"
    /\ \E fails \in BOOLEAN :
          /\ mode' = Restored(fails)
          /\ restoreFailed' = (restoreFailed \/ (modeSet /\ fails))
    /\ modeSet' = FALSE
    /\ volumes' = [status |-> "ok", rows |-> TranslateDisks(rawDisks)]
    /\ UNCHANGED <<medium, inherited, dialog, mask, savedMode, query, rawDisks, seen,
                   refused>>

\* The steps of sample() after GetLogicalDrives that wait for nobody.
DiskStep == SetMode \/ Query \/ AskUser \/ ReturnDisks
UserStep == Cancel \/ TryAgain

DiskNext ==
    \/ ListDrives \/ DiskStep \/ UserStep
    \/ \E d \in Letters : Change(d)

DiskSpec == DiskInit /\ [][DiskNext]_diskVars
-----------------------------------------------------------------------------
(* Properties. *)

\* Every variable keeps its type, and no answer outlives the letter it was
\* given for.
DiskTypeOK ==
    /\ medium \in [Letters -> Contents]
    /\ mode \in {"dialog", "quiet"} /\ savedMode \in {"dialog", "quiet"}
    /\ inherited \in {"dialog", "quiet"} /\ restoreFailed \in BOOLEAN
    /\ step \in {"idle", "mode", "space", "name", "restore"}
    /\ dialog \in BOOLEAN /\ modeSet \in BOOLEAN
    /\ mask \subseteq Letters /\ refused \subseteq Letters
    /\ step \in {"mode", "space", "name"} => mask # {}
    /\ query \in [space : Media \cup {NoDrive}, filesystem : {NoDrive}]
    /\ step # "name" => query = NoQuery
    /\ DOMAIN rawDisks \subseteq Letters
    /\ \A d \in DOMAIN rawDisks :
          rawDisks[d] \in [space : Media \cup {NoDrive}, filesystem : Media \cup {NoDrive}]
    /\ volumes.status \in {"none", "failed", "ok"}
    /\ seen \in [Letters -> SUBSET Contents]

\* What the thread's error mode is between samples: the caller's own, whether
\* or not it could be changed and whatever failed on the way, until the call
\* that restores it (L82) fails once; from then on quiet for good, for every
\* later sample saves that mode as the caller's (L49-L50, L81-L83).  At no time
\* does a caller who turned the dialogs off get them back.
ModeRestored ==
    /\ step = "idle" => mode = IF restoreFailed THEN "quiet" ELSE inherited
    /\ mode \in {inherited, "quiet"}

\* An unattended machine never blocks: a dialog comes up only where the mode
\* could not be changed and the caller's own mode asks for dialogs, for every
\* drive visited (the comment at L40-L48).
UnattendedNeverBlocks == dialog => ~modeSet /\ inherited = "dialog"

\* A row never mixes in what another drive answered, nor a medium that was not
\* in the drive during this sample; the size and the file system may still be
\* those of two media exchanged in between.
RowsAreTheDrives ==
    volumes.status = "ok" =>
        \A d \in DOMAIN volumes.rows :
            /\ volumes.rows[d].space \in seen[d] \cap Media
            /\ volumes.rows[d].filesystem \in (seen[d] \cap Media) \cup {NoDrive}

\* No drive is lost to another's failure: each one that held the same medium
\* all along, and refused no query, has a row with the size and the file
\* system of that medium; one that held none has no row.
EveryDriveShown ==
    volumes.status = "ok" /\ step = "idle" =>
        \A d \in Letters \ refused : \A m \in Contents :
            seen[d] = {m} =>
                /\ d \in DOMAIN volumes.rows <=> m \in Media
                /\ m \in Media => volumes.rows[d] = [space |-> m, filesystem |-> m]
=============================================================================
