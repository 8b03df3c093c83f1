----------------------------- MODULE SaveGarage -----------------------------
(***************************************************************************)
(* The Save Manager of the launcher (save_manager.cpp) beside the game,    *)
(* which opens the same files: the Adventure EEPROM and one virtual        *)
(* Controller Pak, whose own saves are VirtualPak's.  The launcher works   *)
(* only while no game runs, but the process outlives a game and may start  *)
(* another one.                                                            *)
(*                                                                         *)
(* Every replacement of a save is a task: a list of files with their new   *)
(* images, each backed up to save-backups and then written by WriteAtomic, *)
(* through .importing and .rollback.  Every filesystem call is a step, so  *)
(* that it may fail, and the process end, between any two.                 *)
(*                                                                         *)
(* Images of the Adventure are numbers like those of the Pak.  Exporting   *)
(* writes files that are not opened again and is left out.                 *)
(***************************************************************************)
EXTENDS VirtualPak, Sequences, Functions

CONSTANTS MaxProgress,  \* bound: images of the Adventure
          MaxTasks      \* bound: replacements the player asks for

ASSUME GarageAssumption == MaxProgress \in Nat /\ MaxTasks \in Nat

VARIABLES
    game,       \* whether the game runs or the launcher is shown
    adventure,  \* the Adventure EEPROM on disk
    importing,  \* importing[f]: the .importing file
    rollback,   \* rollback[f]: the .rollback file
    backups,    \* backups[f]: the images in save-backups
    task,       \* the replacement under way
    \* history and bounds
    progress,   \* images of the Adventure so far
    last,       \* the Adventure the player last had, played or installed
    tasks

garageVars == <<game, adventure, importing, rollback, backups, task, progress,
                last, tasks>>
allVars == <<vars, garageVars>>

Files == {"adventure", "pak"}
Mended == -3  \* a torn Adventure whose checksums were repaired

OnDisk(f) == IF f = "pak" THEN main ELSE adventure

Valid(v) == v \notin {Missing, Torn}

(* step is the next call of the task; at counts the entries that are done; *)
(* undo is the entry being rolled back, 0 before that; calls counts the    *)
(* calls that failed.                                                      *)
NoTask == [step |-> "idle", entries |-> << >>, at |-> 0, undo |-> 0,
           original |-> [f \in Files |-> Missing], calls |-> 0]

GarageInit ==
    /\ Init
    /\ game = "launcher"
    /\ adventure = Missing
    /\ importing = [f \in Files |-> Missing]
    /\ rollback = [f \in Files |-> Missing]
    /\ backups = [f \in Files |-> {}]
    /\ task = NoTask
    /\ progress = 0 /\ last = Missing
    /\ tasks = 0

-----------------------------------------------------------------------------
(* The game *)

StartGame ==
    /\ game = "launcher" /\ task.step = "idle"
    /\ game' = "running"
    /\ UNCHANGED <<vars, adventure, importing, rollback, backups, task, progress,
                   last, tasks>>

(* begin_session_directory forgets the Paks only when it changes the       *)
(* directory, which the stock game's is not.                               *)
StopGame ==
    /\ game = "running" /\ pc \in {"idle", "unloaded"}
    /\ game' = "launcher"
    /\ UNCHANGED <<vars, adventure, importing, rollback, backups, task, progress,
                   last, tasks>>

(* The EEPROM is written by the runtime library. *)
PlayAdventure ==
    /\ game = "running" /\ progress < MaxProgress
    /\ progress' = progress + 1
    /\ adventure' = progress + 1
    /\ last' = progress + 1
    /\ UNCHANGED <<vars, game, importing, rollback, backups, task, tasks>>

PlayPak ==
    /\ game = "running"
    /\ \/ Change \/ Reformat \/ Load
       \/ WriteTmp \/ BeginCopy \/ EndCopy \/ RemoveMain \/ Rename
    /\ UNCHANGED garageVars

(* The Pak is damaged from outside while nothing writes it. *)
DamagePak == task.step = "idle" /\ Damage /\ UNCHANGED garageVars

-----------------------------------------------------------------------------
(* The tasks of the launcher *)

Entry(f, v) == [file |-> f, image |-> v]

Begins(entries) ==
    /\ game = "launcher" /\ task.step = "idle" /\ tasks < MaxTasks
    /\ tasks' = tasks + 1
    /\ task' = [NoTask EXCEPT !.step = "backup", !.entries = entries,
                              !.original = [f \in Files |-> OnDisk(f)]]
    /\ UNCHANGED <<files, pc, image, corrupt, acked, before, damaged, faults, game,
                   adventure, importing, rollback, backups, last>>

(* import_adventure, of a file or of a backup. *)
ImportAdventure(v) ==
    /\ v = progress + 1 \/ v \in backups["adventure"]
    /\ v <= MaxProgress
    /\ Begins(<<Entry("adventure", v)>>)
    /\ progress' = IF v > progress THEN v ELSE progress
    /\ UNCHANGED changes

(* commit_adventure of the Save Builder and, with the blank image,         *)
(* reset_adventure: what they replace has to be a valid save.              *)
ReplaceAdventure(v) ==
    /\ adventure # Torn
    /\ v = 0 \/ v = progress + 1
    /\ v <= MaxProgress
    /\ Begins(<<Entry("adventure", v)>>)
    /\ progress' = IF v > progress THEN v ELSE progress
    /\ UNCHANGED changes

(* repair_adventure_checksums, also when the launcher starts. *)
RepairAdventure ==
    /\ adventure = Torn
    /\ Begins(<<Entry("adventure", Mended)>>)
    /\ UNCHANGED <<changes, progress>>

(* import_bundle: of the Adventure and the Pak, or of the Pak alone, in    *)
(* the order of export_bundle; no destination may be corrupt.              *)
ImportBundle(both) ==
    /\ main # Torn /\ (both => adventure # Torn /\ progress < MaxProgress)
    /\ changes < MaxImages
    /\ LET pak == <<Entry("pak", changes + 1)>>
       IN Begins(IF both THEN <<Entry("adventure", progress + 1)>> \o pak ELSE pak)
    /\ changes' = changes + 1
    /\ progress' = IF both THEN progress + 1 ELSE progress

-----------------------------------------------------------------------------
(* The calls of a task *)

Target == IF task.undo = 0 THEN task.entries[task.at + 1]
          ELSE LET f == task.entries[task.undo].file IN Entry(f, task.original[f])
File == Target.file

(* The roll back goes on with entry i, if there is one. *)
UndoFrom(t, i) ==
    IF i > t.at THEN [t EXCEPT !.step = "failed"]
    ELSE [t EXCEPT !.undo = i,
                   !.step = IF Valid(t.original[t.entries[i].file]) THEN "write" ELSE "unlink"]

(* Mutant: what was replaced before the failure stays replaced. *)
AbortsOnly(t) == [t EXCEPT !.step = "failed"]

(* The write fails: what was replaced before is rolled back.  A roll back  *)
(* that fails is ignored.                                                  *)
Aborts(t) == UndoFrom(t, t.undo + 1)

FailedCall == [task EXCEPT !.calls = @ + 1]

Committed ==
    IF task.undo # 0 THEN UndoFrom(task, task.undo + 1)
    ELSE [task EXCEPT !.at = @ + 1,
                      !.step = IF task.at + 1 = Len(task.entries) THEN "done" ELSE "backup"]

Puts(f, v) ==
    /\ main' = IF f = "pak" THEN v ELSE main
    /\ damaged' = (damaged \/ (f = "pak" /\ v = Torn))
    /\ adventure' = IF f = "adventure" THEN v ELSE adventure

NoPut == UNCHANGED <<main, damaged, adventure>>

(* What no call of a task changes, and what only its last one does. *)
Others == UNCHANGED <<bak, tmp, pc, image, corrupt, changes, game, progress, tasks>>
Rest == Others /\ UNCHANGED <<acked, before, last>>

(* The images task t installs in file f, and what the player then has. *)
Installed(t, f) == {e.image : e \in {x \in Range(t.entries) : x.file = f}}

HasThen(t, f, old) ==
    IF t.step = "done" /\ Installed(t, f) \ {Mended} # {}
    THEN CHOOSE v \in Installed(t, f) : TRUE ELSE old

(* Mutant: nothing is put into save-backups. *)
BackupNever == backups

BackupMade == [backups EXCEPT ![File] = @ \cup {OnDisk(File)}]

(* BackupUnlocked, BackupPakUnlocked and, for a torn file that has the     *)
(* right size, BackupRawAdventureUnlocked.                                 *)
Backup ==
    /\ task.step = "backup"
    /\ \/ /\ Valid(OnDisk(File))
          /\ backups' = BackupMade
          /\ task' = [task EXCEPT !.step = "write"]
          /\ UNCHANGED faults
       \/ /\ ~Valid(OnDisk(File))
          /\ task' = [task EXCEPT !.step = "write"]
          /\ UNCHANGED <<backups, faults>>
       \/ /\ OnDisk(File) = Torn
          /\ task' = Aborts(task)
          /\ UNCHANGED <<backups, faults>>
       \/ /\ OnDisk(File) # Missing /\ Fault
          /\ task' = Aborts(FailedCall)
          /\ UNCHANGED backups
    /\ NoPut /\ UNCHANGED <<importing, rollback>> /\ Rest

(* WriteAtomic: .importing is written, flushed and read back; ...          *)
WriteImporting ==
    /\ task.step = "write"
    /\ \/ /\ importing' = [importing EXCEPT ![File] = Target.image]
          /\ task' = [task EXCEPT !.step = IF OnDisk(File) = Missing
                                           THEN "replace" ELSE "preserve"]
          /\ UNCHANGED faults
       \/ /\ Fault
          /\ importing' = [importing EXCEPT ![File] = Missing]
          /\ task' = Aborts(FailedCall)
    /\ NoPut /\ UNCHANGED <<rollback, backups>> /\ Rest

(* ... the destination is copied to .rollback; ...                         *)
Preserve ==
    /\ task.step = "preserve"
    /\ \/ /\ rollback' = [rollback EXCEPT ![File] = OnDisk(File)]
          /\ task' = [task EXCEPT !.step = "replace"]
          /\ UNCHANGED <<importing, faults>>
       \/ /\ Fault
          /\ rollback' = [rollback EXCEPT ![File] = Torn]
          /\ importing' = [importing EXCEPT ![File] = Missing]
          /\ task' = Aborts(FailedCall)
    /\ NoPut /\ UNCHANGED backups /\ Rest

(* ... and .importing takes its place, or the copy is to be put back.      *)
Replace ==
    /\ task.step = "replace"
    /\ \/ /\ Puts(File, importing[File])
          /\ importing' = [importing EXCEPT ![File] = Missing]
          /\ rollback' = [rollback EXCEPT ![File] = Missing]
          /\ task' = Committed
          /\ UNCHANGED faults
       \/ /\ Fault
          /\ OnDisk(File) # Missing
          /\ task' = [FailedCall EXCEPT !.step = "restore"]
          /\ NoPut /\ UNCHANGED <<importing, rollback>>
       \/ /\ Fault
          /\ OnDisk(File) = Missing
          /\ task' = Aborts(FailedCall)
          /\ importing' = [importing EXCEPT ![File] = Missing]
          /\ NoPut /\ UNCHANGED rollback
    /\ last' = HasThen(task', "adventure", last)
    /\ acked' = HasThen(task', "pak", acked)
    /\ before' = IF acked' # acked /\ bak \in Images THEN bak ELSE before
    /\ UNCHANGED backups /\ Others

(* The copy back empties the destination first; whether it succeeds is not *)
(* looked at.                                                              *)
Restore ==
    /\ \/ /\ task.step = "restore"
          /\ Puts(File, Torn)
          /\ task' = [task EXCEPT !.step = "restoring"]
          /\ UNCHANGED <<importing, faults>>
       \/ /\ task.step = "restoring"
          /\ Puts(File, rollback[File])
          /\ task' = Aborts(task)
          /\ importing' = [importing EXCEPT ![File] = Missing]
          /\ UNCHANGED faults
       \/ /\ task.step = "restore" /\ Fault
          /\ \/ NoPut \/ Puts(File, Torn)
          /\ task' = Aborts(FailedCall)
          /\ importing' = [importing EXCEPT ![File] = Missing]
    /\ UNCHANGED <<rollback, backups>> /\ Rest

(* A file that did not exist is removed by the roll back. *)
Unlink ==
    /\ task.step = "unlink"
    /\ \/ Puts(File, Missing) /\ task' = Aborts(task) /\ UNCHANGED faults
       \/ NoPut /\ task' = Aborts(FailedCall) /\ Fault
    /\ UNCHANGED <<importing, rollback, backups>> /\ Rest

(* The player is told how it went. *)
Report ==
    /\ task.step \in {"done", "failed"}
    /\ task' = NoTask
    /\ UNCHANGED <<vars, game, adventure, importing, rollback, backups, progress, last,
                   tasks>>

(* The process ends: by the player, or at any point of a task or a save;   *)
(* the next one begins in the launcher.                                    *)
EndProcess ==
    /\ End
    /\ game' = "launcher"
    /\ task' = NoTask
    /\ UNCHANGED <<adventure, importing, rollback, backups, progress, last, tasks>>

GarageNext ==
    \/ StartGame \/ StopGame \/ PlayAdventure \/ PlayPak \/ DamagePak
    \/ \E v \in 0 .. MaxProgress : ImportAdventure(v) \/ ReplaceAdventure(v)
    \/ RepairAdventure
    \/ \E both \in BOOLEAN : ImportBundle(both)
    \/ Backup \/ WriteImporting \/ Preserve \/ Replace \/ Restore \/ Unlink \/ Report
    \/ EndProcess

GarageSpec == GarageInit /\ [][GarageNext]_allVars

-----------------------------------------------------------------------------
Saves == (0 .. MaxProgress) \cup {Mended}
Steps == {"idle", "backup", "write", "preserve", "replace", "restore", "restoring",
          "unlink", "done", "failed"}

GarageTypeOK ==
    /\ TypeOK
    /\ game \in {"launcher", "running"}
    /\ game = "running" => task = NoTask
    /\ pc \notin {"idle", "unloaded"} => game = "running"
    /\ adventure \in Saves \cup {Missing, Torn}
    /\ backups["adventure"] \subseteq Saves /\ backups["pak"] \subseteq Images
    /\ task.step \in Steps
    /\ task.step = "replace" => importing[File] = Target.image
    /\ progress \in 0 .. MaxProgress /\ tasks \in 0 .. MaxTasks

(* "The previous save was backed up first." (runtime_ui.cpp:2826): the     *)
(* Adventure the player last had is on disk under its own name or in       *)
(* save-backups, at every point of every task, whichever calls fail and    *)
(* whenever the process ends.                                              *)
AdventureKept == last # Missing => last = adventure \/ last \in backups["adventure"]

(* SavePakLocked and WriteAtomic on the same file: unless the primary was  *)
(* damaged, a complete copy of the last Pak the game or the player was     *)
(* told is saved is the primary, the .bak or a backup.                     *)
PakKept == ~damaged /\ acked # 0 => acked \in {main, bak} \cup backups["pak"]

(* What a task that failed has replaced and not put back took more than    *)
(* one failed call, and is in save-backups.                                *)
HasBackup(f) == Valid(task.original[f]) => task.original[f] \in backups[f]

(* An import that fails through one failed call leaves every file as it    *)
(* was; after more of them a file that is not as it was is at least backed *)
(* up; and one that is reported as done has replaced every file.           *)
AllOrNothing ==
    /\ task.step = "failed" =>
          \A f \in Files :
             OnDisk(f) # task.original[f] => task.calls > 1 /\ HasBackup(f)
    /\ task.step = "done" => \A f \in Files : Installed(task, f) \subseteq {OnDisk(f)}

(* "The transaction was rolled back safely." (save_manager.cpp:949), which *)
(* the player is told of every bundle that fails.                          *)
RolledBackSafely ==
    /\ task.step = "failed"
    /\ \E e \in Range(task.entries) : e.file = "pak"
    => \A f \in Files : OnDisk(f) = task.original[f]

-----------------------------------------------------------------------------
(* The inductive invariants behind them. *)

EntryLists ==
    {<<Entry("adventure", v)>> : v \in Saves} \cup {<<Entry("pak", w)>> : w \in Images}
        \cup {<<Entry("adventure", v), Entry("pak", w)>> : v \in Saves, w \in Images}

Calls == Steps \ {"idle", "done", "failed"}

GarageTypes ==
    /\ game \in {"launcher", "running"}
    /\ adventure \in Saves \cup {Missing, Torn}
    /\ rollback \in [Files -> Int] /\ importing \in [Files -> Int]
    /\ rollback["adventure"] \in Saves \cup {Missing, Torn} /\ rollback["pak"] \in Disk
    /\ backups \in [Files -> SUBSET Int]
    /\ progress \in 0 .. MaxProgress /\ tasks \in 0 .. MaxTasks
    /\ last \in (0 .. MaxProgress) \cup {Missing}
    /\ task \in [step : Steps, entries : EntryLists \cup {<< >>}, at : 0 .. 2,
                 undo : 0 .. 1, original : [Files -> Int], calls : Nat]
    /\ task.original["adventure"] \in Saves \cup {Missing, Torn}
    /\ task.original["pak"] \in Disk

(* The launcher works while no game runs; only a bundle has a second       *)
(* entry, the Pak, so that what is rolled back is always the Adventure.    *)
TaskShape ==
    /\ task.step # "idle" => game = "launcher" /\ task.entries \in EntryLists
    /\ game = "launcher" => pc \in {"idle", "unloaded"}
    /\ task.step \in Calls =>
          /\ task.at < Len(task.entries)
          /\ task.undo = 1 =>
                /\ task.at = 1 /\ task.step # "backup"
                /\ task.step # "unlink" => Valid(task.original["adventure"])
    /\ task.step = "unlink" => task.undo = 1 /\ ~Valid(task.original["adventure"])
    /\ task.step = "done" => task.at = Len(task.entries) /\ task.undo = 0
    /\ Len(task.entries) = 2 => \A f \in Files : task.original[f] # Torn

(* What is on disk while a task replaces or rolls back. *)
TaskDisk ==
    /\ task.step \in Calls /\ task.undo = 0 =>
          /\ task.calls = IF task.step \in {"restore", "restoring"} THEN 1 ELSE 0
          /\ \A f \in Files : ~(task.step = "restoring" /\ f = File) =>
                OnDisk(f) = IF f = "adventure" /\ task.at = 1 THEN task.entries[1].image
                                                              ELSE task.original[f]
    /\ task.step \in Calls /\ task.undo = 1 =>
          /\ task.calls >= (IF task.step \in {"restore", "restoring"} THEN 2 ELSE 1)
          /\ task.calls = 1 => main = task.original["pak"]

(* What .importing and .rollback hold. *)
TaskFiles ==
    /\ task.step = "preserve" => importing[File] = Target.image
    /\ task.step = "replace" =>
          /\ importing[File] = Target.image
          /\ OnDisk(File) # Missing => rollback[File] = OnDisk(File)
    /\ task.step = "restore" => OnDisk(File) # Missing /\ rollback[File] = OnDisk(File)
    /\ task.step = "restoring" =>
          /\ rollback[File] # Missing
          /\ task.undo = 0 => rollback[File] = task.original[File]
          /\ File = "pak" => main = Torn /\ rollback["pak"] \in {acked, Torn}

(* An import that fails through one failed call has put everything back. *)
OneFailure ==
    /\ task.step = "failed" /\ task.calls <= 1 =>
          \A f \in Files : OnDisk(f) = task.original[f]
    /\ task.step = "done" => \A f \in Files : Installed(task, f) \subseteq {OnDisk(f)}

(* A file is backed up before a task replaces it, and stays backed up. *)
OriginalsKept ==
    /\ task.step \in Calls \ {"backup"} => HasBackup(File)
    /\ task.step \in Calls /\ task.at = 1 => HasBackup(task.entries[1].file)
    /\ task.step \in Calls \cup {"failed"} =>
          \A f \in Files : OnDisk(f) # task.original[f] => HasBackup(f)

(* The Adventure is in save-backups before the first call touches it. *)
BackedUp ==
    /\ task.step # "idle" /\ task.entries[1].file = "adventure"
    /\ \/ task.at = 1 /\ task.step # "done"
       \/ task.at = 0 /\ task.step \in Calls \ {"backup"}
    => last = Missing \/ last \in backups["adventure"]

GarageInv ==
    /\ PakInv /\ GarageTypes
    /\ TaskShape /\ TaskDisk /\ TaskFiles
    /\ BackedUp /\ AdventureKept /\ OneFailure
=============================================================================
