-------------------------- MODULE SaveGarageProofs --------------------------
(***************************************************************************)
(* What the Save Manager and the virtual Controller Pak keep on disk,      *)
(* proved for every number of images, tasks and faults.                    *)
(*                                                                         *)
(* PakInv is the Pak's own part: where a save is and which file holds the  *)
(* acknowledged image.  It survives every call of SavePakLocked and, since *)
(* the launcher works only between saves, every call of a task.            *)
(* GarageInv adds what each stage of a task has on disk, in .importing and *)
(* in .rollback.  The argument turns on one fact about its shape: only a   *)
(* bundle has a second entry, which is the Pak, so that the roll back ever *)
(* touches the Adventure alone.                                            *)
(***************************************************************************)
EXTENDS SaveGarage, SequenceTheorems, TLAPS

-----------------------------------------------------------------------------
(* The Pak by itself *)

USE DEF Missing, Torn

(* EnsureLoaded leaves the Pak consistent with its files. *)
LEMMA LoadKeepsPak == PakInv /\ Load => PakInv'
<1> SUFFICES ASSUME PakInv, Load PROVE PakInv'
  OBVIOUS
<1> USE PakAssumption DEF Images, Disk
<1>1. TypeOK'
  <2>1. /\ main' \in Disk /\ bak' \in Disk /\ tmp' \in Disk
        /\ image' \in Images /\ acked' \in Images /\ before' \in Images
        /\ changes' \in Nat /\ faults' \in Nat
    BY DEF PakInv, TypeOK, Load, StartsBlank, Fault
  <2>2. /\ pc' \in {"unloaded", "idle", "write", "copy", "copying", "remove", "rename"}
        /\ pc' = "rename" => tmp' = image'
    BY DEF PakInv, TypeOK, Load, StartsBlank, Fault
  <2>3. corrupt' \in BOOLEAN /\ damaged' \in BOOLEAN
    BY DEF PakInv, TypeOK, Load, StartsBlank, Fault
  <2> QED BY <2>1, <2>2, <2>3 DEF TypeOK
<1>2. SaveStages'
  BY DEF PakInv, TypeOK, SaveStages, Load, StartsBlank, Fault
<1>3. AckedOnDisk'
  BY DEF PakInv, TypeOK, AckedOnDisk, Load, StartsBlank, Fault
<1> QED BY <1>1, <1>2, <1>3 DEF PakInv

(* A changed or a reformatted Pak starts a save. *)
LEMMA EditKeepsPak == PakInv /\ (Change \/ Reformat) => PakInv'
<1> SUFFICES ASSUME PakInv, Change \/ Reformat PROVE PakInv'
  OBVIOUS
<1> USE PakAssumption DEF Images, Disk, files
<1>1. TypeOK'
  <2>1. /\ main' \in Disk /\ bak' \in Disk /\ tmp' \in Disk
        /\ image' \in Images /\ acked' \in Images /\ before' \in Images
        /\ changes' \in Nat /\ faults' \in Nat
    BY DEF PakInv, TypeOK, Change, Reformat
  <2>2. /\ pc' \in {"unloaded", "idle", "write", "copy", "copying", "remove", "rename"}
        /\ pc' = "rename" => tmp' = image'
    BY DEF PakInv, TypeOK, Change, Reformat
  <2>3. corrupt' \in BOOLEAN /\ damaged' \in BOOLEAN
    BY DEF PakInv, TypeOK, Change, Reformat
  <2> QED BY <2>1, <2>2, <2>3 DEF TypeOK
<1>2. SaveStages'
  BY DEF PakInv, SaveStages, Change, Reformat
<1>3. AckedOnDisk'
  BY DEF PakInv, AckedOnDisk, Change, Reformat
<1> QED BY <1>1, <1>2, <1>3 DEF PakInv

(* Writing .tmp and copying the primary to .bak. *)
LEMMA CopyKeepsPak == PakInv /\ (WriteTmp \/ BeginCopy \/ EndCopy) => PakInv'
<1> SUFFICES ASSUME PakInv, WriteTmp \/ BeginCopy \/ EndCopy PROVE PakInv'
  OBVIOUS
<1> USE PakAssumption DEF Images, Disk, memory, Fail, Fault, Goes
<1>1. TypeOK'
  BY DEF PakInv, TypeOK, SaveStages, WriteTmp, BeginCopy, EndCopy
<1>2. SaveStages'
  BY DEF PakInv, TypeOK, SaveStages, WriteTmp, BeginCopy, EndCopy
<1>3. AckedOnDisk'
  BY DEF PakInv, SaveStages, AckedOnDisk, TypeOK, WriteTmp, BeginCopy, EndCopy
<1> QED BY <1>1, <1>2, <1>3 DEF PakInv

(* The primary is removed only when .bak equals it. *)
LEMMA RemoveKeepsPak == PakInv /\ RemoveMain => PakInv'
<1> SUFFICES ASSUME PakInv, RemoveMain PROVE PakInv'
  OBVIOUS
<1> USE PakAssumption DEF Images, Disk, memory, Fail, Fault, Goes
<1>1. TypeOK'
  <2>1. /\ main' \in Disk /\ bak' \in Disk /\ tmp' \in Disk
        /\ image' \in Images /\ acked' \in Images /\ before' \in Images
        /\ changes' \in Nat /\ faults' \in Nat
    BY DEF PakInv, TypeOK, RemoveMain
  <2>2. /\ pc' \in {"unloaded", "idle", "write", "copy", "copying", "remove", "rename"}
        /\ pc' = "rename" => tmp' = image'
    BY DEF PakInv, TypeOK, SaveStages, RemoveMain
  <2>3. corrupt' \in BOOLEAN /\ damaged' \in BOOLEAN
    BY DEF PakInv, TypeOK, RemoveMain
  <2> QED BY <2>1, <2>2, <2>3 DEF TypeOK
<1>2. SaveStages'
  BY DEF PakInv, SaveStages, RemoveMain
<1>3. AckedOnDisk'
  BY DEF PakInv, SaveStages, AckedOnDisk, TypeOK, RemoveMain
<1> QED BY <1>1, <1>2, <1>3 DEF PakInv

(* The rename acknowledges the new image; .bak then holds the one before. *)
LEMMA RenameKeepsPak == PakInv /\ Rename => PakInv'
<1> SUFFICES ASSUME PakInv, Rename PROVE PakInv'
  OBVIOUS
<1> USE PakAssumption DEF Images, Disk
<1>1. /\ pc = "rename" /\ tmp' = Missing
      /\ bak' = bak /\ image' = image /\ corrupt' = corrupt /\ changes' = changes
  BY DEF Rename, memory
<1>2. CASE /\ main' = tmp /\ acked' = image /\ before' = acked
           /\ Goes("idle") /\ UNCHANGED damaged
  <2>1. TypeOK'
    BY <1>1, <1>2 DEF PakInv, TypeOK, Goes
  <2>2. SaveStages'
    BY <1>1, <1>2 DEF SaveStages, Goes
  <2>3. AckedOnDisk'
    BY <1>1, <1>2 DEF PakInv, SaveStages, AckedOnDisk, TypeOK
  <2> QED BY <2>1, <2>2, <2>3 DEF PakInv
<1>3. CASE /\ main' \in {bak, Torn, Missing}
           /\ bak = Missing => main' = Missing
           /\ damaged' = (damaged \/ main' = Torn)
           /\ Fail /\ UNCHANGED <<acked, before>>
  <2>0. damaged' \in BOOLEAN /\ (damaged => damaged') /\ (main' = Torn => damaged')
    BY <1>3 DEF PakInv, TypeOK
  <2>a. main' \in {bak, Torn, Missing} /\ pc' = "idle" /\ faults' = faults + 1
        /\ acked' = acked /\ before' = before
    BY <1>3 DEF Fail, Fault
  <2>1. TypeOK'
    BY <1>1, <2>0, <2>a DEF PakInv, TypeOK
  <2>2. SaveStages'
    BY <2>a DEF SaveStages
  <2>3. AckedOnDisk'
    BY <1>1, <2>0, <2>a DEF PakInv, SaveStages, AckedOnDisk, TypeOK
  <2> QED BY <2>1, <2>2, <2>3 DEF PakInv
<1> QED BY <1>2, <1>3 DEF Rename

(* An ending or a damage from outside. *)
LEMMA FaultKeepsPak == PakInv /\ (End \/ Damage) => PakInv'
<1> USE PakAssumption DEF Images, Disk, files, Fault
<1>1. PakInv /\ End => PakInv'
  <2> SUFFICES ASSUME PakInv, End PROVE PakInv'
    OBVIOUS
  <2>1. TypeOK'
    <3>1. /\ main' \in Disk /\ bak' \in Disk /\ tmp' \in Disk
          /\ image' \in Images /\ acked' \in Images /\ before' \in Images
          /\ changes' \in Nat /\ faults' \in Nat
      BY DEF PakInv, TypeOK, End
    <3>2. /\ pc' \in {"unloaded", "idle", "write", "copy", "copying", "remove", "rename"}
          /\ pc' = "rename" => tmp' = image'
      BY DEF PakInv, TypeOK, End
    <3>3. corrupt' \in BOOLEAN /\ damaged' \in BOOLEAN
      BY DEF PakInv, TypeOK, End
    <3> QED BY <3>1, <3>2, <3>3 DEF TypeOK
  <2>2. SaveStages'
    BY DEF SaveStages, End
  <2>3. AckedOnDisk'
    BY DEF PakInv, AckedOnDisk, End
  <2> QED BY <2>1, <2>2, <2>3 DEF PakInv
<1>2. PakInv /\ Damage => PakInv'
  <2> SUFFICES ASSUME PakInv, Damage PROVE PakInv'
    OBVIOUS
  <2>1. TypeOK'
    <3>1. /\ main' \in Disk /\ bak' \in Disk /\ tmp' \in Disk
          /\ image' \in Images /\ acked' \in Images /\ before' \in Images
          /\ changes' \in Nat /\ faults' \in Nat
      BY DEF PakInv, TypeOK, Damage
    <3>2. /\ pc' \in {"unloaded", "idle", "write", "copy", "copying", "remove", "rename"}
          /\ pc' = "rename" => tmp' = image'
      BY DEF PakInv, TypeOK, Damage
    <3>3. corrupt' \in BOOLEAN /\ damaged' \in BOOLEAN
      BY DEF PakInv, TypeOK, Damage
    <3> QED BY <3>1, <3>2, <3>3 DEF TypeOK
  <2>2. SaveStages'
    BY DEF PakInv, SaveStages, Damage
  <2>3. AckedOnDisk'
    BY DEF PakInv, TypeOK, AckedOnDisk, Damage
  <2> QED BY <2>1, <2>2, <2>3 DEF PakInv
<1> QED BY <1>1, <1>2

(* Every step of the game's Pak is one of these. *)
LEMMA GameKeepsPak == PakInv /\ PlayPak => PakInv'
BY LoadKeepsPak, EditKeepsPak, CopyKeepsPak, RemoveKeepsPak, RenameKeepsPak DEF PlayPak

-----------------------------------------------------------------------------
(* The shape of a task *)

USE DEF Mended, Files, Saves, Steps, Calls

TaskRecords ==
    [step : Steps, entries : EntryLists \cup {<< >>}, at : 0 .. 2,
     undo : 0 .. 1, original : [Files -> Int], calls : Nat]

(* What a list of entries looks like: the Adventure, the Pak, or both in   *)
(* that order.                                                             *)
LEMMA EntryShape ==
  ASSUME NEW es \in EntryLists
  PROVE  /\ Len(es) \in {1, 2} /\ es \in Seq([file : Files, image : Int])
         /\ es[1].file = "adventure" \/ (es[1].file = "pak" /\ Len(es) = 1)
         /\ es[1].file = "adventure" => es[1].image \in Saves
         /\ es[1].file = "pak" => es[1].image \in Images
         /\ Len(es) = 2 => es[1].file = "adventure" /\ es[2].file = "pak"
                           /\ es[2].image \in Images
<1> USE PakAssumption, GarageAssumption DEF Images
<1>1. CASE \E v \in Saves : es = <<Entry("adventure", v)>>
  BY <1>1 DEF Entry
<1>2. CASE \E w \in Images : es = <<Entry("pak", w)>>
  BY <1>2 DEF Entry
<1>3. CASE \E v \in Saves, w \in Images : es = <<Entry("adventure", v), Entry("pak", w)>>
  <2> PICK v \in Saves, w \in Images : es = <<Entry("adventure", v), Entry("pak", w)>>
    BY <1>3
  <2>1. Len(es) = 2 /\ es[1] = Entry("adventure", v) /\ es[2] = Entry("pak", w)
    OBVIOUS
  <2>2. /\ Entry("adventure", v) \in [file : Files, image : Int]
        /\ Entry("pak", w) \in [file : Files, image : Int]
    BY DEF Entry
  <2>3. es \in Seq([file : Files, image : Int])
    BY <2>2
  <2> QED BY <2>1, <2>3 DEF Entry
<1> QED BY <1>1, <1>2, <1>3 DEF EntryLists

(* What a task under way works on. *)
LEMMA TaskStages ==
  ASSUME GarageTypes, TaskShape, task.step \in Calls
  PROVE  /\ task.at \in {0, 1} /\ task.undo \in {0, 1} /\ task.entries \in EntryLists
         /\ File \in Files
         /\ task.undo = 1 => /\ task.at = 1 /\ Len(task.entries) = 2 /\ File = "adventure"
                             /\ Target.image = task.original["adventure"]
         /\ task.undo = 0 /\ task.at = 1 =>
               /\ Len(task.entries) = 2 /\ File = "pak"
               /\ Target.image = task.entries[2].image /\ Target.image \in Images
         /\ task.undo = 0 /\ task.at = 0 =>
               /\ File = task.entries[1].file /\ Target.image = task.entries[1].image
         /\ File = "pak" => Target.image \in Images /\ task.at + 1 = Len(task.entries)
         /\ File = "adventure" /\ task.step # "unlink" => Target.image \in Saves
<1>1. task.entries \in EntryLists /\ task.at \in 0 .. 2 /\ task.undo \in 0 .. 1
  BY DEF GarageTypes, TaskShape
<1>2. Len(task.entries) = 1 \/ Len(task.entries) = 2
  BY <1>1, EntryShape
<1>a. task.at < Len(task.entries)
  BY DEF TaskShape
<1>3. /\ task.at = 0 \/ task.at = 1
      /\ task.undo = 0 \/ task.undo = 1
      /\ task.at = 1 => Len(task.entries) = 2
  <2>1. task.at \in 0 .. 2 /\ task.undo \in 0 .. 1
    BY <1>1
  <2>2. CASE Len(task.entries) = 1
    BY <1>a, <2>1, <2>2
  <2>3. CASE Len(task.entries) = 2
    BY <1>a, <2>1, <2>3
  <2> QED BY <1>2, <2>2, <2>3
<1>4. CASE task.undo = 1
  <2>1. /\ task.at = 1 /\ Len(task.entries) = 2
        /\ task.step # "unlink" => Valid(task.original["adventure"])
    BY <1>3, <1>4 DEF TaskShape
  <2>2. Target = Entry("adventure", task.original["adventure"])
    BY <1>1, <1>4, <2>1, EntryShape DEF Target
  <2>3. task.step # "unlink" => task.original["adventure"] \in Saves
    BY <2>1 DEF GarageTypes, Valid
  <2> QED BY <1>1, <1>3, <1>4, <2>1, <2>2, <2>3 DEF File, Entry
<1>5. CASE task.undo = 0 /\ task.at = 1
  <2>1. Target = task.entries[2] /\ Len(task.entries) = 2
    BY <1>3, <1>5 DEF Target
  <2> QED BY <1>1, <1>5, <2>1, EntryShape DEF File
<1>6. CASE task.undo = 0 /\ task.at = 0
  <2>1. Target = task.entries[1]
    BY <1>6 DEF Target
  <2> QED BY <1>1, <1>2, <1>6, <2>1, EntryShape DEF File
<1> QED BY <1>3, <1>4, <1>5, <1>6

(* The call of a task is on the same file as long as only step changes. *)
LEMMA SameTarget ==
  ASSUME task'.entries = task.entries, task'.at = task.at, task'.undo = task.undo,
         task'.original = task.original
  PROVE  Target' = Target /\ File' = File
BY DEF Target, File

(* What a failing write goes on with: the roll back of the Adventure if it *)
(* was replaced, the end of the task otherwise.                            *)
LEMMA AbortsTo ==
  ASSUME GarageTypes, TaskShape, task.step \in Calls,
         NEW t \in {task, FailedCall}
  PROVE  /\ Aborts(t) \in TaskRecords
         /\ Aborts(t).entries = task.entries /\ Aborts(t).at = task.at
         /\ Aborts(t).original = task.original /\ Aborts(t).calls = t.calls
         /\ task.at = 0 \/ task.undo = 1 =>
               Aborts(t).step = "failed" /\ Aborts(t).undo = task.undo
         /\ task.at = 1 /\ task.undo = 0 =>
               /\ Aborts(t).undo = 1
               /\ Valid(task.original["adventure"]) => Aborts(t).step = "write"
               /\ ~Valid(task.original["adventure"]) => Aborts(t).step = "unlink"
<1>1. task \in TaskRecords
  BY DEF GarageTypes, TaskRecords
<1>2. /\ t \in TaskRecords /\ t.entries = task.entries /\ t.at = task.at
      /\ t.original = task.original /\ t.undo = task.undo
  BY <1>1 DEF FailedCall, TaskRecords
<1>3. task.at \in {0, 1} /\ task.undo \in {0, 1} /\ (task.undo = 1 => task.at = 1)
  BY TaskStages
<1>4. CASE task.at = 0 \/ task.undo = 1
  <2>1. Aborts(t) = [t EXCEPT !.step = "failed"]
    BY <1>2, <1>3, <1>4 DEF Aborts, UndoFrom
  <2> QED BY <1>2, <1>3, <1>4, <2>1 DEF TaskRecords
<1>5. CASE task.at = 1 /\ task.undo = 0
  <2>1. task.entries[1].file = "adventure"
    BY <1>5, TaskStages, EntryShape
  <2>2. ~(t.undo + 1 > t.at) /\ t.undo + 1 = 1
    BY <1>2, <1>5
  <2>3. CASE Valid(task.original["adventure"])
    <3>1. Aborts(t) = [[t EXCEPT !.undo = 1] EXCEPT !.step = "write"]
      BY <1>2, <2>1, <2>2, <2>3 DEF Aborts, UndoFrom
    <3>a. [t EXCEPT !.undo = 1] \in TaskRecords
      BY <1>2 DEF TaskRecords
    <3>2. Aborts(t) \in TaskRecords
      BY <3>a, <3>1 DEF TaskRecords
    <3>3. /\ Aborts(t).entries = t.entries /\ Aborts(t).at = t.at
          /\ Aborts(t).original = t.original /\ Aborts(t).calls = t.calls
          /\ Aborts(t).undo = 1 /\ Aborts(t).step = "write"
      BY <1>2, <3>1 DEF TaskRecords
    <3> QED BY <1>2, <1>5, <2>3, <3>2, <3>3
  <2>4. CASE ~Valid(task.original["adventure"])
    <3>1. Aborts(t) = [[t EXCEPT !.undo = 1] EXCEPT !.step = "unlink"]
      BY <1>2, <2>1, <2>2, <2>4 DEF Aborts, UndoFrom
    <3>a. [t EXCEPT !.undo = 1] \in TaskRecords
      BY <1>2 DEF TaskRecords
    <3>2. Aborts(t) \in TaskRecords
      BY <3>a, <3>1 DEF TaskRecords
    <3>3. /\ Aborts(t).entries = t.entries /\ Aborts(t).at = t.at
          /\ Aborts(t).original = t.original /\ Aborts(t).calls = t.calls
          /\ Aborts(t).undo = 1 /\ Aborts(t).step = "unlink"
      BY <1>2, <3>1 DEF TaskRecords
    <3> QED BY <1>2, <1>5, <2>4, <3>2, <3>3
  <2> QED BY <2>3, <2>4
<1> QED BY <1>3, <1>4, <1>5

-----------------------------------------------------------------------------
(* What the calls of a task have in common *)

(* Between the game's saves a task may put an acknowledged or a torn Pak   *)
(* in place, but never remove it.                                          *)
LEMMA TaskKeepsPak ==
  ASSUME PakInv, pc \in {"idle", "unloaded"}, Others, faults' \in Nat,
         main' \in Disk, acked' \in Images, before' \in Images,
         main' = Missing => main = Missing /\ acked' = acked,
         main' = Torn => damaged',
         main' \in Images => main' = acked',
         bak \in Images => bak \in {before', acked'},
         damaged => damaged', damaged' \in BOOLEAN
  PROVE  PakInv'
<1> USE PakAssumption DEF Images, Disk
<1>1. /\ bak' = bak /\ tmp' = tmp /\ pc' = pc /\ image' = image
      /\ corrupt' = corrupt /\ changes' = changes
  BY DEF Others
<1>2. TypeOK'
  <2>1. corrupt' \in BOOLEAN
    BY <1>1 DEF PakInv, TypeOK
  <2> QED BY <1>1, <2>1 DEF PakInv, TypeOK
<1>3. SaveStages'
  BY <1>1 DEF SaveStages
<1>4. AckedOnDisk'
  BY <1>1 DEF PakInv, TypeOK, AckedOnDisk
<1> QED BY <1>2, <1>3, <1>4 DEF PakInv

(* The files of the garage as they may be after a call. *)
FilesTyped ==
    /\ adventure \in Saves \cup {Missing, Torn}
    /\ rollback \in [Files -> Int] /\ importing \in [Files -> Int]
    /\ rollback["adventure"] \in Saves \cup {Missing, Torn} /\ rollback["pak"] \in Disk
    /\ backups \in [Files -> SUBSET Int]

(* A task that gives up, or goes over to its roll back, has to leave what  *)
(* it did not replace as it was.                                           *)
LEMMA AbortHolds ==
  ASSUME GarageInv, task.step \in Calls, NEW t \in {task, FailedCall},
         task' = Aborts(t), Others, last' = last, backups' = backups,
         PakInv', FilesTyped',
         task.at = 1 /\ task.undo = 0 =>
            t.calls >= 1 /\ (t.calls = 1 => main' = task.original["pak"]),
         (task.at = 0 \/ task.undo = 1) /\ t.calls <= 1 =>
            main' = task.original["pak"] /\ adventure' = task.original["adventure"],
         adventure' = adventure \/ (File = "adventure" /\ task.step # "backup")
  PROVE  GarageInv'
<1>1. /\ GarageTypes /\ TaskShape /\ TaskDisk /\ BackedUp /\ AdventureKept
  BY DEF GarageInv
<1>2. /\ task.at \in {0, 1} /\ task.undo \in {0, 1} /\ task.entries \in EntryLists
      /\ task.undo = 1 => task.at = 1
      /\ task.at = 1 => Len(task.entries) = 2
      /\ task.at = 0 => File = task.entries[1].file
      /\ task.at = 1 => task.entries[1].file = "adventure"
  BY <1>1, TaskStages, EntryShape
<1>3. /\ task' \in TaskRecords
      /\ task'.entries = task.entries /\ task'.at = task.at
      /\ task'.original = task.original /\ task'.calls = t.calls
      /\ task.at = 0 \/ task.undo = 1 => task'.step = "failed" /\ task'.undo = task.undo
      /\ task.at = 1 /\ task.undo = 0 =>
            /\ task'.undo = 1
            /\ Valid(task.original["adventure"]) => task'.step = "write"
            /\ ~Valid(task.original["adventure"]) => task'.step = "unlink"
  BY <1>1, AbortsTo
<1>4. task'.step \in {"failed", "write", "unlink"}
  BY <1>2, <1>3
<1>5. /\ game' = game /\ pc' = pc /\ progress' = progress /\ tasks' = tasks
  BY DEF Others
<1>6. GarageTypes'
  BY <1>1, <1>3, <1>5 DEF GarageTypes, FilesTyped, TaskRecords
<1>7. TaskShape'
  <2>1. game = "launcher" /\ pc \in {"idle", "unloaded"}
        /\ (Len(task.entries) = 2 => \A f \in Files : task.original[f] # Torn)
    BY <1>1 DEF TaskShape
  <2>2. task'.step \in Calls =>
          /\ task'.at < Len(task'.entries)
          /\ task'.undo = 1 =>
                /\ task'.at = 1 /\ task'.step # "backup"
                /\ task'.step # "unlink" => Valid(task'.original["adventure"])
    <3> SUFFICES ASSUME task'.step \in Calls
                 PROVE  /\ task'.at < Len(task'.entries) /\ task'.at = 1
                        /\ task'.step = "write" \/ task'.step = "unlink"
                        /\ task'.step # "unlink" => Valid(task'.original["adventure"])
      OBVIOUS
    <3>1. task.at = 1 /\ task.undo = 0
      BY <1>2, <1>3
    <3>2. Len(task'.entries) = 2 /\ task'.at = 1
      BY <1>2, <1>3, <3>1
    <3> QED BY <1>3, <1>4, <3>1, <3>2
  <2>3. task'.step = "unlink" => task'.undo = 1 /\ ~Valid(task'.original["adventure"])
    BY <1>2, <1>3
  <2> QED BY <1>2, <1>3, <1>4, <1>5, <2>1, <2>2, <2>3 DEF TaskShape, Valid
<1>8. TaskDisk'
  BY <1>2, <1>3, <1>4 DEF TaskDisk
<1>9. TaskFiles'
  BY <1>4 DEF TaskFiles
<1>10. BackedUp'
  BY <1>1, <1>2, <1>3, <1>4 DEF BackedUp
<1>11. AdventureKept'
  <2>1. CASE adventure' = adventure
    BY <1>1, <2>1 DEF AdventureKept
  <2>2. CASE File = "adventure" /\ task.step # "backup"
    BY <1>1, <1>2, <2>2 DEF AdventureKept, BackedUp
  <2> QED BY <2>1, <2>2
<1>12. OneFailure'
  BY <1>2, <1>3, <1>4 DEF OneFailure, OnDisk
<1> QED BY <1>6, <1>7, <1>8, <1>9, <1>10, <1>11, <1>12 DEF GarageInv

(* A task that goes on with the same file. *)
LEMMA OnwardHolds ==
  ASSUME GarageInv, task.step \in Calls \ {"unlink"},
         task' \in TaskRecords, task'.step \in Calls \ {"backup", "unlink"},
         task'.entries = task.entries, task'.at = task.at, task'.undo = task.undo,
         task'.original = task.original,
         Others, last' = last, PakInv', FilesTyped', TaskDisk', TaskFiles',
         backups["adventure"] \subseteq backups'["adventure"],
         adventure' = adventure \/ (File = "adventure" /\ task.step # "backup"),
         task.step = "backup" /\ File = "adventure" /\ adventure \in Saves =>
            adventure \in backups'["adventure"]
  PROVE  GarageInv'
<1>1. /\ GarageTypes /\ TaskShape /\ BackedUp /\ AdventureKept
  BY DEF GarageInv
<1>2. /\ task.at \in {0, 1} /\ task.undo \in {0, 1} /\ task.entries \in EntryLists
      /\ task.at = 0 => File = task.entries[1].file
      /\ task.at = 1 => task.entries[1].file = "adventure"
  BY <1>1, TaskStages, EntryShape
<1>3. /\ game' = game /\ pc' = pc /\ progress' = progress /\ tasks' = tasks
  BY DEF Others
<1>4. GarageTypes'
  BY <1>1, <1>3 DEF GarageTypes, FilesTyped, TaskRecords
<1>5. TaskShape'
  BY <1>1, <1>3 DEF TaskShape
<1>6. BackedUp'
  <2>1. CASE task.step = "backup" /\ task.at = 0
    BY <1>1, <1>2, <2>1 DEF BackedUp, AdventureKept, GarageTypes
  <2>2. CASE ~(task.step = "backup" /\ task.at = 0)
    BY <1>1, <1>2, <2>2 DEF BackedUp
  <2> QED BY <2>1, <2>2
<1>7. AdventureKept'
  <2>1. CASE adventure' = adventure
    BY <1>1, <2>1 DEF AdventureKept
  <2>2. CASE File = "adventure" /\ task.step # "backup"
    BY <1>1, <1>2, <2>2 DEF AdventureKept, BackedUp
  <2> QED BY <2>1, <2>2
<1>8. OneFailure'
  BY DEF OneFailure
<1> QED BY <1>4, <1>5, <1>6, <1>7, <1>8 DEF GarageInv

-----------------------------------------------------------------------------
(* The calls of a task *)

(* What is known whenever a call is made. *)
LEMMA CallFacts ==
  ASSUME GarageInv, task.step \in Calls
  PROVE  /\ pc \in {"idle", "unloaded"} /\ PakInv /\ FilesTyped /\ task \in TaskRecords
         /\ main \in Disk /\ acked \in Images /\ before \in Images /\ faults \in Nat
         /\ task.undo = 0 => task.calls = IF task.step \in {"restore", "restoring"} THEN 1 ELSE 0
         /\ task.undo = 1 => task.calls >= 1 /\ (task.calls = 1 => main = task.original["pak"])
         /\ task.undo = 0 /\ task.step # "restoring" =>
               /\ main = task.original["pak"]
               /\ task.at = 0 => adventure = task.original["adventure"]
<1>1. PakInv /\ GarageTypes /\ TaskShape /\ TaskDisk
  BY DEF GarageInv
<1>2. /\ pc \in {"idle", "unloaded"} /\ FilesTyped /\ task \in TaskRecords
      /\ main \in Disk /\ acked \in Images /\ before \in Images /\ faults \in Nat
  BY <1>1 DEF GarageTypes, TaskShape, FilesTyped, TaskRecords, PakInv, TypeOK
<1>3. task.undo = 0 => task.calls = IF task.step \in {"restore", "restoring"} THEN 1 ELSE 0
  BY <1>1 DEF TaskDisk
<1>4. task.undo = 1 => task.calls >= 1 /\ (task.calls = 1 => main = task.original["pak"])
  BY <1>1, <1>2 DEF TaskDisk, TaskRecords
<1>5. task.undo = 0 /\ task.step # "restoring" =>
         /\ OnDisk("pak") = task.original["pak"]
         /\ task.at = 0 => OnDisk("adventure") = task.original["adventure"]
  BY <1>1 DEF TaskDisk
<1> QED BY <1>1, <1>2, <1>3, <1>4, <1>5 DEF OnDisk

(* A call that leaves the saves alone leaves the Pak consistent. *)
LEMMA QuietCallKeepsPak ==
  ASSUME GarageInv, task.step \in Calls, Rest, main' = main, damaged' = damaged,
         faults' \in Nat
  PROVE  PakInv'
<1>1. PakInv /\ pc \in {"idle", "unloaded"}
  BY CallFacts
<1>2. Others /\ acked' = acked /\ before' = before
  BY DEF Rest
<1>3. /\ main \in Disk /\ acked \in Images /\ before \in Images
      /\ main = Torn => damaged
      /\ main \in Images => main = acked
      /\ bak \in Images => bak \in {before, acked}
  BY <1>1 DEF PakInv, TypeOK, AckedOnDisk
<1>4. damaged' \in BOOLEAN
  BY <1>1 DEF PakInv, TypeOK
<1> QED BY <1>1, <1>2, <1>3, <1>4, TaskKeepsPak

(* ... and what the stages of a task say of the disk. *)
LEMMA QuietCallKeepsDisk ==
  ASSUME GarageInv, task.step \in Calls \ {"restoring"}, task' \in TaskRecords,
         task'.step \in Calls \ {"restoring"},
         task'.entries = task.entries, task'.at = task.at, task'.undo = task.undo,
         task'.original = task.original, main' = main, adventure' = adventure,
         task.undo = 0 => task'.calls = IF task'.step = "restore" THEN 1 ELSE 0,
         task.undo = 1 =>
            task'.calls >= task.calls /\ (task'.step = "restore" => task'.calls >= 2)
  PROVE  TaskDisk'
<1>1. TaskDisk
  BY DEF GarageInv
<1>2. CASE task.undo = 0
  <2>1. \A f \in Files : OnDisk(f) = IF f = "adventure" /\ task.at = 1
                                     THEN task.entries[1].image ELSE task.original[f]
    BY <1>1, <1>2 DEF TaskDisk
  <2>2. \A f \in Files : OnDisk(f)' = OnDisk(f)
    BY DEF OnDisk
  <2> QED BY <1>2, <2>1, <2>2 DEF TaskDisk
<1>3. CASE task.undo = 1
  <2>1. task.calls \in Nat /\ task'.calls \in Nat
    BY CallFacts DEF TaskRecords
  <2>2. task.calls >= 1 /\ (task.calls = 1 => main = task.original["pak"])
    BY <1>3, CallFacts
  <2> QED BY <1>3, <2>1, <2>2 DEF TaskDisk
<1> QED BY <1>2, <1>3, CallFacts DEF TaskRecords

(* Every save that is replaced is in save-backups first. *)
LEMMA BackupHolds == GarageInv /\ Backup => GarageInv'
<1> SUFFICES ASSUME GarageInv, Backup PROVE GarageInv'
  OBVIOUS
<1>0. task.step = "backup" /\ NoPut /\ UNCHANGED <<importing, rollback>> /\ Rest
  BY DEF Backup
<1>1. /\ task.step \in Calls \ {"unlink", "restoring"} /\ GarageTypes /\ TaskShape
      /\ task.undo = 0 /\ task.calls = 0
  <2>1. GarageTypes /\ TaskShape /\ task.step \in Calls
    BY <1>0 DEF GarageInv
  <2>2. task.undo = 0
    BY <1>0, <2>1, TaskStages DEF TaskShape
  <2> QED BY <1>0, <2>1, <2>2, CallFacts
<1>2. /\ main' = main /\ damaged' = damaged /\ adventure' = adventure
      /\ importing' = importing /\ rollback' = rollback /\ last' = last /\ Others
  BY <1>0 DEF NoPut, Rest
<1>3. faults' \in Nat
  BY <1>1, CallFacts DEF Backup, Fault
<1>4. PakInv'
  BY <1>0, <1>1, <1>2, <1>3, QuietCallKeepsPak
<1>5. /\ main = task.original["pak"]
      /\ task.at = 0 => adventure = task.original["adventure"]
      /\ task \in TaskRecords /\ FilesTyped
  BY <1>1, CallFacts
<1>6. ASSUME task' = [task EXCEPT !.step = "write"],
             backups' = backups \/ backups' = BackupMade,
             Valid(OnDisk(File)) => backups' = BackupMade
      PROVE  GarageInv'
  <2>1. /\ task' \in TaskRecords /\ task'.step = "write" /\ task'.entries = task.entries
        /\ task'.at = task.at /\ task'.undo = task.undo
        /\ task'.original = task.original /\ task'.calls = task.calls
    BY <1>5, <1>6 DEF TaskRecords
  <2>2. TaskDisk'
    BY <1>1, <1>2, <2>1, QuietCallKeepsDisk
  <2>3. TaskFiles'
    BY <2>1 DEF TaskFiles
  <2>4. File \in Files
    BY <1>1, TaskStages
  <2>5. OnDisk(File) \in Int
    BY <1>1, <1>5, CallFacts, GarageAssumption, PakAssumption
    DEF OnDisk, FilesTyped, Disk, Images
  <2>6. /\ backups' \in [Files -> SUBSET Int]
        /\ backups["adventure"] \subseteq backups'["adventure"]
    BY <1>5, <1>6, <2>4, <2>5 DEF BackupMade, FilesTyped
  <2>7. File = "adventure" /\ adventure \in Saves => adventure \in backups'["adventure"]
    BY <1>5, <1>6, <2>4, GarageAssumption DEF BackupMade, FilesTyped, OnDisk, Valid
  <2>8. FilesTyped'
    BY <1>2, <1>5, <2>6 DEF FilesTyped
  <2> QED BY <1>1, <1>2, <1>4, <2>1, <2>2, <2>3, <2>6, <2>7, <2>8, OnwardHolds
<1>7. ASSUME NEW t \in {task, FailedCall}, task' = Aborts(t), backups' = backups,
             t = FailedCall \/ OnDisk(File) = Torn
      PROVE  GarageInv'
  <2>1. t.calls \in {0, 1} /\ (t = FailedCall => t.calls = 1)
    BY <1>1, <1>5, <1>7 DEF FailedCall, TaskRecords
  <2>2. task.at = 1 => t = FailedCall
    <3>1. task.at = 1 => File = "pak" /\ main # Torn
      BY <1>1, <1>5, TaskStages DEF TaskShape
    <3> QED BY <1>7, <3>1 DEF OnDisk
  <2>3. FilesTyped'
    BY <1>2, <1>5, <1>7 DEF FilesTyped
  <2> QED BY <1>1, <1>2, <1>4, <1>5, <1>7, <2>1, <2>2, <2>3, AbortHolds
<1> QED BY <1>6, <1>7 DEF Backup

(* A call that fails and leaves the saves alone. *)
LEMMA QuietAbortHolds ==
  ASSUME GarageInv, task.step \in Calls \ {"restoring"}, Rest, NoPut, Fault,
         backups' = backups, FilesTyped', task' = Aborts(FailedCall)
  PROVE  GarageInv'
<1>1. /\ main' = main /\ damaged' = damaged /\ adventure' = adventure
      /\ last' = last /\ Others
  BY DEF NoPut, Rest
<1>2. GarageTypes /\ TaskShape
  BY DEF GarageInv
<1>3. faults' \in Nat
  BY CallFacts DEF Fault
<1>4. PakInv'
  BY <1>1, <1>3, QuietCallKeepsPak
<1>5. task \in TaskRecords /\ task.undo \in {0, 1} /\ task.at \in {0, 1}
  BY <1>2, CallFacts, TaskStages
<1>6. FailedCall.calls = task.calls + 1 /\ task.calls \in Nat
  BY <1>5 DEF FailedCall, TaskRecords
<1>7. CASE task.undo = 0
  <2>1. /\ main' = task.original["pak"]
        /\ task.at = 0 => adventure' = task.original["adventure"]
    BY <1>1, <1>7, CallFacts
  <2> QED BY <1>1, <1>4, <1>5, <1>6, <1>7, <2>1, AbortHolds
<1>8. CASE task.undo = 1
  <2>1. task.calls >= 1
    BY <1>8, CallFacts
  <2> QED BY <1>1, <1>4, <1>5, <1>6, <1>8, <2>1, AbortHolds
<1> QED BY <1>5, <1>7, <1>8

(* WriteAtomic writes .importing ... *)
LEMMA WriteImportingHolds == GarageInv /\ WriteImporting => GarageInv'
<1> SUFFICES ASSUME GarageInv, WriteImporting PROVE GarageInv'
  OBVIOUS
<1>0. /\ task.step = "write" /\ NoPut /\ Rest
      /\ rollback' = rollback /\ backups' = backups
  BY DEF WriteImporting
<1>1. task.step \in Calls \ {"unlink", "restoring"} /\ GarageTypes /\ TaskShape
  BY <1>0 DEF GarageInv
<1>2. task \in TaskRecords /\ FilesTyped /\ task.undo \in {0, 1} /\ File \in Files
  BY <1>1, CallFacts, TaskStages
<1>3. Target.image \in Int
  BY <1>1, <1>2, TaskStages, GarageAssumption, PakAssumption DEF Images
<1>4. ASSUME NEW v \in Int, importing' = [importing EXCEPT ![File] = v]
      PROVE  FilesTyped' /\ importing'[File] = v
  <2>1. importing' \in [Files -> Int] /\ importing'[File] = v
    BY <1>2, <1>4 DEF FilesTyped
  <2> QED BY <1>0, <1>2, <2>1 DEF FilesTyped, NoPut
<1>5. CASE /\ importing' = [importing EXCEPT ![File] = Target.image]
           /\ task' = [task EXCEPT !.step = IF OnDisk(File) = Missing
                                            THEN "replace" ELSE "preserve"]
           /\ UNCHANGED faults
  <2>1. FilesTyped' /\ importing'[File] = Target.image
    BY <1>3, <1>4, <1>5
  <2>2. /\ task' \in TaskRecords /\ task'.step \in {"replace", "preserve"}
        /\ task'.step = "replace" => OnDisk(File) = Missing
        /\ task'.entries = task.entries
        /\ task'.at = task.at /\ task'.undo = task.undo
        /\ task'.original = task.original /\ task'.calls = task.calls
    BY <1>2, <1>5 DEF TaskRecords
  <2>3. /\ main' = main /\ damaged' = damaged /\ adventure' = adventure
        /\ last' = last /\ Others /\ faults' \in Nat
    BY <1>0, <1>1, <1>5, CallFacts DEF NoPut, Rest
  <2>4. PakInv'
    BY <1>0, <1>1, <2>3, QuietCallKeepsPak
  <2>5. task.calls \in Nat /\ (task.undo = 0 => task.calls = 0)
    BY <1>0, <1>1, <1>2, CallFacts DEF TaskRecords
  <2>6. TaskDisk'
    BY <1>1, <2>2, <2>3, <2>5, QuietCallKeepsDisk
  <2>7. Target' = Target /\ File' = File /\ OnDisk(File)' = OnDisk(File)
    BY <2>2, <2>3, SameTarget DEF OnDisk
  <2>8. TaskFiles'
    BY <2>1, <2>2, <2>7 DEF TaskFiles
  <2> QED BY <1>0, <1>1, <2>1, <2>2, <2>3, <2>4, <2>6, <2>8, OnwardHolds
<1>6. CASE /\ Fault /\ importing' = [importing EXCEPT ![File] = Missing]
           /\ task' = Aborts(FailedCall)
  <2>1. Missing \in Int
    OBVIOUS
  <2>2. FilesTyped'
    BY <1>4, <1>6, <2>1
  <2> QED BY <1>0, <1>1, <1>6, <2>2, QuietAbortHolds
<1> QED BY <1>5, <1>6 DEF WriteImporting

(* ... and copies the destination to .rollback. *)
LEMMA PreserveHolds == GarageInv /\ Preserve => GarageInv'
<1> SUFFICES ASSUME GarageInv, Preserve PROVE GarageInv'
  OBVIOUS
<1>0. task.step = "preserve" /\ NoPut /\ Rest /\ backups' = backups
  BY DEF Preserve
<1>1. /\ task.step \in Calls \ {"unlink", "restoring"} /\ GarageTypes /\ TaskShape
      /\ importing[File] = Target.image
  BY <1>0 DEF GarageInv, TaskFiles
<1>2. task \in TaskRecords /\ FilesTyped /\ task.undo \in {0, 1} /\ File \in Files
  BY <1>1, CallFacts, TaskStages
<1>3. OnDisk(File) \in Int /\ (File = "pak" => OnDisk(File) \in Disk)
      /\ (File = "adventure" => OnDisk(File) \in Saves \cup {Missing, Torn})
  BY <1>1, <1>2, CallFacts, GarageAssumption, PakAssumption
  DEF OnDisk, FilesTyped, Disk, Images
<1>4. CASE /\ rollback' = [rollback EXCEPT ![File] = OnDisk(File)]
           /\ task' = [task EXCEPT !.step = "replace"]
           /\ UNCHANGED <<importing, faults>>
  <2>1. FilesTyped' /\ rollback'[File] = OnDisk(File)
    BY <1>0, <1>2, <1>3, <1>4 DEF FilesTyped, NoPut
  <2>2. /\ task' \in TaskRecords /\ task'.step = "replace"
        /\ task'.entries = task.entries
        /\ task'.at = task.at /\ task'.undo = task.undo
        /\ task'.original = task.original /\ task'.calls = task.calls
    BY <1>2, <1>4 DEF TaskRecords
  <2>3. /\ main' = main /\ damaged' = damaged /\ adventure' = adventure
        /\ last' = last /\ Others /\ faults' \in Nat
    BY <1>0, <1>1, <1>4, CallFacts DEF NoPut, Rest
  <2>4. PakInv'
    BY <1>0, <1>1, <2>3, QuietCallKeepsPak
  <2>5. task.calls \in Nat /\ (task.undo = 0 => task.calls = 0)
    BY <1>0, <1>1, <1>2, CallFacts DEF TaskRecords
  <2>6. TaskDisk'
    BY <1>1, <2>2, <2>3, <2>5, QuietCallKeepsDisk
  <2>7. Target' = Target /\ File' = File /\ OnDisk(File)' = OnDisk(File)
    BY <2>2, <2>3, SameTarget DEF OnDisk
  <2>8. TaskFiles'
    BY <1>1, <1>4, <2>1, <2>2, <2>7 DEF TaskFiles
  <2> QED BY <1>0, <1>1, <2>1, <2>2, <2>3, <2>4, <2>6, <2>8, OnwardHolds
<1>5. CASE /\ Fault /\ rollback' = [rollback EXCEPT ![File] = Torn]
           /\ importing' = [importing EXCEPT ![File] = Missing]
           /\ task' = Aborts(FailedCall)
  <2>1. FilesTyped'
    BY <1>0, <1>2, <1>5 DEF FilesTyped, NoPut, Disk
  <2> QED BY <1>0, <1>1, <1>5, <2>1, QuietAbortHolds
<1> QED BY <1>4, <1>5 DEF Preserve

(* Until its last entry is in place a task changes nothing the player has. *)
LEMMA ReplaceRests ==
  ASSUME Replace, task'.step # "done"
  PROVE  Rest
<1>1. last' = last /\ acked' = acked
  BY DEF Replace, HasThen
<1>2. before' = before /\ Others
  BY <1>1 DEF Replace
<1> QED BY <1>1, <1>2 DEF Rest

(* The rename of .importing fails. *)
LEMMA ReplaceFails ==
  ASSUME GarageInv, Replace, Fault, NoPut, rollback' = rollback,
         \/ /\ OnDisk(File) # Missing
            /\ task' = [FailedCall EXCEPT !.step = "restore"]
            /\ importing' = importing
         \/ /\ task' = Aborts(FailedCall)
            /\ importing' = [importing EXCEPT ![File] = Missing]
  PROVE  GarageInv'
<1>0. task.step = "replace" /\ backups' = backups
  BY DEF Replace
<1>1. /\ task.step \in Calls \ {"unlink", "restoring"} /\ GarageTypes /\ TaskShape
      /\ OnDisk(File) # Missing => rollback[File] = OnDisk(File)
  BY <1>0 DEF GarageInv, TaskFiles
<1>2. task \in TaskRecords /\ FilesTyped /\ task.undo \in {0, 1} /\ File \in Files
  BY <1>1, CallFacts, TaskStages
<1>3. CASE /\ OnDisk(File) # Missing /\ task' = [FailedCall EXCEPT !.step = "restore"]
           /\ importing' = importing
  <2>1. FilesTyped'
    BY <1>0, <1>2, <1>3 DEF FilesTyped, NoPut
  <2>a. /\ FailedCall \in TaskRecords /\ FailedCall.entries = task.entries
        /\ FailedCall.at = task.at /\ FailedCall.undo = task.undo
        /\ FailedCall.original = task.original /\ FailedCall.calls = task.calls + 1
    BY <1>2 DEF FailedCall, TaskRecords
  <2>2. /\ task' \in TaskRecords /\ task'.step = "restore"
        /\ task'.entries = task.entries
        /\ task'.at = task.at /\ task'.undo = task.undo
        /\ task'.original = task.original /\ task'.calls = task.calls + 1
    BY <1>3, <2>a DEF TaskRecords
  <2>3. /\ main' = main /\ damaged' = damaged /\ adventure' = adventure
        /\ Rest /\ last' = last /\ Others /\ faults' \in Nat
    BY <1>1, <2>2, CallFacts, ReplaceRests DEF NoPut, Rest, Fault
  <2>4. PakInv'
    BY <1>1, <2>3, QuietCallKeepsPak
  <2>5. /\ task.calls \in Nat
        /\ task.undo = 0 => task.calls = 0
        /\ task.undo = 1 => task.calls >= 1
    BY <1>0, <1>1, <1>2, CallFacts DEF TaskRecords
  <2>6. TaskDisk'
    BY <1>1, <2>2, <2>3, <2>5, QuietCallKeepsDisk
  <2>7. Target' = Target /\ File' = File /\ OnDisk(File)' = OnDisk(File)
    BY <2>2, <2>3, SameTarget DEF OnDisk
  <2>8. TaskFiles'
    BY <1>1, <1>3, <2>2, <2>7 DEF TaskFiles
  <2> QED BY <1>0, <1>1, <2>1, <2>2, <2>3, <2>4, <2>6, <2>8, OnwardHolds
<1>4. CASE /\ task' = Aborts(FailedCall)
           /\ importing' = [importing EXCEPT ![File] = Missing]
  <2>1. FilesTyped'
    BY <1>0, <1>2, <1>4 DEF FilesTyped, NoPut
  <2>2. task'.step # "done"
    BY <1>1, <1>4, AbortsTo, TaskStages
  <2> QED BY <1>0, <1>1, <1>4, <2>1, <2>2, QuietAbortHolds, ReplaceRests
<1> QED BY <1>3, <1>4

(* What a list of entries installs. *)
LEMMA InstalledIs ==
  ASSUME NEW t, t.entries \in EntryLists
  PROVE  /\ t.entries[1].file = "adventure" =>
               Installed(t, "adventure") = {t.entries[1].image}
         /\ t.entries[1].file = "pak" =>
               Installed(t, "adventure") = {} /\ Installed(t, "pak") = {t.entries[1].image}
         /\ Len(t.entries) = 2 => Installed(t, "pak") = {t.entries[2].image}
         /\ t.entries[1].file = "adventure" /\ Len(t.entries) = 1 =>
               Installed(t, "pak") = {}
<1> DEFINE es == t.entries
<1>1. /\ Len(es) = 1 \/ Len(es) = 2
      /\ es \in Seq([file : Files, image : Int])
      /\ es[1].file = "adventure" \/ (es[1].file = "pak" /\ Len(es) = 1)
      /\ Len(es) = 2 => es[1].file = "adventure" /\ es[2].file = "pak"
  BY EntryShape
<1>2. DOMAIN es = 1 .. Len(es)
  BY <1>1
<1> HIDE DEF es
<1>3. CASE Len(es) = 1
  <2>1. Range(es) = {es[1]}
    BY <1>2, <1>3 DEF Range
  <2>2. \A f : Installed(t, f) = {e.image : e \in {x \in {es[1]} : x.file = f}}
    BY <2>1 DEF Installed, es
  <2> QED BY <1>1, <1>3, <2>2 DEF es
<1>4. CASE Len(es) = 2
  <2>1. Range(es) = {es[1], es[2]}
    BY <1>2, <1>4 DEF Range
  <2>2. \A f : Installed(t, f) = {e.image : e \in {x \in {es[1], es[2]} : x.file = f}}
    BY <2>1 DEF Installed, es
  <2> QED BY <1>1, <1>4, <2>2 DEF es
<1> QED BY <1>1, <1>3, <1>4

(* .importing takes the place of the destination. *)
Installs ==
    /\ Replace
    /\ Puts(File, importing[File])
    /\ importing' = [importing EXCEPT ![File] = Missing]
    /\ rollback' = [rollback EXCEPT ![File] = Missing]
    /\ task' = Committed
    /\ UNCHANGED faults

LEMMA InstallFacts ==
  ASSUME GarageInv, Installs
  PROVE  /\ task.step \in Calls \ {"unlink", "restoring"} /\ GarageTypes /\ TaskShape
         /\ task \in TaskRecords /\ File \in Files
         /\ File = "adventure" => /\ adventure' = Target.image /\ Target.image \in Saves
                                  /\ main' = main
         /\ File = "pak" => main' = Target.image /\ adventure' = adventure
         /\ damaged' = damaged /\ backups' = backups /\ Others
         /\ FilesTyped'
         /\ task.undo = 0 => task.calls = 0
<1>1. task.step = "replace" /\ backups' = backups /\ Others
  BY DEF Installs, Replace
<1>2. /\ task.step \in Calls \ {"unlink", "restoring"} /\ GarageTypes /\ TaskShape
      /\ importing[File] = Target.image
  BY <1>1 DEF GarageInv, TaskFiles
<1>3. /\ task \in TaskRecords /\ FilesTyped /\ File \in Files
      /\ task.undo = 0 => task.calls = 0
  BY <1>1, <1>2, CallFacts, TaskStages
<1>4. /\ File = "adventure" => Target.image \in Saves
      /\ File = "pak" => Target.image \in Images
  BY <1>2, TaskStages
<1>5. /\ File = "adventure" => adventure' = Target.image /\ main' = main
      /\ File = "pak" => main' = Target.image /\ adventure' = adventure
  BY <1>2 DEF Installs, Puts
<1>6. damaged' = damaged
  <2>1. ~(File = "pak" /\ importing[File] = Torn)
    BY <1>2, <1>4, PakAssumption DEF Images
  <2>2. damaged' = (damaged \/ (File = "pak" /\ importing[File] = Torn))
    BY DEF Installs, Puts
  <2>3. damaged \in BOOLEAN
    BY <1>2, CallFacts DEF PakInv, TypeOK
  <2> QED BY <2>1, <2>2, <2>3
<1>7. FilesTyped'
  BY <1>1, <1>3, <1>4, <1>5 DEF Installs, FilesTyped, Disk
<1> QED BY <1>1, <1>2, <1>3, <1>4, <1>5, <1>6, <1>7

(* The Adventure is back in place. *)
LEMMA UndoneHolds ==
  ASSUME GarageInv, Installs, task.undo = 1
  PROVE  GarageInv'
<1>1. /\ task.step \in Calls /\ GarageTypes /\ TaskShape /\ Others /\ FilesTyped'
      /\ backups' = backups /\ damaged' = damaged
  BY InstallFacts
<1>2. /\ task.at = 1 /\ File = "adventure" /\ Target.image = task.original["adventure"]
  BY <1>1, TaskStages
<1>3. main' = main /\ adventure' = task.original["adventure"]
  BY <1>2, InstallFacts
<1>4. task' = Aborts(task)
  BY DEF Installs, Committed, Aborts
<1>5. task'.step = "failed"
  BY <1>1, <1>4, AbortsTo
<1>6. Rest /\ faults' \in Nat
  BY <1>1, <1>5, ReplaceRests, CallFacts DEF Installs
<1>7. PakInv' /\ last' = last
  BY <1>1, <1>3, <1>6, QuietCallKeepsPak DEF Rest
<1>8. task.calls <= 1 => main' = task.original["pak"]
  BY <1>1, <1>3, CallFacts DEF TaskRecords
<1>9. task.step # "backup"
  BY DEF Installs, Replace
<1> QED BY <1>1, <1>2, <1>3, <1>4, <1>7, <1>8, <1>9, AbortHolds

(* The Adventure of a bundle is in place, its Pak is next. *)
LEMMA NextEntryHolds ==
  ASSUME GarageInv, Installs, task.undo = 0, task.at + 1 # Len(task.entries)
  PROVE  GarageInv'
<1>1. /\ task.step \in Calls /\ GarageTypes /\ TaskShape /\ Others /\ FilesTyped'
      /\ backups' = backups /\ damaged' = damaged /\ task.calls = 0
      /\ task \in TaskRecords
  BY InstallFacts
<1>2. /\ task.entries \in EntryLists /\ task.at = 0 /\ Len(task.entries) = 2
      /\ File = "adventure" /\ Target.image = task.entries[1].image
      /\ task.entries[1].file = "adventure"
  <2>1. task.entries \in EntryLists /\ task.at \in {0, 1}
    BY <1>1, TaskStages
  <2>2. task.at = 0
    BY <1>1, <2>1, TaskStages
  <2>3. Len(task.entries) = 2
    BY <2>1, <2>2, EntryShape
  <2> QED BY <1>1, <2>1, <2>2, <2>3, TaskStages, EntryShape
<1>3. main' = main /\ adventure' = task.entries[1].image
  BY <1>2, InstallFacts
<1>4. task' = [[task EXCEPT !.at = 1] EXCEPT !.step = "backup"]
  BY <1>2 DEF Installs, Committed
<1>5. /\ task' \in TaskRecords /\ task'.step = "backup" /\ task'.at = 1
      /\ task'.entries = task.entries /\ task'.undo = 0 /\ task'.calls = 0
      /\ task'.original = task.original
  <2>1. /\ [task EXCEPT !.at = 1] \in TaskRecords
    BY <1>1 DEF TaskRecords
  <2> QED BY <1>1, <1>4, <2>1 DEF TaskRecords
<1>6. Rest /\ faults' \in Nat
  BY <1>1, <1>5, ReplaceRests, CallFacts DEF Installs
<1>7. PakInv' /\ last' = last
  BY <1>1, <1>3, <1>6, QuietCallKeepsPak DEF Rest
<1>8. game' = game /\ pc' = pc /\ progress' = progress /\ tasks' = tasks
  BY <1>1 DEF Others
<1>9. GarageTypes'
  BY <1>1, <1>5, <1>7, <1>8 DEF GarageTypes, FilesTyped, TaskRecords
<1>10. TaskShape'
  <2>1. task'.at < Len(task'.entries)
    <3>1. task'.at = 1 /\ Len(task'.entries) = 2
      BY <1>2, <1>5
    <3> QED BY ONLY <3>1
  <2> QED BY <1>1, <1>2, <1>5, <1>8, <2>1 DEF TaskShape
<1>11. TaskDisk'
  <2>1. main = task.original["pak"]
    BY <1>1, CallFacts DEF Installs, Replace
  <2> QED BY <1>3, <1>5, <2>1 DEF TaskDisk, OnDisk
<1>12. TaskFiles'
  BY <1>5 DEF TaskFiles
<1>13. last = Missing \/ last \in backups["adventure"]
  BY <1>2 DEF GarageInv, BackedUp, Installs, Replace
<1>14. BackedUp' /\ AdventureKept'
  BY <1>1, <1>7, <1>13 DEF BackedUp, AdventureKept
<1>15. OneFailure'
  BY <1>5 DEF OneFailure
<1> QED BY <1>7, <1>9, <1>10, <1>11, <1>12, <1>14, <1>15 DEF GarageInv

(* The last entry is in place: the player has what was installed. *)
LEMMA DoneHolds ==
  ASSUME GarageInv, Installs, task.undo = 0, task.at + 1 = Len(task.entries)
  PROVE  GarageInv'
<1> DEFINE es == task.entries
<1>1. /\ task.step \in Calls /\ GarageTypes /\ TaskShape /\ Others /\ FilesTyped'
      /\ backups' = backups /\ damaged' = damaged /\ task.calls = 0
      /\ task \in TaskRecords /\ PakInv /\ pc \in {"idle", "unloaded"}
      /\ faults' \in Nat
  BY InstallFacts, CallFacts DEF Installs
<1>2. /\ es \in EntryLists /\ task.at \in {0, 1}
      /\ File \in Files
      /\ task.at = 0 => Len(es) = 1 /\ File = es[1].file /\ Target.image = es[1].image
      /\ task.at = 1 => Len(es) = 2 /\ File = "pak" /\ Target.image = es[2].image
                        /\ es[1].file = "adventure"
  BY <1>1, TaskStages, EntryShape
<1>3. task' = [[task EXCEPT !.at = task.at + 1] EXCEPT !.step = "done"]
  BY DEF Installs, Committed
<1>4. /\ task' \in TaskRecords /\ task'.step = "done" /\ task'.at = task.at + 1
      /\ task'.entries = es /\ task'.undo = 0 /\ task'.original = task.original
  <2>1. [task EXCEPT !.at = task.at + 1] \in TaskRecords
    BY <1>1, <1>2 DEF TaskRecords
  <2> QED BY <1>1, <1>3, <2>1 DEF TaskRecords
<1>5. \A f : Installed(task', f) = Installed(task, f)
  BY <1>4 DEF Installed
<1>6. /\ Installed(task', "pak") \subseteq {main'}
      /\ File # "pak" => Installed(task', "pak") = {} /\ main' = main
      /\ File = "pak" => Installed(task', "pak") = {main'} /\ main' \in Images
  <2>1. CASE task.at = 0 /\ File = "adventure"
    BY <1>2, <1>5, <2>1, InstalledIs, InstallFacts
  <2>2. CASE task.at = 0 /\ File = "pak"
    BY <1>2, <1>5, <2>2, InstalledIs, InstallFacts, EntryShape
  <2>3. CASE task.at = 1
    BY <1>2, <1>5, <2>3, InstalledIs, InstallFacts, EntryShape
  <2> QED BY <1>2, <2>1, <2>2, <2>3
<1>7. /\ Installed(task', "adventure") \subseteq {adventure'}
      /\ es[1].file = "adventure" =>
            Installed(task', "adventure") = {adventure'} /\ adventure' \in Saves
      /\ es[1].file # "adventure" =>
            Installed(task', "adventure") = {} /\ adventure' = adventure
  <2>1. CASE task.at = 0 /\ File = "adventure"
    BY <1>2, <1>5, <2>1, InstalledIs, InstallFacts
  <2>2. CASE task.at = 0 /\ File = "pak"
    BY <1>2, <1>5, <2>2, InstalledIs, InstallFacts
  <2>3. CASE task.at = 1
    <3>1. adventure = es[1].image
      <4>1. TaskDisk /\ task.step # "restoring"
        BY DEF GarageInv, Installs, Replace
      <4>2. OnDisk("adventure") = es[1].image
        BY <1>1, <2>3, <4>1 DEF TaskDisk
      <4> QED BY <4>2 DEF OnDisk
    <3>2. adventure' = adventure
      BY <1>2, <2>3, InstallFacts
    <3> QED BY <1>2, <1>5, <2>3, <3>1, <3>2, InstalledIs, EntryShape
  <2> QED BY <1>2, <2>1, <2>2, <2>3
<1>8. /\ File = "pak" => acked' = main'
      /\ File # "pak" => acked' = acked
  <2>1. acked' = HasThen(task', "pak", acked)
    BY DEF Installs, Replace
  <2>2. CASE File = "pak"
    <3>1. Installed(task', "pak") = {main'} /\ main' # Mended
      BY <1>6, <2>2, PakAssumption DEF Images
    <3> QED BY <1>4, <2>1, <2>2, <3>1 DEF HasThen
  <2>3. CASE File # "pak"
    BY <1>6, <2>1, <2>3 DEF HasThen
  <2> QED BY <2>2, <2>3
<1>9. \/ last' = adventure' /\ adventure' \in 0 .. MaxProgress
      \/ last' = last /\ (es[1].file = "adventure" \/ adventure' = adventure)
  <2>1. last' = HasThen(task', "adventure", last)
    BY DEF Installs, Replace
  <2>2. CASE es[1].file = "adventure" /\ adventure' # Mended
    <3>1. Installed(task', "adventure") = {adventure'} /\ adventure' \in Saves
      BY <1>7, <2>2
    <3> QED BY <1>4, <2>1, <2>2, <3>1 DEF HasThen
  <2>3. CASE ~(es[1].file = "adventure" /\ adventure' # Mended)
    <3>1. Installed(task', "adventure") \ {Mended} = {}
      BY <1>7, <2>3
    <3> QED BY <1>7, <2>1, <2>3, <3>1 DEF HasThen
  <2> QED BY <2>2, <2>3
<1>10. PakInv'
  <2>1. before' = IF acked' # acked /\ bak \in Images THEN bak ELSE before
    BY DEF Installs, Replace
  <2>2. /\ main \in Disk /\ acked \in Images /\ before \in Images
        /\ main = Torn => damaged
        /\ main \in Images => main = acked
        /\ bak \in Images => bak \in {before, acked}
    BY <1>1 DEF PakInv, TypeOK, AckedOnDisk
  <2>3. damaged' \in BOOLEAN
    BY <1>1 DEF PakInv, TypeOK
  <2>4. /\ main' \in Disk /\ acked' \in Images /\ before' \in Images
        /\ main' = Missing => main = Missing /\ acked' = acked
        /\ main' = Torn => damaged'
        /\ main' \in Images => main' = acked'
        /\ bak \in Images => bak \in {before', acked'}
    BY <1>1, <1>6, <1>8, <2>1, <2>2, PakAssumption DEF Disk, Images
  <2> QED BY <1>1, <2>3, <2>4, TaskKeepsPak
<1>11. game' = game /\ pc' = pc /\ progress' = progress /\ tasks' = tasks
  BY <1>1 DEF Others
<1>12. GarageTypes'
  BY <1>1, <1>4, <1>9, <1>11 DEF GarageTypes, FilesTyped, TaskRecords
<1>13. TaskShape'
  BY <1>1, <1>4, <1>11 DEF TaskShape
<1>14. TaskDisk' /\ TaskFiles' /\ BackedUp'
  <2>1. task'.at = 0 => FALSE
    BY <1>2, <1>4
  <2> QED BY <1>4, <2>1 DEF TaskDisk, TaskFiles, BackedUp
<1>15. AdventureKept'
  <2>1. es[1].file = "adventure" => last = Missing \/ last \in backups["adventure"]
    BY <1>2 DEF GarageInv, BackedUp, Installs, Replace
  <2>2. AdventureKept
    BY DEF GarageInv
  <2> QED BY <1>1, <1>9, <2>1, <2>2 DEF AdventureKept
<1>16. OneFailure'
  BY <1>4, <1>6, <1>7 DEF OneFailure, OnDisk
<1> QED BY <1>10, <1>12, <1>13, <1>14, <1>15, <1>16 DEF GarageInv

(* ... and .importing takes its place, or the copy is to be put back. *)
LEMMA ReplaceHolds == GarageInv /\ Replace => GarageInv'
<1> SUFFICES ASSUME GarageInv, Replace PROVE GarageInv'
  OBVIOUS
<1>1. CASE /\ Puts(File, importing[File])
           /\ importing' = [importing EXCEPT ![File] = Missing]
           /\ rollback' = [rollback EXCEPT ![File] = Missing]
           /\ task' = Committed
           /\ UNCHANGED faults
  <2>1. Installs
    BY <1>1 DEF Installs
  <2>2. task.undo \in {0, 1}
    BY <2>1, InstallFacts, TaskStages
  <2> QED BY <2>1, <2>2, UndoneHolds, NextEntryHolds, DoneHolds
<1>2. CASE /\ Fault /\ OnDisk(File) # Missing
           /\ task' = [FailedCall EXCEPT !.step = "restore"]
           /\ NoPut /\ UNCHANGED <<importing, rollback>>
  BY <1>2, ReplaceFails
<1>3. CASE /\ Fault /\ OnDisk(File) = Missing /\ task' = Aborts(FailedCall)
           /\ importing' = [importing EXCEPT ![File] = Missing]
           /\ NoPut /\ UNCHANGED rollback
  BY <1>3, ReplaceFails
<1> QED BY <1>1, <1>2, <1>3 DEF Replace

(* A task puts back only an acknowledged or a torn Pak. *)
LEMMA PutKeepsPak ==
  ASSUME GarageInv, task.step \in Calls, Rest, faults' \in Nat,
         NEW f, NEW v, Puts(f, v),
         f = "pak" => v = Torn \/ v = acked
  PROVE  PakInv'
<1>1. PakInv /\ pc \in {"idle", "unloaded"} /\ Others /\ acked' = acked /\ before' = before
  BY CallFacts DEF Rest
<1>2. /\ main \in Disk /\ acked \in Images /\ before \in Images
      /\ main = Torn => damaged
      /\ main \in Images => main = acked
      /\ bak \in Images => bak \in {before, acked}
  BY <1>1 DEF PakInv, TypeOK, AckedOnDisk
<1>3. /\ damaged' \in BOOLEAN /\ (damaged => damaged')
      /\ f = "pak" /\ v = Torn => damaged'
  BY DEF Puts
<1>4. main' = IF f = "pak" THEN v ELSE main
  BY DEF Puts
<1>5. /\ main' \in Disk
      /\ main' = Missing => main = Missing
      /\ main' \in Images => main' = acked
  BY <1>2, <1>4, PakAssumption DEF Disk, Images
<1>6. main' = Torn => damaged'
  <2>1. CASE f = "pak"
    BY <1>3, <1>4, <2>1
  <2>2. CASE f # "pak"
    BY <1>2, <1>3, <1>4, <2>2
  <2> QED BY <2>1, <2>2
<1> QED BY <1>1, <1>2, <1>3, <1>5, <1>6, TaskKeepsPak

(* The copy of .rollback over the destination, step by step. *)
LEMMA RestoreHolds == GarageInv /\ Restore => GarageInv'
<1> SUFFICES ASSUME GarageInv, Restore PROVE GarageInv'
  OBVIOUS
<1>0. /\ task.step \in {"restore", "restoring"} /\ Rest
      /\ rollback' = rollback /\ backups' = backups
  BY DEF Restore
<1>1. /\ task.step \in Calls /\ GarageTypes /\ TaskShape /\ TaskDisk /\ TaskFiles
      /\ PakInv /\ Others /\ last' = last
  BY <1>0 DEF GarageInv, Rest
<1>2. /\ task \in TaskRecords /\ FilesTyped /\ task.undo \in {0, 1} /\ task.at \in {0, 1}
      /\ File \in Files /\ faults \in Nat /\ main \in Disk
      /\ task.undo = 1 => File = "adventure" /\ task.at = 1
      /\ task.undo = 0 /\ task.at = 1 => File = "pak"
  BY <1>1, CallFacts, TaskStages
<1>3. /\ task.calls \in Nat
      /\ task.undo = 0 => task.calls = 1
      /\ task.undo = 1 => task.calls >= 2
  BY <1>0, <1>1, <1>2 DEF TaskDisk, TaskRecords
<1>4. ASSUME NEW v, Puts(File, v)
      PROVE  /\ File = "pak" => main' = v /\ adventure' = adventure
             /\ File = "adventure" => adventure' = v /\ main' = main
  BY <1>4 DEF Puts
<1>5. CASE /\ task.step = "restore" /\ Puts(File, Torn)
           /\ task' = [task EXCEPT !.step = "restoring"]
           /\ UNCHANGED <<importing, faults>>
  <2>1. /\ task' \in TaskRecords /\ task'.step = "restoring"
        /\ task'.entries = task.entries
        /\ task'.at = task.at /\ task'.undo = task.undo
        /\ task'.original = task.original /\ task'.calls = task.calls
    BY <1>2, <1>5 DEF TaskRecords
  <2>2. /\ File = "pak" => main' = Torn /\ adventure' = adventure
        /\ File = "adventure" => adventure' = Torn /\ main' = main
    BY <1>4, <1>5
  <2>3. PakInv'
    BY <1>0, <1>1, <1>2, <1>5, PutKeepsPak
  <2>4. FilesTyped'
    BY <1>0, <1>2, <1>5, <2>2 DEF FilesTyped
  <2>5. Target' = Target /\ File' = File
    BY <2>1, SameTarget
  <2>6. \A f \in Files : f # File => OnDisk(f)' = OnDisk(f)
    BY <1>2, <2>2 DEF OnDisk
  <2>7. task.undo = 0 =>
           \A f \in Files : OnDisk(f) = IF f = "adventure" /\ task.at = 1
                                        THEN task.entries[1].image ELSE task.original[f]
    BY <1>1, <1>5 DEF TaskDisk
  <2>8. TaskDisk'
    <3>1. CASE task.undo = 0
      BY <1>3, <2>1, <2>5, <2>6, <2>7, <3>1 DEF TaskDisk
    <3>2. CASE task.undo = 1
      BY <1>3, <2>1, <3>2 DEF TaskDisk
    <3> QED BY <1>2, <3>1, <3>2
  <2>9. OnDisk(File) # Missing /\ rollback[File] = OnDisk(File)
    BY <1>1, <1>5 DEF TaskFiles
  <2>10. task.undo = 0 => OnDisk(File) = task.original[File]
    BY <1>2, <2>7
  <2>11. File = "pak" => rollback["pak"] \in {acked, Torn}
    BY <1>1, <1>2, <2>9 DEF OnDisk, PakInv, AckedOnDisk, Disk
  <2>12. TaskFiles'
    BY <1>0, <2>1, <2>2, <2>5, <2>9, <2>10, <2>11 DEF TaskFiles, Rest
  <2>13. task.step \in Calls \ {"unlink"} /\ task.step # "backup"
    BY <1>5
  <2> QED BY <1>0, <1>1, <1>2, <2>1, <2>2, <2>3, <2>4, <2>8, <2>12, <2>13, OnwardHolds
<1>6. CASE /\ task.step = "restoring" /\ Puts(File, rollback[File])
           /\ task' = Aborts(task)
           /\ importing' = [importing EXCEPT ![File] = Missing]
           /\ UNCHANGED faults
  <2>1. /\ task.undo = 0 => rollback[File] = task.original[File]
        /\ File = "pak" => rollback["pak"] \in {acked, Torn}
    BY <1>1, <1>6 DEF TaskFiles
  <2>2. /\ File = "pak" => main' = rollback["pak"] /\ adventure' = adventure
        /\ File = "adventure" => adventure' = rollback["adventure"] /\ main' = main
    BY <1>4, <1>6
  <2>3. PakInv'
    BY <1>0, <1>1, <1>2, <1>6, <2>1, PutKeepsPak
  <2>4. FilesTyped'
    BY <1>0, <1>2, <1>6, <2>2 DEF FilesTyped
  <2>5. task.undo = 0 /\ task.at = 0 =>
           main' = task.original["pak"] /\ adventure' = task.original["adventure"]
    <3>1. task.undo = 0 /\ task.at = 0 =>
             \A f \in Files : f # File => OnDisk(f) = task.original[f]
      BY <1>1 DEF TaskDisk
    <3> QED BY <1>2, <2>1, <2>2, <3>1 DEF OnDisk
  <2>6. task.undo = 0 /\ task.at = 1 => main' = task.original["pak"]
    BY <1>2, <2>1, <2>2
  <2>7. adventure' = adventure \/ (File = "adventure" /\ task.step # "backup")
    BY <1>2, <1>6, <2>2
  <2> QED BY <1>0, <1>1, <1>2, <1>3, <1>6, <2>3, <2>4, <2>5, <2>6, <2>7, AbortHolds
<1>7. CASE /\ task.step = "restore" /\ Fault
           /\ NoPut \/ Puts(File, Torn)
           /\ task' = Aborts(FailedCall)
           /\ importing' = [importing EXCEPT ![File] = Missing]
  <2>1. CASE NoPut
    <3>1. FilesTyped'
      BY <1>0, <1>2, <1>7, <2>1 DEF FilesTyped, NoPut
    <3> QED BY <1>0, <1>1, <1>7, <2>1, <3>1, QuietAbortHolds
  <2>2. CASE Puts(File, Torn)
    <3>1. /\ File = "pak" => main' = Torn /\ adventure' = adventure
          /\ File = "adventure" => adventure' = Torn /\ main' = main
      BY <1>4, <2>2
    <3>2. faults' \in Nat
      BY <1>2, <1>7 DEF Fault
    <3>3. PakInv'
      BY <1>0, <1>1, <1>2, <2>2, <3>2, PutKeepsPak
    <3>4. FilesTyped'
      BY <1>0, <1>2, <1>7, <3>1 DEF FilesTyped
    <3>5. FailedCall.calls = task.calls + 1
      BY <1>2 DEF FailedCall, TaskRecords
    <3>6. FailedCall.calls >= 2
      BY <1>2, <1>3, <3>5
    <3>7. adventure' = adventure \/ (File = "adventure" /\ task.step # "backup")
      BY <1>2, <1>7, <3>1
    <3> QED BY <1>0, <1>1, <1>2, <1>3, <1>7, <3>3, <3>4, <3>5, <3>6, <3>7, AbortHolds
  <2> QED BY <1>7, <2>1, <2>2
<1> QED BY <1>5, <1>6, <1>7 DEF Restore

(* An Adventure that did not exist is removed again. *)
LEMMA UnlinkHolds == GarageInv /\ Unlink => GarageInv'
<1> SUFFICES ASSUME GarageInv, Unlink PROVE GarageInv'
  OBVIOUS
<1>0. /\ task.step = "unlink" /\ Rest /\ importing' = importing
      /\ rollback' = rollback /\ backups' = backups
  BY DEF Unlink
<1>1. /\ task.step \in Calls /\ GarageTypes /\ TaskShape /\ Others /\ last' = last
  BY <1>0 DEF GarageInv, Rest
<1>2. task.undo = 1 /\ ~Valid(task.original["adventure"])
  BY <1>0, <1>1 DEF TaskShape
<1>3. /\ task \in TaskRecords /\ FilesTyped /\ task.at = 1 /\ faults \in Nat
      /\ File = "adventure" /\ Len(task.entries) = 2
      /\ task.calls = 1 => main = task.original["pak"]
      /\ task.calls >= 1
  BY <1>1, <1>2, CallFacts, TaskStages
<1>4. task.original["adventure"] = Missing
  BY <1>1, <1>2, <1>3 DEF TaskShape, Valid
<1>5. CASE Puts(File, Missing) /\ task' = Aborts(task) /\ UNCHANGED faults
  <2>1. main' = main /\ adventure' = Missing
    BY <1>3, <1>5 DEF Puts
  <2>2. PakInv'
    BY <1>0, <1>1, <1>3, <1>5, PutKeepsPak
  <2>3. FilesTyped'
    BY <1>0, <1>3, <2>1 DEF FilesTyped
  <2>4. task.calls <= 1 => main' = task.original["pak"]
    BY <1>3, <2>1 DEF TaskRecords
  <2> QED BY <1>0, <1>1, <1>2, <1>3, <1>4, <1>5, <2>1, <2>2, <2>3, <2>4, AbortHolds
<1>6. CASE NoPut /\ task' = Aborts(FailedCall) /\ Fault
  <2>1. FilesTyped'
    BY <1>0, <1>3, <1>6 DEF FilesTyped, NoPut
  <2> QED BY <1>0, <1>1, <1>6, <2>1, QuietAbortHolds
<1> QED BY <1>5, <1>6 DEF Unlink

-----------------------------------------------------------------------------
(* Beginning and ending a task, and the game *)

(* The stages of a task say nothing when there is none. *)
LEMMA IdleHolds ==
  ASSUME task'.step = "idle"
  PROVE  TaskDisk' /\ TaskFiles' /\ BackedUp' /\ OneFailure'
BY DEF TaskDisk, TaskFiles, BackedUp, OneFailure

LEMMA NoTaskTyped == NoTask \in TaskRecords /\ NoTask.entries = << >> /\ NoTask.step = "idle"
BY DEF NoTask, TaskRecords

(* A task begins with the list of what it replaces and the files as they   *)
(* are; a bundle is refused when one of them is torn.                      *)
LEMMA BeginHolds ==
  ASSUME GarageInv, NEW es \in EntryLists, Begins(es),
         changes' \in Nat, progress' \in 0 .. MaxProgress,
         Len(es) = 2 => main # Torn /\ adventure # Torn
  PROVE  GarageInv'
<1>1. /\ game = "launcher" /\ task.step = "idle" /\ tasks < MaxTasks /\ tasks' = tasks + 1
      /\ task' = [NoTask EXCEPT !.step = "backup", !.entries = es,
                                !.original = [f \in Files |-> OnDisk(f)]]
      /\ main' = main /\ bak' = bak /\ tmp' = tmp /\ pc' = pc /\ image' = image
      /\ corrupt' = corrupt /\ acked' = acked /\ before' = before
      /\ damaged' = damaged /\ faults' = faults /\ game' = game
      /\ adventure' = adventure /\ importing' = importing /\ rollback' = rollback
      /\ backups' = backups /\ last' = last
  BY DEF Begins, files
<1>2. PakInv /\ GarageTypes /\ TaskShape /\ AdventureKept
  BY DEF GarageInv
<1>3. main \in Disk /\ adventure \in Saves \cup {Missing, Torn}
  BY <1>2 DEF PakInv, TypeOK, GarageTypes
<1>4. /\ task' = [step |-> "backup", entries |-> es, at |-> 0, undo |-> 0,
                  original |-> [f \in Files |-> OnDisk(f)], calls |-> 0]
  BY <1>1 DEF NoTask
<1>5. /\ task'.step = "backup" /\ task'.entries = es /\ task'.at = 0 /\ task'.undo = 0
      /\ task'.calls = 0
      /\ task'.original = [f \in Files |-> OnDisk(f)]
  BY <1>4
<1>6. /\ task'.original["pak"] = main /\ task'.original["adventure"] = adventure
      /\ task'.original \in [Files -> Int]
  BY <1>3, <1>5, PakAssumption, GarageAssumption DEF OnDisk, Disk, Images
<1>7. task' \in TaskRecords
  BY <1>4, <1>5, <1>6 DEF TaskRecords
<1>8. PakInv'
  <2>1. corrupt' \in BOOLEAN /\ damaged' \in BOOLEAN
    BY <1>1, <1>2 DEF PakInv, TypeOK
  <2>2. TypeOK'
    BY <1>1, <1>2, <2>1 DEF PakInv, TypeOK
  <2>3. SaveStages' /\ AckedOnDisk'
    BY <1>1, <1>2 DEF PakInv, SaveStages, AckedOnDisk
  <2> QED BY <2>2, <2>3 DEF PakInv
<1>9. GarageTypes'
  <2>1. tasks' \in 0 .. MaxTasks
    BY <1>1, <1>2, GarageAssumption DEF GarageTypes
  <2> QED BY <1>1, <1>2, <1>3, <1>6, <1>7, <2>1 DEF GarageTypes, TaskRecords
<1>10. TaskShape'
  <2>1. Len(es) = 2 => \A f \in Files : task'.original[f] # Torn
    BY <1>6
  <2>2. task'.at < Len(task'.entries)
    <3>1. Len(es) = 1 \/ Len(es) = 2
      BY EntryShape
    <3>2. CASE Len(es) = 1
      BY <1>5, <3>2
    <3>3. CASE Len(es) = 2
      BY <1>5, <3>3
    <3> QED BY <3>1, <3>2, <3>3
  <2> QED BY <1>1, <1>2, <1>5, <2>1, <2>2 DEF TaskShape
<1>11. TaskDisk'
  BY <1>1, <1>5, <1>6 DEF TaskDisk, OnDisk
<1>12. TaskFiles' /\ BackedUp' /\ OneFailure'
  BY <1>5 DEF TaskFiles, BackedUp, OneFailure
<1>13. AdventureKept'
  BY <1>1, <1>2 DEF AdventureKept
<1> QED BY <1>8, <1>9, <1>10, <1>11, <1>12, <1>13 DEF GarageInv

LEMMA PairOfEntries == ASSUME NEW a, NEW b PROVE <<a>> \o <<b>> = <<a, b>>
<1> DEFINE s == <<a>> \o <<b>>
<1>1. <<a>> \in Seq({a, b}) /\ <<b>> \in Seq({a, b}) /\ <<a, b>> \in Seq({a, b})
  OBVIOUS
<1>2. Len(<<a>>) = 1 /\ Len(<<b>>) = 1 /\ Len(<<a, b>>) = 2
  OBVIOUS
<1>3. s \in Seq({a, b}) /\ Len(s) = 2
  BY <1>1, <1>2
<1>4. s[1] = a /\ s[2] = b
  BY <1>1, <1>2
<1> HIDE DEF s
<1>5. \A i \in 1 .. 2 : s[i] = <<a, b>>[i]
  BY <1>4
<1>6. s = <<a, b>>
  BY <1>1, <1>2, <1>3, <1>5, SeqEqual
<1> QED BY <1>6 DEF s

(* Whatever the player asks the Save Manager for. *)
LEMMA RequestHolds ==
  ASSUME GarageInv,
         \/ \E v \in 0 .. MaxProgress : ImportAdventure(v) \/ ReplaceAdventure(v)
         \/ RepairAdventure
         \/ \E both \in BOOLEAN : ImportBundle(both)
  PROVE  GarageInv'
<1>1. /\ progress \in 0 .. MaxProgress /\ changes \in Nat
  BY DEF GarageInv, GarageTypes, PakInv, TypeOK
<1> USE GarageAssumption, PakAssumption
<1>2. ASSUME NEW v \in Saves PROVE <<Entry("adventure", v)>> \in EntryLists
                                   /\ Len(<<Entry("adventure", v)>>) = 1
  BY DEF EntryLists
<1>3. ASSUME NEW v \in 0 .. MaxProgress, ImportAdventure(v) \/ ReplaceAdventure(v)
      PROVE  GarageInv'
  <2>1. /\ Begins(<<Entry("adventure", v)>>) /\ changes' = changes
        /\ progress' = IF v > progress THEN v ELSE progress
    BY <1>3 DEF ImportAdventure, ReplaceAdventure
  <2>2. progress' \in 0 .. MaxProgress /\ changes' \in Nat
    BY <1>1, <2>1
  <2>3. v \in Saves
    OBVIOUS
  <2> DEFINE es == <<Entry("adventure", v)>>
  <2>4. es \in EntryLists /\ Len(es) = 1 /\ Begins(es)
    BY <1>2, <2>1, <2>3
  <2> HIDE DEF es
  <2> QED BY <2>2, <2>4, BeginHolds
<1>4. ASSUME RepairAdventure PROVE GarageInv'
  <2>1. /\ Begins(<<Entry("adventure", Mended)>>) /\ changes' = changes
        /\ progress' = progress
    BY <1>4 DEF RepairAdventure
  <2> DEFINE es == <<Entry("adventure", Mended)>>
  <2>2. es \in EntryLists /\ Len(es) = 1 /\ Begins(es)
    BY <1>2, <2>1
  <2> HIDE DEF es
  <2> QED BY <1>1, <2>1, <2>2, BeginHolds
<1>5. ASSUME NEW both \in BOOLEAN, ImportBundle(both) PROVE GarageInv'
  <2>1. /\ main # Torn /\ (both => adventure # Torn /\ progress < MaxProgress)
        /\ changes < MaxImages /\ changes' = changes + 1
        /\ progress' = IF both THEN progress + 1 ELSE progress
        /\ Begins(IF both THEN <<Entry("adventure", progress + 1)>>
                                 \o <<Entry("pak", changes + 1)>>
                          ELSE <<Entry("pak", changes + 1)>>)
    BY <1>5 DEF ImportBundle
  <2>2. progress' \in 0 .. MaxProgress /\ changes' \in Nat /\ changes + 1 \in Images
    BY <1>1, <2>1 DEF Images
  <2>3. CASE both
    <3> DEFINE es == <<Entry("adventure", progress + 1), Entry("pak", changes + 1)>>
    <3>1. progress + 1 \in Saves
      BY <1>1, <2>1, <2>3
    <3>2. es \in EntryLists
      BY <2>2, <3>1 DEF EntryLists
    <3>3. <<Entry("adventure", progress + 1)>> \o <<Entry("pak", changes + 1)>> = es
      BY PairOfEntries
    <3>4. Begins(es)
      BY <2>1, <2>3, <3>3
    <3> HIDE DEF es
    <3> QED BY <2>1, <2>2, <2>3, <3>2, <3>4, BeginHolds
  <2>4. CASE ~both
    <3> DEFINE es == <<Entry("pak", changes + 1)>>
    <3>1. es \in EntryLists /\ Len(es) = 1
      BY <2>2 DEF EntryLists
    <3>2. Begins(es)
      BY <2>1, <2>4
    <3> HIDE DEF es
    <3> QED BY <2>1, <2>2, <3>1, <3>2, BeginHolds
  <2> QED BY <2>3, <2>4
<1> QED BY <1>3, <1>4, <1>5

(* The game and the launcher take turns; the Pak is left between saves. *)
LEMMA TurnHolds == GarageInv /\ (StartGame \/ StopGame \/ Report) => GarageInv'
<1> SUFFICES ASSUME GarageInv, StartGame \/ StopGame \/ Report PROVE GarageInv'
  OBVIOUS
<1>1. PakInv /\ GarageTypes /\ TaskShape /\ AdventureKept
  BY DEF GarageInv
<1>2. /\ main' = main /\ bak' = bak /\ tmp' = tmp /\ pc' = pc /\ image' = image
      /\ corrupt' = corrupt /\ acked' = acked /\ before' = before
      /\ damaged' = damaged /\ changes' = changes /\ faults' = faults
      /\ adventure' = adventure /\ importing' = importing /\ rollback' = rollback
      /\ backups' = backups /\ last' = last /\ progress' = progress /\ tasks' = tasks
  BY DEF StartGame, StopGame, Report, vars, files
<1>3. PakInv'
  BY <1>1, <1>2 DEF PakInv, TypeOK, SaveStages, AckedOnDisk
<1>4. AdventureKept'
  BY <1>1, <1>2 DEF AdventureKept
<1>5. CASE StartGame \/ StopGame
  <2>1. task' = task /\ task.step = "idle" /\ game' \in {"launcher", "running"}
    BY <1>1, <1>5 DEF StartGame, StopGame, TaskShape
  <2>2. GarageTypes'
    BY <1>1, <1>2, <2>1 DEF GarageTypes
  <2>3. TaskShape'
    BY <1>1, <1>2, <1>5, <2>1 DEF TaskShape, StartGame, StopGame
  <2> QED BY <1>3, <1>4, <2>1, <2>2, <2>3, IdleHolds DEF GarageInv
<1>6. CASE Report
  <2>1. task' = NoTask /\ game' = game
    BY <1>6 DEF Report
  <2>2. GarageTypes'
    BY <1>1, <1>2, <2>1, PakAssumption DEF GarageTypes, NoTask, Disk
  <2>3. TaskShape'
    BY <1>1, <1>2, <2>1, NoTaskTyped DEF TaskShape
  <2> QED BY <1>3, <1>4, <2>1, <2>2, <2>3, NoTaskTyped, IdleHolds DEF GarageInv
<1> QED BY <1>5, <1>6

(* What the game writes itself. *)
LEMMA GameHolds == GarageInv /\ (PlayAdventure \/ PlayPak \/ DamagePak) => GarageInv'
<1> SUFFICES ASSUME GarageInv, PlayAdventure \/ PlayPak \/ DamagePak PROVE GarageInv'
  OBVIOUS
<1>1. PakInv /\ GarageTypes /\ TaskShape /\ AdventureKept
  BY DEF GarageInv
<1>2. CASE PlayAdventure
  <2>1. /\ game = "running" /\ progress < MaxProgress /\ progress' = progress + 1
        /\ adventure' = progress + 1 /\ last' = progress + 1
        /\ game' = game /\ importing' = importing /\ rollback' = rollback
        /\ backups' = backups /\ task' = task /\ tasks' = tasks
        /\ main' = main /\ bak' = bak /\ tmp' = tmp /\ pc' = pc /\ image' = image
        /\ corrupt' = corrupt /\ acked' = acked /\ before' = before
        /\ damaged' = damaged /\ changes' = changes /\ faults' = faults
    BY <1>2 DEF PlayAdventure, vars, files
  <2>2. PakInv'
    BY <1>1, <2>1 DEF PakInv, TypeOK, SaveStages, AckedOnDisk
  <2>3. progress' \in 0 .. MaxProgress
    BY <1>1, <2>1, GarageAssumption DEF GarageTypes
  <2>4. GarageTypes'
    BY <1>1, <2>1, <2>3 DEF GarageTypes
  <2>5. TaskShape' /\ task'.step = "idle"
    BY <1>1, <2>1 DEF TaskShape
  <2>6. AdventureKept'
    BY <2>1 DEF AdventureKept
  <2> QED BY <2>2, <2>4, <2>5, <2>6, IdleHolds DEF GarageInv
<1>3. CASE PlayPak \/ DamagePak
  <2>1. PakInv'
    BY <1>1, <1>3, GameKeepsPak, FaultKeepsPak DEF DamagePak
  <2>2. /\ game' = game /\ adventure' = adventure /\ importing' = importing
        /\ rollback' = rollback /\ backups' = backups /\ task' = task
        /\ progress' = progress /\ last' = last /\ tasks' = tasks
    BY <1>3 DEF PlayPak, DamagePak, garageVars
  <2>3. GarageTypes' /\ AdventureKept'
    BY <1>1, <2>2 DEF GarageTypes, AdventureKept
  <2>4. task'.step = "idle" /\ (game' = "launcher" => pc' \in {"idle", "unloaded"})
    BY <1>1, <1>3, <2>2 DEF TaskShape, PlayPak, DamagePak, Damage
  <2>5. TaskShape'
    BY <1>1, <2>2, <2>4 DEF TaskShape
  <2> QED BY <2>1, <2>3, <2>4, <2>5, IdleHolds DEF GarageInv
<1> QED BY <1>2, <1>3

(* The process ends at any point of a task or of a save. *)
LEMMA EndHolds == GarageInv /\ EndProcess => GarageInv'
<1> SUFFICES ASSUME GarageInv, EndProcess PROVE GarageInv'
  OBVIOUS
<1>1. PakInv /\ GarageTypes /\ AdventureKept
  BY DEF GarageInv
<1>2. PakInv'
  BY <1>1, FaultKeepsPak DEF EndProcess
<1>3. /\ pc' = "unloaded" /\ game' = "launcher" /\ task' = NoTask
      /\ adventure' = adventure /\ importing' = importing
      /\ rollback' = rollback /\ backups' = backups
      /\ progress' = progress /\ last' = last /\ tasks' = tasks
  BY DEF EndProcess, End
<1>4. GarageTypes'
  BY <1>1, <1>3 DEF GarageTypes, NoTask, Disk
<1>5. TaskShape'
  BY <1>3, NoTaskTyped DEF TaskShape
<1>6. AdventureKept'
  BY <1>1, <1>3 DEF AdventureKept
<1> QED BY <1>2, <1>3, <1>4, <1>5, <1>6, NoTaskTyped, IdleHolds DEF GarageInv

-----------------------------------------------------------------------------
(* The invariant and what follows from it *)

LEMMA GarageStarts == GarageInit => GarageInv
<1> SUFFICES ASSUME GarageInit PROVE GarageInv
  OBVIOUS
<1>1. PakInv
  <2>1. main = Missing /\ bak = Missing /\ tmp = Missing /\ pc = "unloaded" /\ image = 0
        /\ acked = 0 /\ before = 0 /\ changes = 0 /\ faults = 0
    BY DEF GarageInit, Init
  <2>2. corrupt \in BOOLEAN /\ damaged \in BOOLEAN
    BY DEF GarageInit, Init
  <2>3. TypeOK
    BY <2>1, <2>2, PakAssumption DEF TypeOK, Disk, Images
  <2>4. SaveStages /\ AckedOnDisk
    BY <2>1, PakAssumption DEF SaveStages, AckedOnDisk, Images
  <2> QED BY <2>3, <2>4 DEF PakInv
<1>2. task = NoTask /\ task.step = "idle" /\ task.entries = << >>
  BY NoTaskTyped DEF GarageInit
<1>3. GarageTypes
  BY <1>2, GarageAssumption DEF GarageInit, GarageTypes, NoTask, Disk
<1>4. TaskShape
  BY <1>2 DEF GarageInit, Init, TaskShape
<1>5. TaskDisk /\ TaskFiles /\ BackedUp /\ OneFailure
  BY <1>2 DEF TaskDisk, TaskFiles, BackedUp, OneFailure
<1>6. AdventureKept
  BY DEF GarageInit, AdventureKept
<1> QED BY <1>1, <1>3, <1>4, <1>5, <1>6 DEF GarageInv

LEMMA GarageStays == GarageInv /\ UNCHANGED allVars => GarageInv'
<1> SUFFICES ASSUME GarageInv, UNCHANGED allVars PROVE GarageInv'
  OBVIOUS
<1> USE DEF allVars, vars, files, garageVars
<1>1. PakInv' /\ GarageTypes'
  BY DEF GarageInv, PakInv, TypeOK, SaveStages, AckedOnDisk, GarageTypes
<1>2. TaskShape' /\ BackedUp' /\ AdventureKept'
  BY DEF GarageInv, TaskShape, BackedUp, AdventureKept
<1>3. TaskDisk' /\ TaskFiles'
  BY DEF GarageInv, TaskDisk, TaskFiles, OnDisk, Target, File
<1>4. OneFailure'
  BY DEF GarageInv, OneFailure, OnDisk, Installed
<1> QED BY <1>1, <1>2, <1>3, <1>4 DEF GarageInv

LEMMA GarageStep == GarageInv /\ [GarageNext]_allVars => GarageInv'
BY TurnHolds, GameHolds, RequestHolds, BackupHolds, WriteImportingHolds, PreserveHolds,
   ReplaceHolds, RestoreHolds, UnlinkHolds, EndHolds, GarageStays DEF GarageNext

LEMMA GarageInvariant == GarageSpec => []GarageInv
BY GarageStarts, GarageStep, PTL DEF GarageSpec

(* save_manager.cpp never loses the Adventure: at every point of every     *)
(* task, whichever calls fail and whenever the process ends, what the      *)
(* player last played or installed is the EEPROM file or in save-backups.  *)
THEOREM AdventureNeverLost == GarageSpec => []AdventureKept
<1>1. GarageInv => AdventureKept
  BY DEF GarageInv
<1> QED BY <1>1, GarageInvariant, PTL

(* SavePakLocked and WriteAtomic together: while the primary was never     *)
(* damaged, the last acknowledged Pak is complete in the primary, the .bak *)
(* or a backup, for every interleaving of saves, tasks, faults and         *)
(* endings.                                                                *)
THEOREM PakNeverLost == GarageSpec => []PakKept
<1>1. GarageInv => PakKept
  <2> SUFFICES ASSUME GarageInv, ~damaged, acked # 0
               PROVE  acked \in {main, bak} \cup backups["pak"]
    BY DEF PakKept
  <2>1. main \in Disk /\ bak \in Disk /\ AckedOnDisk
    BY DEF GarageInv, PakInv, TypeOK
  <2> QED BY <2>1 DEF AckedOnDisk, Disk
<1> QED BY <1>1, GarageInvariant, PTL

-----------------------------------------------------------------------------
(* Nothing is replaced that is not backed up. *)

(* The calls only add to save-backups, ... *)
LEMMA BackupsGrow ==
  ASSUME GarageInv,
         Backup \/ WriteImporting \/ Preserve \/ Replace \/ Restore \/ Unlink
  PROVE  /\ \A f \in Files : backups[f] \subseteq backups'[f]
         /\ task.step \in Calls
<1>1. task.step \in Calls /\ File \in Files /\ backups \in [Files -> SUBSET Int]
  <2>1. task.step \in Calls
    BY DEF Backup, WriteImporting, Preserve, Replace, Restore, Unlink
  <2> QED BY <2>1, TaskStages DEF GarageInv, GarageTypes
<1>2. backups' = backups \/ backups' = BackupMade
  BY DEF Backup, WriteImporting, Preserve, Replace, Restore, Unlink
<1> QED BY <1>1, <1>2 DEF BackupMade

(* ... and replace no file but the one the task works on, after its        *)
(* backup.                                                                 *)
LEMMA ReplacesOne ==
  ASSUME GarageInv,
         Backup \/ WriteImporting \/ Preserve \/ Replace \/ Restore \/ Unlink,
         NEW f \in Files, f # File \/ task.step = "backup"
  PROVE  OnDisk(f)' = OnDisk(f)
<1>1. CASE Backup \/ WriteImporting \/ Preserve
  BY <1>1 DEF Backup, WriteImporting, Preserve, NoPut, OnDisk
<1>2. CASE Replace \/ Restore \/ Unlink
  <2>1. task.step # "backup"
    BY <1>2 DEF Replace, Restore, Unlink
  <2>2. \/ NoPut \/ \E v : Puts(File, v)
    BY <1>2 DEF Replace, Restore, Unlink
  <2> QED BY <2>1, <2>2 DEF NoPut, Puts, OnDisk
<1> QED BY <1>1, <1>2

(* Where a call leaves the task. *)
LEMMA CallLeads ==
  ASSUME GarageInv,
         Backup \/ WriteImporting \/ Preserve \/ Replace \/ Restore \/ Unlink
  PROVE  /\ task'.original = task.original /\ task'.entries = task.entries
         /\ task'.step \in Calls \cup {"failed", "done"}
         /\ \/ /\ task'.at = task.at /\ task'.undo = task.undo
               /\ task.step = "backup" => task'.step \in {"write", "failed"}
               /\ task.step = "backup" /\ task'.step = "write" /\ Valid(OnDisk(File)) =>
                     backups' = BackupMade
               /\ task'.step # "backup"
            \/ /\ task.at = 1 /\ task.undo = 0 /\ task'.at = 1 /\ task'.undo = 1
               /\ task'.step \in {"write", "unlink"}
            \/ /\ task.at = 0 /\ task.undo = 0 /\ task'.at = 1 /\ task'.undo = 0
               /\ task'.step = "backup" /\ task.step # "backup"
            \/ task'.step = "done"
<1>1. task.step \in Calls
  BY DEF Backup, WriteImporting, Preserve, Replace, Restore, Unlink
<1>2. /\ GarageTypes /\ TaskShape /\ task \in TaskRecords
      /\ task.at \in {0, 1} /\ task.undo \in {0, 1} /\ task.entries \in EntryLists
      /\ task.undo = 1 => task.at = 1
      /\ task.at = 1 => Len(task.entries) = 2
      /\ task.step = "backup" => task.undo = 0
  BY <1>1, TaskStages, EntryShape DEF GarageInv, GarageTypes, TaskRecords, TaskShape
<1>3. ASSUME NEW t \in {task, FailedCall}, task' = Aborts(t)
      PROVE  /\ task'.original = task.original /\ task'.entries = task.entries
             /\ \/ task'.at = task.at /\ task'.undo = task.undo /\ task'.step = "failed"
                \/ /\ task.at = 1 /\ task.undo = 0 /\ task'.at = 1 /\ task'.undo = 1
                   /\ task'.step \in {"write", "unlink"}
  BY <1>1, <1>2, <1>3, AbortsTo
<1>4. ASSUME task' = Committed
      PROVE  /\ task'.original = task.original /\ task'.entries = task.entries
             /\ \/ task'.at = task.at /\ task'.undo = task.undo /\ task'.step = "failed"
                \/ /\ task.at = 0 /\ task.undo = 0 /\ task'.at = 1 /\ task'.undo = 0
                   /\ task'.step = "backup"
                \/ task'.step = "done"
  <2>1. CASE task.undo = 1
    <3>1. task' = [task EXCEPT !.step = "failed"]
      BY <1>2, <1>4, <2>1 DEF Committed, UndoFrom
    <3> QED BY <1>2, <3>1 DEF TaskRecords
  <2>2. CASE task.undo = 0
    <3>1. task' = [task EXCEPT !.at = task.at + 1,
                     !.step = IF task.at + 1 = Len(task.entries) THEN "done" ELSE "backup"]
      BY <1>4, <2>2 DEF Committed
    <3>2. /\ task'.at = task.at + 1 /\ task'.undo = task.undo
          /\ task'.original = task.original /\ task'.entries = task.entries
          /\ task'.step = IF task.at + 1 = Len(task.entries) THEN "done" ELSE "backup"
      BY <1>2, <3>1 DEF TaskRecords
    <3>3. task.at = 1 => task.at + 1 = Len(task.entries)
      BY <1>2
    <3>4. CASE task.at = 1
      BY <3>2, <3>3, <3>4
    <3>5. CASE task.at = 0
      BY <2>2, <3>2, <3>5
    <3> QED BY <1>2, <3>4, <3>5
  <2> QED BY <1>2, <2>1, <2>2
<1>5. ASSUME NEW s \in {"write", "replace", "preserve", "restoring"},
             task' = [task EXCEPT !.step = s]
      PROVE  /\ task'.original = task.original /\ task'.entries = task.entries
             /\ task'.at = task.at /\ task'.undo = task.undo /\ task'.step = s
  BY <1>2, <1>5 DEF TaskRecords
<1>6. ASSUME task' = [FailedCall EXCEPT !.step = "restore"]
      PROVE  /\ task'.original = task.original /\ task'.entries = task.entries
             /\ task'.at = task.at /\ task'.undo = task.undo /\ task'.step = "restore"
  BY <1>2, <1>6 DEF FailedCall, TaskRecords
<1>7. CASE Backup
  <2>1. task.step = "backup"
    BY <1>7 DEF Backup
  <2>2. CASE task' = [task EXCEPT !.step = "write"]
    <3>1. Valid(OnDisk(File)) => backups' = BackupMade
      <4>1. task'.step = "write"
        BY <1>5, <2>2
      <4>2. ASSUME NEW t \in {task, FailedCall}, task' = Aborts(t) PROVE FALSE
        <5>1. task.at = 1 /\ task.undo = 0 /\ task'.undo = 1
          BY <1>3, <4>1, <4>2
        <5> QED BY <1>5, <2>2, <5>1
      <4> QED BY <1>7, <4>2 DEF Backup
    <3> QED BY <1>2, <1>5, <2>1, <2>2, <3>1
  <2>3. CASE task' = Aborts(task) \/ task' = Aborts(FailedCall)
    BY <1>2, <1>3, <2>1, <2>3
  <2> QED BY <1>7, <2>2, <2>3 DEF Backup
<1>8. CASE WriteImporting \/ Preserve
  <2>1. task.step # "backup"
    BY <1>8 DEF WriteImporting, Preserve
  <2>2. \/ \E s \in {"replace", "preserve"} : task' = [task EXCEPT !.step = s]
        \/ task' = Aborts(FailedCall)
    BY <1>8 DEF WriteImporting, Preserve
  <2> QED BY <1>3, <1>5, <2>1, <2>2
<1>9. CASE Replace
  <2>1. task.step # "backup"
    BY <1>9 DEF Replace
  <2>2. \/ task' = Committed \/ task' = [FailedCall EXCEPT !.step = "restore"]
        \/ task' = Aborts(FailedCall)
    BY <1>9 DEF Replace
  <2> QED BY <1>3, <1>4, <1>6, <2>1, <2>2
<1>10. CASE Restore \/ Unlink
  <2>1. task.step # "backup"
    BY <1>10 DEF Restore, Unlink
  <2>2. \/ task' = [task EXCEPT !.step = "restoring"]
        \/ task' = Aborts(task) \/ task' = Aborts(FailedCall)
    BY <1>10 DEF Restore, Unlink
  <2> QED BY <1>3, <1>5, <2>1, <2>2
<1> QED BY <1>7, <1>8, <1>9, <1>10

(* Only a bundle has a second entry. *)
LEMMA SecondEntryNext ==
  ASSUME GarageInv,
         Backup \/ WriteImporting \/ Preserve \/ Replace \/ Restore \/ Unlink,
         task'.step \in Calls, task'.at = 1
  PROVE  task.entries[1].file = "adventure"
<1>1. GarageInv'
  BY GarageStep DEF GarageNext
<1>2. task'.entries \in EntryLists /\ task'.at < Len(task'.entries)
  BY <1>1 DEF GarageInv, TaskShape
<1>3. task.entries \in EntryLists /\ 1 < Len(task.entries)
  <2>1. task'.entries = task.entries
    BY CallLeads
  <2> QED BY <1>2, <2>1
<1>4. Len(task.entries) = 1 \/ Len(task.entries) = 2
  BY <1>3, EntryShape
<1>5. Len(task.entries) = 2
  <2>1. CASE Len(task.entries) = 1
    <3>1. 1 < 1
      BY <1>3, <2>1
    <3> QED BY <3>1
  <2> QED BY <1>4, <2>1
<1> QED BY <1>3, <1>5, EntryShape

LEMMA CallKeepsOriginals ==
  ASSUME GarageInv, OriginalsKept,
         Backup \/ WriteImporting \/ Preserve \/ Replace \/ Restore \/ Unlink
  PROVE  OriginalsKept'
<1>1. /\ task.step \in Calls
      /\ \A f \in Files : backups[f] \subseteq backups'[f]
      /\ task'.original = task.original /\ task'.entries = task.entries
  BY BackupsGrow, CallLeads
<1>2. /\ GarageTypes /\ TaskShape /\ TaskDisk
      /\ task.at \in {0, 1} /\ task.undo \in {0, 1} /\ task.entries \in EntryLists
      /\ File \in Files
      /\ task.at = 0 => File = task.entries[1].file
      /\ task.at = 1 => task.entries[1].file = "adventure"
      /\ task.undo = 1 => File = "adventure" /\ task.at = 1
      /\ task.at = 1 /\ task.undo = 0 => File = "pak"
  BY <1>1, TaskStages, EntryShape DEF GarageInv
<1>3. \A f \in Files : HasBackup(f) => HasBackup(f)'
  BY <1>1 DEF HasBackup
<1>4. task.step # "backup" => HasBackup(File)
  BY <1>1 DEF OriginalsKept
<1>5. task.at = 1 => HasBackup("adventure")
  BY <1>1, <1>2 DEF OriginalsKept
<1>6. task'.step \in Calls \cup {"failed"} =>
         \A f \in Files : OnDisk(f)' # task'.original[f] => HasBackup(f)'
  <2> SUFFICES ASSUME NEW f \in Files, OnDisk(f)' # task'.original[f]
               PROVE  HasBackup(f)'
    OBVIOUS
  <2>1. CASE f = File /\ task.step # "backup"
    BY <1>3, <1>4, <2>1
  <2>2. CASE f # File \/ task.step = "backup"
    <3>1. OnDisk(f)' = OnDisk(f)
      BY <2>2, ReplacesOne
    <3>2. HasBackup(f)
      BY <1>1, <3>1 DEF OriginalsKept
    <3> QED BY <1>3, <3>2
  <2> QED BY <2>1, <2>2
<1>7. ASSUME task'.at = task.at, task'.undo = task.undo
      PROVE  File' = File
  BY <1>1, <1>7 DEF File, Target
<1>8. task'.step \in Calls /\ task'.at = 1 => HasBackup("adventure")'
  <2>1. CASE task.at = 1
    BY <1>2, <1>3, <1>5, <2>1
  <2>2. CASE task.at = 0 /\ task'.at = 1 /\ task'.step \in Calls
    <3>1. task.undo = 0 /\ task.step # "backup"
      BY <2>2, CallLeads
    <3>2. task.entries[1].file = "adventure"
      BY <2>2, SecondEntryNext
    <3> QED BY <1>1, <1>2, <1>3, <1>4, <2>2, <3>1, <3>2
  <2> QED BY <1>2, <2>1, <2>2
<1>9. task'.step \in Calls \ {"backup"} => HasBackup(File)'
  <2> SUFFICES ASSUME task'.step \in Calls \ {"backup"}
               PROVE  HasBackup(File)'
    OBVIOUS
  <2>1. CASE task'.at = task.at /\ task'.undo = task.undo /\ task.step # "backup"
    <3>1. HasBackup(File)
      BY <1>4, <2>1
    <3> QED BY <1>1, <1>2, <1>7, <2>1, <3>1 DEF HasBackup
  <2>2. CASE task'.at = task.at /\ task'.undo = task.undo /\ task.step = "backup"
    <3>1. Valid(OnDisk(File)) => backups' = BackupMade
      BY <2>2, CallLeads
    <3>2. OnDisk(File) = task.original[File]
      <4>1. task.undo = 0
        BY <1>1, <1>2, <2>2 DEF TaskShape
      <4> QED BY <1>1, <1>2, <2>2, <4>1 DEF TaskDisk
    <3>3. Valid(task.original[File]) => task.original[File] \in backups'[File]
      BY <1>2, <3>1, <3>2 DEF BackupMade, GarageTypes
    <3> QED BY <1>1, <1>7, <2>2, <3>3 DEF HasBackup
  <2>3. CASE task.at = 1 /\ task.undo = 0 /\ task'.at = 1 /\ task'.undo = 1
    <3>1. File' = "adventure"
      BY <1>1, <1>2, <2>3 DEF File, Target, Entry
    <3>2. HasBackup("adventure")'
      BY <1>3, <1>5, <2>3
    <3> QED BY <3>1, <3>2 DEF HasBackup
  <2> QED BY <2>1, <2>2, <2>3, CallLeads
<1>10. task'.step \in Calls /\ task'.at = 1 => HasBackup(task.entries[1].file)'
  <2>1. task'.step \in Calls /\ task'.at = 1 => task.entries[1].file = "adventure"
    BY SecondEntryNext
  <2> QED BY <1>1, <1>8, <2>1 DEF HasBackup
<1> QED BY <1>1, <1>6, <1>9, <1>10 DEF OriginalsKept, HasBackup

LEMMA OriginalsStay == GarageInv /\ OriginalsKept /\ [GarageNext]_allVars => OriginalsKept'
<1> SUFFICES ASSUME GarageInv, OriginalsKept, [GarageNext]_allVars
             PROVE  OriginalsKept'
  OBVIOUS
<1>1. CASE Backup \/ WriteImporting \/ Preserve \/ Replace \/ Restore \/ Unlink
  BY <1>1, CallKeepsOriginals
<1>2. ASSUME task'.step = "idle" PROVE OriginalsKept'
  BY <1>2 DEF OriginalsKept
<1>3. CASE StartGame \/ StopGame \/ PlayAdventure \/ PlayPak
  <2>1. task' = task
    BY <1>3 DEF StartGame, StopGame, PlayAdventure, PlayPak, garageVars
  <2>2. task.step = "idle" \/ task.step \in {"failed", "done"}
    BY <1>3 DEF StartGame, StopGame, PlayAdventure, PlayPak, GarageInv, TaskShape
  <2>3. game = "running" => task.step = "idle"
    BY DEF GarageInv, TaskShape
  <2>4. task.step = "idle"
    BY <1>3, <2>3 DEF StartGame, StopGame, PlayAdventure, PlayPak
  <2> QED BY <1>2, <2>1, <2>4
<1>4. CASE DamagePak
  <2>1. task'.step = "idle"
    BY <1>4 DEF DamagePak, garageVars
  <2> QED BY <1>2, <2>1
<1>5. CASE Report \/ EndProcess
  <2>1. task'.step = "idle"
    BY <1>5 DEF Report, EndProcess, NoTask
  <2> QED BY <1>2, <2>1
<1>6. CASE UNCHANGED allVars
  <2>1. UNCHANGED <<task, main, adventure, backups>>
    BY <1>6 DEF allVars, vars, files, garageVars
  <2>2. File' = File
    BY <2>1 DEF File, Target
  <2> QED BY <2>1, <2>2 DEF OriginalsKept, HasBackup, OnDisk
<1>7. ASSUME NEW es, Begins(es) PROVE OriginalsKept'
  <2>1. /\ task' = [NoTask EXCEPT !.step = "backup", !.entries = es,
                                  !.original = [f \in Files |-> OnDisk(f)]]
        /\ UNCHANGED <<main, adventure>>
    BY <1>7 DEF Begins, files
  <2>2. /\ task'.step = "backup" /\ task'.at = 0
        /\ \A f \in Files : task'.original[f] = OnDisk(f)
    BY <2>1 DEF NoTask
  <2>3. \A f \in Files : OnDisk(f)' = OnDisk(f)
    BY <2>1 DEF OnDisk
  <2> QED BY <2>2, <2>3 DEF OriginalsKept
<1>8. CASE \/ \E v \in 0 .. MaxProgress : ImportAdventure(v) \/ ReplaceAdventure(v)
           \/ RepairAdventure
           \/ \E both \in BOOLEAN : ImportBundle(both)
  BY <1>7, <1>8 DEF ImportAdventure, ReplaceAdventure, RepairAdventure, ImportBundle
<1> QED BY <1>1, <1>3, <1>4, <1>5, <1>6, <1>8 DEF GarageNext

(* import_bundle replaces a file only after its backup: an import that     *)
(* fails through one failed call leaves both saves as they were, what more *)
(* failed calls, those of the roll back among them, leave behind is backed *)
(* up, and an import reported as done has replaced every file of it.       *)
THEOREM ImportsAreAtomic == GarageSpec => []AllOrNothing
<1>1. GarageInit => OriginalsKept
  BY DEF GarageInit, NoTask, OriginalsKept
<1>2. GarageInv /\ OriginalsKept => AllOrNothing
  <2> SUFFICES ASSUME GarageInv, OriginalsKept
               PROVE  AllOrNothing
    OBVIOUS
  <2>1. OneFailure /\ task.calls \in Nat
    BY DEF GarageInv, GarageTypes
  <2> QED BY <2>1 DEF OneFailure, OriginalsKept, AllOrNothing
<1> QED BY <1>1, <1>2, OriginalsStay, GarageInvariant, PTL DEF GarageSpec

(* EnsureLoaded opens the last Pak that was acknowledged or a later one,   *)
(* after damage the one before, or says that the Pak is corrupt; an empty  *)
(* one it opens for want of a primary, also after a process that ended     *)
(* between remove and rename, and then the last Pak is complete in .bak.   *)
THEOREM PakOpensOrStays == GarageSpec => OpensOrLeavesBackup
<1> DEFINE Opens == \/ image' >= acked
                    \/ damaged /\ (image' = before \/ main = Missing)
                    \/ corrupt'
                    \/ main = Missing /\ bak = acked
<1>1. ASSUME PakInv, Load
      PROVE  Opens
  <2>1. main \in Disk /\ bak \in Disk /\ acked \in Images /\ AckedOnDisk
    BY <1>1 DEF PakInv, TypeOK
  <2>2. CASE StartsBlank
    <3>1. image' = 0
      BY <1>1, <2>2 DEF Load
    <3>2. main = Missing
      BY <2>2 DEF StartsBlank
    <3>3. bak = Torn => damaged
      BY <2>1, <3>2 DEF AckedOnDisk
    <3>4. bak = Missing => acked = 0
      BY <2>1, <3>2 DEF AckedOnDisk
    <3>5. bak \in Images => bak = acked
      BY <2>1, <3>2 DEF AckedOnDisk
    <3> QED BY <2>1, <3>1, <3>2, <3>3, <3>4, <3>5 DEF Disk
  <2>3. CASE main \in Images
    BY <1>1, <2>1, <2>3, PakAssumption DEF StartsBlank, Load, AckedOnDisk, Images
  <2>4. CASE main = Torn /\ bak \in Images
    <3>1. damaged /\ bak \in {before, acked}
      BY <2>1, <2>4 DEF AckedOnDisk
    <3>2. image' = bak
      BY <1>1, <2>4, PakAssumption DEF Load, StartsBlank, Images
    <3> QED BY <2>1, <2>4, <3>1, <3>2, PakAssumption DEF Images
  <2>5. CASE main = Torn /\ bak \notin Images
    BY <1>1, <2>5, PakAssumption DEF Load, StartsBlank, Images
  <2> QED BY <2>1, <2>2, <2>3, <2>4, <2>5 DEF Disk, StartsBlank
<1>2. GarageInv => [Load => Opens]_vars
  BY <1>1 DEF GarageInv
<1> QED BY <1>2, GarageInvariant, PTL DEF GarageSpec, OpensOrLeavesBackup

=============================================================================
