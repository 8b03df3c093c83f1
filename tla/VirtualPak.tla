----------------------------- MODULE VirtualPak -----------------------------
(***************************************************************************)
(* One virtual Controller Pak and the files that keep it                   *)
(* (virtual_pak.cpp): the image the game sees, the primary file, its .bak  *)
(* and the .tmp a save goes through.  A save is one filesystem call per    *)
(* step, so that the process may end, or a call fail, between any two; a   *)
(* copy interrupted half way leaves a torn file, a rename is atomic.       *)
(*                                                                         *)
(* An image is a number: 0 is the empty Pak, and every change the game     *)
(* makes gives a new one.  What an image holds is checked by its checksum, *)
(* which is how a torn file is told from a complete one.                   *)
(***************************************************************************)
EXTENDS Integers

CONSTANTS MaxImages,  \* bound: changes the game makes
          MaxFaults   \* bound: failed calls, endings and damages

ASSUME PakAssumption == MaxImages \in Nat /\ MaxFaults \in Nat

Images == 0 .. MaxImages

(* What a file may be, apart from a complete image. *)
Missing == -1
Torn == -2

VARIABLES
    main, bak, tmp,  \* the files
    pc,       \* where EnsureLoaded or SavePakLocked is
    image,    \* VirtualPak::files
    corrupt,  \* VirtualPak::corrupt
    \* history and bounds
    acked,    \* the image of the last save the game was told is done
    before,   \* the one before it; after an import, the one .bak keeps
    damaged,  \* whether the primary was ever damaged, from outside or by a
              \* restore that stopped half way
    changes,
    faults

files == <<main, bak, tmp>>
vars == <<files, pc, image, corrupt, acked, before, damaged, changes, faults>>

Init ==
    /\ main = Missing /\ bak = Missing /\ tmp = Missing
    /\ pc = "unloaded"
    /\ image = 0
    /\ corrupt = FALSE
    /\ acked = 0 /\ before = 0
    /\ damaged = FALSE
    /\ changes = 0
    /\ faults = 0

Fault == faults < MaxFaults /\ faults' = faults + 1

-----------------------------------------------------------------------------
(* Mutant: a file that does not decode counts as an empty Pak. *)
BlankWhenUnreadable == main \notin Images

(* EnsureLoaded takes a Pak without a primary file for a new one. *)
StartsBlank == main = Missing

(* EnsureLoaded's part before SavePakLocked. *)
Load ==
    /\ pc = "unloaded"
    /\ \/ /\ StartsBlank
          /\ image' = 0 /\ corrupt' = FALSE /\ pc' = "write"
          /\ UNCHANGED <<main, acked, before, faults>>
       \/ /\ ~StartsBlank
          /\ main \in Images
          /\ image' = main /\ corrupt' = FALSE /\ pc' = "idle"
          /\ acked' = main
          /\ UNCHANGED <<main, before, faults>>
       \/ (* recovered from the backup; whether the unreadable primary could *)
          (* be removed is not looked at                                     *)
          /\ ~StartsBlank
          /\ main = Torn /\ bak \in Images
          /\ image' = bak /\ corrupt' = FALSE /\ pc' = "write"
          /\ \/ main' = Missing /\ UNCHANGED faults
             \/ Fault /\ UNCHANGED main
          /\ acked' = bak
          /\ UNCHANGED before
       \/ /\ ~StartsBlank
          /\ main = Torn /\ bak \notin Images
          /\ corrupt' = TRUE /\ pc' = "idle"
          /\ UNCHANGED <<main, image, acked, before, faults>>
    /\ UNCHANGED <<bak, tmp, damaged, changes>>

(* osPfsAllocateFile, osPfsDeleteFile and osPfsReadWriteFile change the    *)
(* files of a readable Pak and save it.                                    *)
Change ==
    /\ pc = "idle" /\ ~corrupt
    /\ changes < MaxImages
    /\ changes' = changes + 1
    /\ image' = changes + 1
    /\ pc' = "write"
    /\ UNCHANGED <<files, corrupt, acked, before, damaged, faults>>

(* dkr_virtual_pak_reformat *)
Reformat ==
    /\ pc \in {"idle", "unloaded"}
    /\ image' = 0
    /\ corrupt' = FALSE
    /\ pc' = "write"
    /\ UNCHANGED <<files, acked, before, damaged, changes, faults>>

-----------------------------------------------------------------------------
(* SavePakLocked: write .tmp; copy the primary to .bak; remove the         *)
(* primary; rename .tmp.  A failure leaves the image changed in memory and *)
(* tells the game so.                                                      *)

(* A call fails and the save ends. *)
Fail == Fault /\ pc' = "idle"

Goes(next) == pc' = next /\ UNCHANGED faults

memory == <<image, corrupt, changes>>

(* Mutant: no backup is taken. *)
WriteWithoutBackup ==
    /\ pc = "write"
    /\ tmp' = image
    /\ Goes(IF main = Missing THEN "rename" ELSE "remove")
    /\ UNCHANGED <<main, bak, memory, acked, before, damaged>>

WriteTmp ==
    /\ pc = "write"
    /\ \/ /\ tmp' = image
          /\ Goes(IF main = Missing THEN "rename" ELSE "copy")
       \/ tmp' \in {tmp, Torn} /\ Fail
    /\ UNCHANGED <<main, bak, memory, acked, before, damaged>>

BeginCopy ==
    /\ pc = "copy"
    /\ \/ /\ bak' = Torn
          /\ Goes("copying")
          /\ UNCHANGED tmp
       \/ /\ bak' \in {bak, Torn}
          /\ tmp' = Missing
          /\ Fail
    /\ UNCHANGED <<main, memory, acked, before, damaged>>

EndCopy ==
    /\ pc = "copying"
    /\ bak' = main
    /\ Goes("remove")
    /\ UNCHANGED <<main, tmp, memory, acked, before, damaged>>

RemoveMain ==
    /\ pc = "remove"
    /\ \/ /\ main' = Missing
          /\ Goes("rename")
          /\ UNCHANGED tmp
       \/ /\ tmp' = Missing
          /\ Fail
          /\ UNCHANGED main
    /\ UNCHANGED <<bak, memory, acked, before, damaged>>

(* The save is done, or the rename fails and .bak is copied back if it can *)
(* be.                                                                     *)
Rename ==
    /\ pc = "rename"
    /\ tmp' = Missing
    /\ \/ /\ main' = tmp
          /\ acked' = image
          /\ before' = acked
          /\ Goes("idle")
          /\ UNCHANGED damaged
       \/ /\ main' \in {bak, Torn, Missing}
          /\ bak = Missing => main' = Missing
          /\ damaged' = (damaged \/ main' = Torn)
          /\ Fail
          /\ UNCHANGED <<acked, before>>
    /\ UNCHANGED <<bak, memory>>

-----------------------------------------------------------------------------
(* The process ends: closed by the player, or at any point of a save. *)
End ==
    /\ Fault
    /\ pc' = "unloaded"
    /\ image' = 0 /\ corrupt' = FALSE
    /\ UNCHANGED <<files, acked, before, damaged, changes>>

(* The primary is damaged while it is not being written. *)
Damage ==
    /\ Fault
    /\ pc \in {"idle", "unloaded"}
    /\ main \in Images
    /\ main' = Torn
    /\ damaged' = TRUE
    /\ UNCHANGED <<bak, tmp, pc, image, corrupt, acked, before, changes>>

Next ==
    \/ Load \/ Change \/ Reformat
    \/ WriteTmp \/ BeginCopy \/ EndCopy \/ RemoveMain \/ Rename
    \/ End \/ Damage

Spec == Init /\ [][Next]_vars

-----------------------------------------------------------------------------
Disk == Images \cup {Missing, Torn}

TypeOK ==
    /\ main \in Disk /\ bak \in Disk /\ tmp \in Disk
    /\ pc \in {"unloaded", "idle", "write", "copy", "copying", "remove", "rename"}
    /\ pc = "rename" => tmp = image
    /\ image \in Images /\ acked \in Images /\ before \in Images
    /\ corrupt \in BOOLEAN /\ damaged \in BOOLEAN
    /\ changes \in Nat /\ faults \in Nat

(* "Controller Pak stores, with atomic backup recovery"                    *)
(* (docs/ARCHITECTURE.md:57-58): a Pak that is opened again holds the last *)
(* save the game was told is done or a later one, after damage the save    *)
(* before it; a Pak that can be neither is reported as corrupt.            *)
OpensAcknowledged ==
    [][Load => \/ image' >= acked
               \/ damaged /\ image' = before
               \/ corrupt']_vars

(* What holds of every start, a process that ended between the remove and  *)
(* the rename included: EnsureLoaded opens the last save the game was told *)
(* is done or a later one, after damage the save before it, or reports a   *)
(* corrupt Pak; and where it opens an empty Pak because the primary is     *)
(* missing, the last save is still complete in .bak, unless the file it    *)
(* was copied from was damaged.                                            *)
OpensOrLeavesBackup ==
    [][Load => \/ image' >= acked
               \/ damaged /\ (image' = before \/ main = Missing)
               \/ corrupt'
               \/ main = Missing /\ bak = acked]_vars

(* Behind it: where a save is, and which file holds what was acknowledged. *)
SaveStages ==
    /\ pc \in {"copy", "copying", "remove"} => tmp = image
    /\ pc \in {"copy", "copying", "remove"} => main # Missing
    /\ pc = "remove" => bak = main
    /\ pc = "rename" => main = Missing

AckedOnDisk ==
    /\ main = Torn => damaged
    /\ main \in Images => main = acked
    /\ main = Missing =>
          /\ bak = Torn => damaged
          /\ bak = Missing => acked = 0
          /\ bak \in Images => bak = acked
    /\ bak \in Images => bak \in {before, acked}

PakInv == TypeOK /\ SaveStages /\ AckedOnDisk
=============================================================================
