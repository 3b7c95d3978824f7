-------------------------- MODULE FirmwareInstall --------------------------
(***************************************************************************)
(* install_android_fw_sd.txt of the two boards: a U-Boot script that, from *)
(* a micro SD card, installs U-Boot, stores its second stage in bootcmd    *)
(* and resets; the second stage partitions the eMMC, updates the           *)
(* partitions and resets into recovery, which wipes the data.  The power   *)
(* may fail between any two steps and during each update, updates may      *)
(* fail, and so may saveenv, which the scripts do not look at.             *)
(***************************************************************************)
EXTENDS Naturals, Sequences

CONSTANTS
  Order,      \* the partitions, in the order in which stage 2 updates them
  MayFail,    \* an update may fail (test $? -eq 1)
  MayRepart,  \* the new partition table may differ from the old one
  MaxLosses,  \* bound: how often the power fails
  MaxUnsaved  \* bound: how often saveenv fails

Partition == {Order[i] : i \in DOMAIN Order}

ASSUME FirmwareAssumption ==
  /\ Order \in Seq(STRING) /\ Len(Order) > 0
  /\ \A i, j \in DOMAIN Order : Order[i] = Order[j] => i = j
  /\ "recovery" \in Partition
  /\ {MayFail, MayRepart} \subseteq BOOLEAN
  /\ MaxLosses \in Nat /\ MaxUnsaved \in Nat

VARIABLES
  pc,        \* where the board is
  bootcmd,   \* the variable bootcmd of U-Boot, in memory
  saved,     \* the same in the environment on the eMMC
  uboot, part, data,   \* what is on the eMMC
  abort,     \* install_abort, a variable of the shell
  files,     \* all files are on the card
  next,      \* the next partition to update
  losses,    \* how often the power has failed
  unsaved    \* how often saveenv has failed

emmc == <<uboot, part, data>>
env == <<bootcmd, saved, unsaved>>
vars == <<pc, env, emmc, abort, files, next, losses>>

StageOne == {"confirm", "choose", "check", "uboot", "ubootWrite", "commit", "commitReset"}
StageTwo == {"install", "partition", "update", "write", "done"}
Recovery == {"recover", "recoverycmd", "recovery"}

Bootcmd == {"default", "install", "recover"}
Content == {"old", "part", "none", "new"}

TypeOK ==
  /\ pc \in {"off", "prompt", "android", "bricked"} \union StageOne \union StageTwo \union Recovery
  /\ bootcmd \in Bootcmd /\ saved \in Bootcmd
  /\ uboot \in {"old", "part", "new"}
  /\ part \in [Partition -> Content]
  /\ data \in {"old", "wiped", "user"}
  /\ abort \in BOOLEAN /\ files \in BOOLEAN
  /\ next \in 1 .. Len(Order)
  /\ losses \in 0 .. MaxLosses
  /\ unsaved \in 0 .. MaxUnsaved

(* A board with an earlier firmware *)
Init ==
  /\ pc = "off"
  /\ bootcmd = "default" /\ saved = "default"
  /\ uboot = "old" /\ part = [p \in Partition |-> "old"] /\ data = "old"
  /\ abort = FALSE /\ files \in BOOLEAN
  /\ next = 1
  /\ losses = 0 /\ unsaved = 0

-----------------------------------------------------------------------------
(* U-Boot *)

(* The environment is read from the eMMC, and bootcmd is run. *)
Boot ==
  /\ pc = "off"
  /\ bootcmd' = saved
  /\ abort' = FALSE
  /\ pc' = IF uboot = "part" THEN "bricked"
           ELSE CASE saved = "install" -> "install"
                  [] saved = "recover" -> "recover"
                  [] saved = "default" ->
                       IF \A p \in Partition \ {"recovery"} : part[p] \in {"old", "new"}
                         THEN "android" ELSE "prompt"
  /\ UNCHANGED <<saved, unsaved, emmc, files, next, losses>>

(* The autoboot of a board that runs Android is interrupted, or Android is left. *)
Interrupt ==
  /\ pc = "android"
  /\ pc' = "prompt"
  /\ UNCHANGED <<env, emmc, abort, files, next, losses>>

Reset ==
  /\ pc = "prompt"
  /\ pc' = "off"
  /\ UNCHANGED <<env, emmc, abort, files, next, losses>>

PowerLoss ==
  /\ pc \notin {"off", "bricked"} /\ losses < MaxLosses
  /\ pc' = "off"
  /\ losses' = losses + 1
  /\ UNCHANGED <<env, emmc, abort, files, next>>

(* Another card, with files that the first one missed, or without *)
ChangeCard ==
  /\ pc = "prompt"
  /\ files' = ~files
  /\ UNCHANGED <<pc, env, emmc, abort, next, losses>>

(* Android uses the data: what it finds is the user's from now on. *)
UseData ==
  /\ pc = "android" /\ data = "wiped"
  /\ data' = "user"
  /\ UNCHANGED <<pc, env, uboot, part, abort, files, next, losses>>

-----------------------------------------------------------------------------
(* Stage 1 *)

(* The script is run; what is whole on the board by now is the old firmware. *)
Install ==
  /\ pc = "prompt"
  /\ pc' = "confirm"
  /\ uboot' = IF uboot = "new" THEN "old" ELSE uboot
  /\ part' = [p \in Partition |-> IF part[p] = "new" THEN "old" ELSE part[p]]
  /\ data' = "old"
  /\ UNCHANGED <<env, abort, files, next, losses>>

(* CTRL+C within ten seconds, or a module variant without a U-Boot file *)
Confirm ==
  /\ pc \in {"confirm", "choose"}
  /\ pc' \in {"prompt", IF pc = "confirm" THEN "choose" ELSE "check"}
  /\ UNCHANGED <<env, emmc, abort, files, next, losses>>

(* install_abort is set by a missing file, and never reset *)
CheckFiles ==
  /\ pc = "check"
  /\ abort' = (abort \/ ~files)
  /\ pc' = IF abort' THEN "prompt" ELSE "uboot"
  /\ UNCHANGED <<env, emmc, files, next, losses>>

(* It may fail before it writes anything. *)
UpdateUboot ==
  /\ pc = "uboot"
  /\ \/ uboot' = "part" /\ pc' = "ubootWrite"
     \/ MayFail /\ pc' = "prompt" /\ UNCHANGED uboot
  /\ UNCHANGED <<env, part, data, abort, files, next, losses>>

(* Mutant: a failure is reported, and the script goes on. *)
UpdateUbootGoesOn ==
  /\ pc = "ubootWrite"
  /\ uboot' \in {"new"} \union (IF MayFail THEN {uboot} ELSE {})
  /\ pc' = "commit"
  /\ UNCHANGED <<env, part, data, abort, files, next, losses>>

UpdateUbootEnds ==
  /\ pc = "ubootWrite"
  /\ \/ uboot' = "new" /\ pc' = "commit"
     \/ MayFail /\ pc' = "prompt" /\ UNCHANGED uboot
  /\ UNCHANGED <<env, part, data, abort, files, next, losses>>

(***************************************************************************)
(* saveenv, whose result the scripts do not test.  When it fails, the eMMC *)
(* keeps the old environment: there are two copies (fw_env.config), and    *)
(* only one is written.                                                    *)
(***************************************************************************)
Saveenv(cmd) ==
  \/ saved' = cmd /\ UNCHANGED unsaved
  \/ unsaved < MaxUnsaved /\ unsaved' = unsaved + 1 /\ UNCHANGED saved

(* setenv bootcmd, saveenv *)
Commit ==
  /\ pc = "commit"
  /\ bootcmd' = "install" /\ Saveenv("install")
  /\ pc' = "commitReset"
  /\ UNCHANGED <<emmc, abort, files, next, losses>>

CommitReset ==
  /\ pc = "commitReset"
  /\ pc' = "off"
  /\ UNCHANGED <<env, emmc, abort, files, next, losses>>

-----------------------------------------------------------------------------
(* Stage 2 *)

(* Mutant: stage 2 keeps its place in bootcmd until it is over. *)
SaveRecoverLate ==
  /\ pc = "install"
  /\ bootcmd' = "recover"
  /\ pc' = "partition"
  /\ UNCHANGED <<saved, unsaved, emmc, abort, files, next, losses>>

(* env default -a; setenv bootcmd; saveenv *)
SaveRecover ==
  /\ pc = "install"
  /\ bootcmd' = "recover" /\ Saveenv("recover")
  /\ pc' = "partition"
  /\ UNCHANGED <<emmc, abort, files, next, losses>>

(* partition_mmc_android *)
PartitionMmc ==
  /\ pc = "partition"
  /\ \/ /\ part' \in {part} \union (IF MayRepart THEN {[p \in Partition |-> "none"]} ELSE {})
        /\ pc' = "update" /\ next' = 1
     \/ MayFail /\ pc' = "prompt" /\ UNCHANGED <<part, next>>
  /\ UNCHANGED <<env, uboot, data, abort, files, losses>>

(* It may fail before it writes anything. *)
Update ==
  /\ pc = "update"
  /\ \/ part' = [part EXCEPT ![Order[next]] = "part"] /\ pc' = "write"
     \/ MayFail /\ pc' = "prompt" /\ UNCHANGED part
  /\ UNCHANGED <<env, uboot, data, abort, files, next, losses>>

(* Mutant: one partition too many *)
UpdateEndsLate ==
  /\ pc = "write"
  /\ part' = [part EXCEPT ![Order[next]] = "new"]
  /\ next' = next + 1
  /\ pc' = IF next > Len(Order) THEN "done" ELSE "update"
  /\ UNCHANGED <<env, uboot, data, abort, files, losses>>

UpdateEnds ==
  /\ pc = "write"
  /\ \/ /\ part' = [part EXCEPT ![Order[next]] = "new"]
        /\ IF next = Len(Order) THEN pc' = "done" /\ UNCHANGED next
           ELSE pc' = "update" /\ next' = next + 1
     \/ MayFail /\ pc' = "prompt" /\ UNCHANGED <<part, next>>
  /\ UNCHANGED <<env, uboot, data, abort, files, losses>>

InstallReset ==
  /\ pc = "done"
  /\ pc' = "off"
  /\ UNCHANGED <<env, emmc, abort, files, next, losses>>

-----------------------------------------------------------------------------
(* The command that stage 2 has left in bootcmd *)

(* Mutant: saveenv is forgotten. *)
SaveDefaultForgotten ==
  /\ pc = "recover"
  /\ bootcmd' = "default"
  /\ pc' = "recoverycmd"
  /\ UNCHANGED <<saved, unsaved, emmc, abort, files, next, losses>>

(* env default bootcmd; setenv recovery_command; saveenv *)
SaveDefault ==
  /\ pc = "recover"
  /\ bootcmd' = "default" /\ Saveenv("default")
  /\ pc' = "recoverycmd"
  /\ UNCHANGED <<emmc, abort, files, next, losses>>

RunRecoverycmd ==
  /\ pc = "recoverycmd"
  /\ pc' = IF part["recovery"] \in {"old", "new"} THEN "recovery" ELSE "prompt"
  /\ UNCHANGED <<env, emmc, abort, files, next, losses>>

(* recovery --wipe_data, which resets when it is done *)
Wipe ==
  /\ pc = "recovery"
  /\ data' = "wiped"
  /\ pc' = "off"
  /\ UNCHANGED <<env, uboot, part, abort, files, next, losses>>

-----------------------------------------------------------------------------
StageOneStep == Confirm \/ CheckFiles \/ UpdateUboot \/ UpdateUbootEnds \/ Commit \/ CommitReset
StageTwoStep == SaveRecover \/ PartitionMmc \/ Update \/ UpdateEnds \/ InstallReset
RecoveryStep == SaveDefault \/ RunRecoverycmd \/ Wipe
User == Interrupt \/ Reset \/ ChangeCard \/ Install \/ UseData

Next == Boot \/ StageOneStep \/ StageTwoStep \/ RecoveryStep \/ User \/ PowerLoss

Spec == Init /\ [][Next]_vars

(* U-Boot and recovery go on as long as there is power; nobody has to do anything. *)
FairSpec == Spec /\ WF_vars(Boot \/ StageOneStep \/ StageTwoStep \/ RecoveryStep)

-----------------------------------------------------------------------------
(***************************************************************************)
(* Whenever the power fails, nothing of the new firmware is on the eMMC,   *)
(* and nothing will put it there, before the new U-Boot, whose             *)
(* partition_mmc_android and environment stage 2 relies on.  It asks that  *)
(* no saveenv has failed, which the scripts do not test (lines 99, 102 and *)
(* 174): a stage 2 that stays stored outlives a later attempt.             *)
(***************************************************************************)
NewUbootFirst ==
  unsaved = 0 =>
    (saved = "install" \/ (\E p \in Partition : part[p] = "new") => uboot = "new")

(***************************************************************************)
(* Stage 2 runs once: an environment that brings it back at the next boot  *)
(* is never on a board that it has begun to write (line 102: saveenv comes *)
(* before partition_mmc_android), so that a power loss or a failure of an  *)
(* update does not make the board install again and again.  A failure of   *)
(* that saveenv does, as the script goes on without a test.                *)
(***************************************************************************)
StageTwoOnce ==
  unsaved = 0 /\ saved = "install" =>
    /\ pc \notin {"partition", "update", "write", "done"}
    /\ \A p \in Partition : part[p] # "new"

(***************************************************************************)
(* An installation that has been stored comes to its end when the power    *)
(* stays on: the ordinary bootcmd is restored (line 99), and the board     *)
(* neither installs nor wipes for ever, unless a failure leaves it at the  *)
(* prompt or a later attempt has cost it its U-Boot.  A saveenv that fails *)
(* is tried again at the next boot; it must not fail for ever.             *)
(***************************************************************************)
InstallEnds == saved # "default" ~> saved = "default" \/ pc \in {"prompt", "bricked"}

=============================================================================
