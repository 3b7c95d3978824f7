----------------------- MODULE FirmwareInstall_proofs -----------------------
(***************************************************************************)
(* Proofs about FirmwareInstall, for any partitions in any order and any   *)
(* number of power losses: what is installed first and once, what is there *)
(* at the end, and that there is an end.  What hangs on the environment    *)
(* holds as long as no saveenv has failed; the rest holds whatever fails.  *)
(***************************************************************************)
EXTENDS FirmwareInstall, SequenceTheorems, TLAPS

Fresh == \A p \in Partition : part[p] # "new"   \* nothing of the new firmware yet

(* What each position in the scripts says of the eMMC *)
StageInv ==
  /\ pc \in StageOne => Fresh
  /\ pc = "install" => saved = "install"
  /\ pc = "recover" => saved = "recover"
  /\ pc \in {"commit", "commitReset"} => uboot = "new"
  /\ unsaved = 0 =>
       /\ saved = "install" => pc \in {"off", "commitReset", "install"}
       /\ pc \in {"partition", "update", "write", "done"} => uboot = "new"

IndInv == TypeOK /\ NewUbootFirst /\ StageTwoOnce /\ StageInv

-----------------------------------------------------------------------------
(* A position in Order is a partition. *)
LEMMA OrderIsPartition ==
  /\ Len(Order) \in Nat \ {0}
  /\ DOMAIN Order = 1 .. Len(Order)
  /\ \A i \in 1 .. Len(Order) : Order[i] \in Partition
<1>1. Order \in Seq(STRING) /\ Len(Order) > 0
  BY FirmwareAssumption
<1>2. Len(Order) \in Nat /\ DOMAIN Order = 1 .. Len(Order)
  BY <1>1, LenProperties
<1>3. QED
  BY <1>1, <1>2 DEF Partition

(* The invariant holds on a board with an earlier firmware. *)
LEMMA InitInv == Init => IndInv
<1> SUFFICES ASSUME Init PROVE IndInv
  OBVIOUS
<1>1. MaxLosses \in Nat /\ MaxUnsaved \in Nat /\ Len(Order) \in Nat \ {0}
  BY FirmwareAssumption, OrderIsPartition
<1>2. TypeOK
  <2>1. part \in [Partition -> Content]
    BY DEF Init, Content
  <2>2. next \in 1 .. Len(Order) /\ losses \in 0 .. MaxLosses /\ unsaved \in 0 .. MaxUnsaved
    BY <1>1 DEF Init
  <2>3. QED
    BY <2>1, <2>2 DEF Init, TypeOK, Bootcmd
<1>3. NewUbootFirst /\ StageTwoOnce /\ StageInv
  BY DEF Init, NewUbootFirst, StageTwoOnce, StageInv, StageOne
<1>4. QED
  BY <1>2, <1>3 DEF IndInv

(* Every step of U-Boot, of the scripts, of recovery and of the world keeps it. *)
LEMMA NextInv == IndInv /\ [Next]_vars => IndInv'
<1> SUFFICES ASSUME IndInv, [Next]_vars PROVE IndInv'
  OBVIOUS
<1> USE DEF IndInv, TypeOK, NewUbootFirst, StageTwoOnce, StageInv, Fresh,
            StageOne, StageTwo, Recovery, Bootcmd, Content, emmc, env
<1>s. /\ MaxUnsaved \in Nat
      /\ \A cmd \in Bootcmd : Saveenv(cmd) =>
           /\ saved' \in Bootcmd /\ unsaved' \in 0 .. MaxUnsaved
           /\ unsaved' = 0 => unsaved = 0 /\ saved' = cmd
  BY FirmwareAssumption DEF Saveenv
<1>1. CASE Boot
  BY <1>1 DEF Boot
<1>2. CASE StageOneStep
  <2>1. CASE Confirm
    BY <2>1 DEF Confirm
  <2>2. CASE CheckFiles
    BY <2>2 DEF CheckFiles
  <2>3. CASE UpdateUboot
    BY <2>3 DEF UpdateUboot
  <2>4. CASE UpdateUbootEnds
    BY <2>4 DEF UpdateUbootEnds
  <2>5. CASE Commit
    BY <2>5, <1>s DEF Commit
  <2>6. CASE CommitReset
    BY <2>6 DEF CommitReset
  <2>7. QED
    BY <1>2, <2>1, <2>2, <2>3, <2>4, <2>5, <2>6 DEF StageOneStep
<1>3. CASE StageTwoStep
  <2>1. CASE SaveRecover
    BY <2>1, <1>s DEF SaveRecover
  <2>2. CASE PartitionMmc
    <3>1. part' \in [Partition -> Content]
      BY <2>2 DEF PartitionMmc
    <3>2. next' \in 1 .. Len(Order)
      <4>1. next' = 1 \/ next' = next
        BY <2>2 DEF PartitionMmc
      <4>2. QED
        BY <4>1, OrderIsPartition
    <3>3. QED
      BY <2>2, <3>1, <3>2 DEF PartitionMmc
  <2>3. CASE Update
    BY <2>3, OrderIsPartition DEF Update
  <2>4. CASE UpdateEnds
    <3>1. part' \in [Partition -> Content]
      BY <2>4, OrderIsPartition DEF UpdateEnds
    <3>2. next' \in 1 .. Len(Order)
      <4>1. next \in 1 .. Len(Order) /\ Len(Order) \in Nat
        BY OrderIsPartition
      <4>2. next' = next \/ (next # Len(Order) /\ next' = next + 1)
        BY <2>4 DEF UpdateEnds
      <4>3. QED
        BY <4>1, <4>2
    <3>3. QED
      BY <2>4, <3>1, <3>2 DEF UpdateEnds
  <2>5. CASE InstallReset
    BY <2>5 DEF InstallReset
  <2>6. QED
    BY <1>3, <2>1, <2>2, <2>3, <2>4, <2>5 DEF StageTwoStep
<1>4. CASE RecoveryStep
  <2>1. CASE SaveDefault
    BY <2>1, <1>s DEF SaveDefault
  <2>2. CASE RunRecoverycmd
    BY <2>2 DEF RunRecoverycmd
  <2>3. CASE Wipe
    BY <2>3 DEF Wipe
  <2>4. QED
    BY <1>4, <2>1, <2>2, <2>3 DEF RecoveryStep
<1>5. CASE User
  <2>1. CASE Interrupt
    BY <2>1 DEF Interrupt
  <2>2. CASE Reset
    BY <2>2 DEF Reset
  <2>3. CASE ChangeCard
    BY <2>3 DEF ChangeCard
  <2>4. CASE UseData
    BY <2>4 DEF UseData
  <2>5. CASE Install
    BY <2>5 DEF Install
  <2>6. QED
    BY <1>5, <2>1, <2>2, <2>3, <2>4, <2>5 DEF User
<1>6. CASE PowerLoss
  BY <1>6, FirmwareAssumption DEF PowerLoss
<1>7. CASE UNCHANGED vars
  BY <1>7 DEF vars
<1>8. QED
  BY <1>1, <1>2, <1>3, <1>4, <1>5, <1>6, <1>7 DEF Next

(* The invariant holds in every behaviour. *)
LEMMA Invariance == Spec => []IndInv
BY InitInv, NextInv, PTL DEF Spec

(***************************************************************************)
(* The environment, the partitions and the position in the scripts are     *)
(* always well formed.                                                     *)
(***************************************************************************)
THEOREM TypeCorrect == Spec => []TypeOK
<1>1. IndInv => TypeOK
  BY DEF IndInv
<1>2. QED
  BY <1>1, Invariance, PTL

(***************************************************************************)
(* However often the power fails: neither is stage 2 due nor has it        *)
(* written anything unless the new U-Boot is complete.                     *)
(***************************************************************************)
THEOREM NewUbootIsFirst == Spec => []NewUbootFirst
<1>1. IndInv => NewUbootFirst
  BY DEF IndInv
<1>2. QED
  BY <1>1, Invariance, PTL

(***************************************************************************)
(* However often the power fails: stage 2 never runs a second time on what *)
(* it has begun to write.                                                  *)
(***************************************************************************)
THEOREM StageTwoRunsOnce == Spec => []StageTwoOnce
<1>1. IndInv => StageTwoOnce
  BY DEF IndInv
<1>2. QED
  BY <1>1, Invariance, PTL

-----------------------------------------------------------------------------
(***************************************************************************)
(* What the position says of the partitions that stage 2 has passed, of    *)
(* the environment and of the data.                                        *)
(***************************************************************************)
PassedInv ==
  /\ pc \in {"update", "write"} => \A i \in 1 .. next - 1 : part[Order[i]] = "new"
  /\ pc = "done" => \A p \in Partition : part[p] = "new"

PlaceInv ==
  /\ pc = "android" => saved = "default"
  /\ unsaved = 0 /\ pc \in {"partition", "update", "write", "done"} => saved = "recover"

DataInv == data = "user" => saved = "default" /\ pc \in {"off", "prompt", "android", "bricked"}

(* The installation is complete when stage 2 resets the board. *)
InstalledIsWhole ==
  pc = "done" =>
    /\ \A p \in Partition : part[p] = "new"
    /\ unsaved = 0 => uboot = "new" /\ saved = "recover"

(* What the user has stored since an installation is not wiped by it. *)
WipedOnce == [][data' = "wiped" => data = "old"]_data

(* A step that nobody but U-Boot, the scripts and recovery takes *)
BoardStep == Boot \/ StageOneStep \/ StageTwoStep \/ RecoveryStep

(* How many such steps are left at most, when the power stays on and saveenv works *)
AfterBoot ==
  CASE saved = "default" -> 1 [] saved = "recover" -> 5 [] saved = "install" -> 9 + 2 * Len(Order)

StepsLeft ==
  CASE pc \in {"prompt", "android", "bricked"} -> 0
    [] pc = "off" -> AfterBoot
    [] pc = "recovery" -> 1 + AfterBoot
    [] pc = "recoverycmd" -> 2 + AfterBoot
    [] pc = "recover" -> 4
    [] pc = "done" -> 1 + AfterBoot
    [] pc = "write" -> 2 + AfterBoot + 2 * (Len(Order) - next)
    [] pc = "update" -> 3 + AfterBoot + 2 * (Len(Order) - next)
    [] pc = "partition" -> 2 + AfterBoot + 2 * Len(Order)
    [] pc = "install" -> 8 + 2 * Len(Order)
    [] pc = "commitReset" -> 1 + AfterBoot
    [] pc = "commit" -> 11 + 2 * Len(Order)
    [] pc = "ubootWrite" -> 12 + 2 * Len(Order)
    [] pc = "uboot" -> 13 + 2 * Len(Order)
    [] pc = "check" -> 14 + 2 * Len(Order)
    [] pc = "choose" -> 15 + 2 * Len(Order)
    [] pc = "confirm" -> 16 + 2 * Len(Order)

(* What a saveenv that fails may add to them *)
Setback == 4 + 2 * Len(Order)

(* A step leaves fewer, or costs one of the saveenv that may fail. *)
Lowers ==
  /\ StepsLeft \in Nat /\ StepsLeft' \in Nat
  /\ \/ unsaved' = unsaved /\ StepsLeft' < StepsLeft
     \/ unsaved' = unsaved + 1 /\ StepsLeft' < StepsLeft + Setback

StepsEnd == [][BoardStep => Lowers]_vars

ProgressInv == PassedInv /\ PlaceInv /\ DataInv

(* They hold on a board with an earlier firmware. *)
LEMMA ProgressInit == Init => ProgressInv
BY DEF Init, ProgressInv, PassedInv, PlaceInv, DataInv

(* Only stage 2 writes partitions, one after the other. *)
LEMMA PassedNext == IndInv /\ ProgressInv /\ [Next]_vars => PassedInv'
<1> SUFFICES ASSUME IndInv, ProgressInv, [Next]_vars PROVE PassedInv'
  OBVIOUS
<1> USE DEF ProgressInv, PassedInv
<1>1. CASE Boot \/ StageOneStep \/ RecoveryStep \/ User \/ PowerLoss \/ UNCHANGED vars
  <2>1. CASE Boot \/ StageOneStep \/ RecoveryStep
    <3>1. pc' \notin {"update", "write", "done"}
      BY <2>1 DEF IndInv, TypeOK, Bootcmd, Boot, StageOneStep, Confirm, CheckFiles, UpdateUboot,
           UpdateUbootEnds, Commit, CommitReset, RecoveryStep, SaveDefault, RunRecoverycmd, Wipe
    <3> QED BY <3>1
  <2>2. CASE User \/ PowerLoss \/ UNCHANGED vars
    BY <2>2 DEF User, Interrupt, Reset, ChangeCard, UseData, Install, PowerLoss, vars, emmc, env
  <2> QED BY <1>1, <2>1, <2>2
<1>2. CASE SaveRecover \/ InstallReset
  BY <1>2 DEF SaveRecover, InstallReset, emmc
<1>3. CASE PartitionMmc
  BY <1>3 DEF PartitionMmc
<1>i. /\ Len(Order) \in Nat /\ next \in 1 .. Len(Order)
      /\ \A i, j \in 1 .. Len(Order) : Order[i] = Order[j] => i = j
      /\ part \in [Partition -> Content]
      /\ \A p \in Partition : \E i \in 1 .. Len(Order) : p = Order[i]
      /\ \A i \in 1 .. Len(Order) : Order[i] \in Partition
  BY OrderIsPartition, FirmwareAssumption DEF IndInv, TypeOK, Partition
<1>4. CASE Update
  BY <1>4, <1>i DEF Update
<1>5. CASE UpdateEnds
  <2>1. CASE part' = [part EXCEPT ![Order[next]] = "new"]
    <3>1. \A i \in 1 .. next : part'[Order[i]] = "new"
      BY <1>5, <2>1, <1>i DEF UpdateEnds
    <3>2. CASE next = Len(Order)
      <4>1. \A p \in Partition : part'[p] = "new"
        BY <3>1, <3>2, <1>i
      <4> QED BY <1>5, <3>2, <4>1 DEF UpdateEnds
    <3>3. CASE next # Len(Order)
      BY <1>5, <3>1, <3>3, <1>i DEF UpdateEnds
    <3> QED BY <3>2, <3>3
  <2>2. CASE pc' = "prompt"
    BY <2>2
  <2> QED BY <1>5, <2>1, <2>2 DEF UpdateEnds
<1> QED
  BY <1>1, <1>2, <1>3, <1>4, <1>5 DEF Next, StageTwoStep

(* The environment changes with the position. *)
LEMMA PlaceNext == IndInv /\ ProgressInv /\ [Next]_vars => PlaceInv' /\ DataInv'
<1> SUFFICES ASSUME IndInv, ProgressInv, [Next]_vars PROVE PlaceInv' /\ DataInv'
  OBVIOUS
<1> USE DEF IndInv, TypeOK, ProgressInv, PlaceInv, DataInv, StageInv, Bootcmd, Saveenv, emmc, env
<1>1. CASE Boot
  BY <1>1 DEF Boot
<1>2. CASE StageOneStep
  BY <1>2 DEF StageOneStep, Confirm, CheckFiles, UpdateUboot, UpdateUbootEnds, Commit, CommitReset
<1>3. CASE StageTwoStep
  BY <1>3 DEF StageTwoStep, SaveRecover, PartitionMmc, Update, UpdateEnds, InstallReset
<1>4. CASE RecoveryStep
  BY <1>4 DEF RecoveryStep, SaveDefault, RunRecoverycmd, Wipe
<1>5. CASE User
  BY <1>5 DEF User, Interrupt, Reset, ChangeCard, UseData, Install
<1>6. CASE PowerLoss \/ UNCHANGED vars
  BY <1>6 DEF PowerLoss, vars
<1> QED
  BY <1>1, <1>2, <1>3, <1>4, <1>5, <1>6 DEF Next

(* So they hold in every behaviour. *)
LEMMA Progress == Spec => [](IndInv /\ ProgressInv)
<1>1. IndInv /\ ProgressInv /\ [Next]_vars => ProgressInv'
  BY PassedNext, PlaceNext DEF ProgressInv
<1> QED BY <1>1, Invariance, ProgressInit, PTL DEF Spec

(***************************************************************************)
(* Stage 2 ends with the new U-Boot and every partition new, whatever was  *)
(* on them and however often the power has failed before; what it leaves   *)
(* in the environment is the command for recovery, unless saveenv failed.  *)
(***************************************************************************)
THEOREM InstallationIsWhole == Spec => []InstalledIsWhole
<1>1. IndInv /\ ProgressInv => InstalledIsWhole
  BY DEF IndInv, StageInv, ProgressInv, PassedInv, PlaceInv, InstalledIsWhole
<1> QED BY <1>1, Progress, PTL

(***************************************************************************)
(* An installation does not wipe what the new Android has written: not by  *)
(* a recovery that a power loss or a failed saveenv brings back, however   *)
(* often either happens.                                                   *)
(***************************************************************************)
THEOREM DataIsWipedOnce == Spec => WipedOnce
<1>1. IndInv /\ ProgressInv /\ [Next]_vars => [data' = "wiped" => data = "old"]_data
  <2> SUFFICES ASSUME IndInv, ProgressInv, [Next]_vars, data' = "wiped", data' # data
               PROVE  data = "old"
    OBVIOUS
  <2>1. CASE Wipe
    BY <2>1 DEF Wipe, IndInv, TypeOK, ProgressInv, DataInv
  <2>2. CASE ~Wipe
    BY <2>2 DEF Next, vars, emmc, env, Boot, StageOneStep, Confirm, CheckFiles, UpdateUboot,
         UpdateUbootEnds, Commit, CommitReset, StageTwoStep, SaveRecover, PartitionMmc, Update,
         UpdateEnds, InstallReset, RecoveryStep, SaveDefault, RunRecoverycmd, User, Interrupt,
         Reset, ChangeCard, UseData, Install, PowerLoss
  <2> QED BY <2>1, <2>2
<1> QED BY <1>1, Progress, PTL DEF Spec, WipedOnce

(***************************************************************************)
(* The scripts, U-Boot and recovery go in no circle: each of their steps   *)
(* leaves fewer of them, so that 16 steps and two for each partition end   *)
(* an installation unless the power fails, the user begins another or a    *)
(* saveenv fails, each of which adds less than 4 and two for each          *)
(* partition (what InstallEnds needs besides fairness).                    *)
(***************************************************************************)
THEOREM StepsRunOut == Spec => StepsEnd
<1>1. IndInv /\ ProgressInv /\ BoardStep => Lowers
  <2> SUFFICES ASSUME IndInv, ProgressInv, BoardStep PROVE Lowers
    OBVIOUS
  <2> USE DEF StepsLeft, AfterBoot, Lowers, Setback
  <2>i. /\ Len(Order) \in Nat /\ next \in 1 .. Len(Order) /\ saved \in Bootcmd
        /\ unsaved \in Nat
    BY OrderIsPartition DEF IndInv, TypeOK
  <2>1. CASE Boot
    BY <2>1, <2>i DEF Boot, Bootcmd
  <2>2. CASE Confirm \/ CheckFiles \/ UpdateUboot \/ UpdateUbootEnds \/ CommitReset
    BY <2>2, <2>i DEF Confirm, CheckFiles, UpdateUboot, UpdateUbootEnds, CommitReset, Bootcmd,
         emmc, env
  <2>3. CASE Commit
    BY <2>3, <2>i DEF Commit, Saveenv, Bootcmd
  <2>4. CASE SaveRecover
    BY <2>4, <2>i DEF SaveRecover, Saveenv, IndInv, StageInv
  <2>5. CASE PartitionMmc
    <3>1. AfterBoot \in Nat /\ AfterBoot' = AfterBoot /\ unsaved' = unsaved
      BY <2>5, <2>i DEF PartitionMmc, Bootcmd, env
    <3> HIDE DEF AfterBoot, Setback
    <3> QED BY <3>1, <2>5, <2>i DEF PartitionMmc
  <2>6. CASE Update \/ UpdateEnds
    <3>1. AfterBoot \in Nat /\ AfterBoot' = AfterBoot /\ unsaved' = unsaved
      BY <2>6, <2>i DEF Update, UpdateEnds, Bootcmd, env
    <3> HIDE DEF AfterBoot, Setback
    <3>2. CASE Update
      BY <3>1, <3>2, <2>i DEF Update
    <3>3. CASE UpdateEnds
      <4>1. StepsLeft = 2 + AfterBoot + 2 * (Len(Order) - next)
        BY <3>3 DEF UpdateEnds
      <4>2. \/ pc' = "done" /\ StepsLeft' = 1 + AfterBoot
            \/ pc' = "update" /\ next # Len(Order) /\ next' = next + 1
                 /\ StepsLeft' = 3 + AfterBoot + 2 * (Len(Order) - next')
            \/ pc' = "prompt" /\ StepsLeft' = 0
        BY <3>1, <3>3 DEF UpdateEnds
      <4> HIDE DEF StepsLeft
      <4> QED BY <3>1, <4>1, <4>2, <2>i
    <3> QED BY <2>6, <3>2, <3>3
  <2>7. CASE InstallReset
    BY <2>7, <2>i DEF InstallReset, Bootcmd, env
  <2>8. CASE SaveDefault
    BY <2>8, <2>i DEF SaveDefault, Saveenv, IndInv, StageInv
  <2>9. CASE RunRecoverycmd \/ Wipe
    BY <2>9, <2>i DEF RunRecoverycmd, Wipe, Bootcmd, env
  <2> QED BY <2>1, <2>2, <2>3, <2>4, <2>5, <2>6, <2>7, <2>8, <2>9
          DEF BoardStep, StageOneStep, StageTwoStep, RecoveryStep
<1> QED BY <1>1, Progress, PTL DEF StepsEnd

=============================================================================
