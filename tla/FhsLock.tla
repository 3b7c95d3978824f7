------------------------------ MODULE FhsLock ------------------------------
(***************************************************************************)
(* The lock file of one device, shared by the processes that use it:       *)
(* fhs_lock, is_device_locked, check_lock_pid and fhs_unlock of            *)
(* SerialImp.c, one system call per action.  Processes are their pids; a   *)
(* pid may be used again after its process has died.                       *)
(*                                                                         *)
(* check_lock_pid accepts the pid of the caller, of its parent and openpid.*)
(* Here the last two are no pid of another process that locks devices: the *)
(* parent of an Android process is the zygote, and openpid is the caller's *)
(* own pid (SerialImp.c:669).                                              *)
(***************************************************************************)
EXTENDS Naturals, FiniteSets

CONSTANTS
  Process,
  Mortal,     \* the processes that may be killed
  Starved,    \* the processes that may fail to open a lock file that is there
  Garbage,    \* what an uninitialised pid_buffer may hold
  None

ASSUME FhsAssumption ==
  /\ Mortal \subseteq Process /\ Starved \subseteq Process
  /\ Garbage \subseteq {"running", "dead", "own"}
  /\ None \notin Process /\ Process \intersect {"running", "dead", "own"} = {}

VARIABLES
  file,      \* the directory entry: its creator, and whether the pid is written
  alive,     \* the processes kill(pid, 0) finds
  pc,
  seen,      \* the pid each process has read from the file
  settled    \* history: the holders that were alone with their file

vars == <<file, alive, pc, seen, settled>>

Locking   == {"check", "stat", "read", "kill", "unlink", "refused", "create", "write"}
Unlocking == {"readOwn", "remove"}
Active(q) == pc[q] \in Locking \union Unlocking
NoFile == [by |-> None, written |-> FALSE]
LockOf(p) == [by |-> p, written |-> TRUE]

TypeOK ==
  /\ file \in [by : Process \union {None}, written : BOOLEAN]
  /\ alive \subseteq Process
  /\ pc \in [Process -> Locking \union Unlocking \union {"idle", "held"}]
  /\ seen \in [Process -> Process \union {"running", "dead", "own", None}]
  /\ settled \subseteq Process

Init ==
  /\ file = NoFile
  /\ alive = Process
  /\ pc = [p \in Process |-> "idle"]
  /\ seen = [p \in Process |-> None]
  /\ settled = {}

(***************************************************************************)
(* A holder is settled once its lock file is complete and no other process *)
(* is inside fhs_lock or fhs_unlock.                                       *)
(***************************************************************************)
Settle ==
  settled' = {p \in Process :
                /\ pc'[p] = "held"
                /\ \/ p \in settled
                   \/ /\ file' = LockOf(p)
                      /\ \A q \in Process \ {p} :
                           pc'[q] \notin Locking \union Unlocking}

Goto(p, label) == pc' = [pc EXCEPT ![p] = label] /\ Settle

-----------------------------------------------------------------------------
(* fhs_lock *)

FhsLock(p) ==
  /\ pc[p] = "idle" /\ p \in alive
  /\ UNCHANGED <<file, alive, seen>>
  /\ Goto(p, "check")

(* Can a file of another name be created beside the lock files?  If not,  *)
(* or without the directory, the device is not locked.                    *)
check_group_uucp(p) ==
  /\ pc[p] = "check"
  /\ UNCHANGED <<file, alive, seen>>
  /\ \E next \in {"stat", "idle"} : Goto(p, next)

(* A lock file in one of the other directories, a stale one that cannot be *)
(* removed, or one that cannot be created                                  *)
Refused(p) ==
  /\ pc[p] \in {"stat", "refused", "create"}
  /\ UNCHANGED <<file, alive, seen>>
  /\ Goto(p, "idle")

Stat(p) ==
  /\ pc[p] = "stat"
  /\ UNCHANGED <<file, alive, seen>>
  /\ Goto(p, IF file = NoFile THEN "create" ELSE "read")

(* open() fails when the process has no descriptor left. *)
OpenFails(p) == IF p \in Starved THEN BOOLEAN ELSE {FALSE}

(* Mutant: without an answer the pid is -1. *)
ReadPidMinusOne(p, fails) ==
  seen' = [seen EXCEPT ![p] = IF file.written /\ ~fails THEN file.by ELSE "minus one"]

(***************************************************************************)
(* A file that is empty, or gone by now, or cannot be opened leaves        *)
(* pid_buffer as it was.                                                   *)
(***************************************************************************)
ReadPid(p, fails) ==
  seen' \in {[seen EXCEPT ![p] = pid] :
               pid \in IF file.written /\ ~fails THEN {file.by} ELSE Garbage}

(* open and read: what they return is not looked at *)
Read(p) ==
  /\ pc[p] = "read"
  /\ \E fails \in OpenFails(p) : ReadPid(p, fails)
  /\ UNCHANGED <<file, alive>>
  /\ Goto(p, "kill")

Running(p) == seen[p] \in alive \union {"running"} \/ (seen[p] = "own" /\ p \in alive)

(* Mutant: any lock file found is taken for stale. *)
KillUnchecked(p) ==
  /\ pc[p] = "kill"
  /\ seen' = [seen EXCEPT ![p] = None]
  /\ UNCHANGED <<file, alive>>
  /\ Goto(p, "unlink")

(* Mutant: a stale lock file is left alone. *)
KillKeepsStale(p) ==
  /\ pc[p] = "kill"
  /\ seen' = [seen EXCEPT ![p] = None]
  /\ UNCHANGED <<file, alive>>
  /\ Goto(p, "create")

(* kill(pid, 0): only ESRCH makes the lock stale *)
Kill(p) ==
  /\ pc[p] = "kill"
  /\ seen' = [seen EXCEPT ![p] = None]
  /\ UNCHANGED <<file, alive>>
  /\ Goto(p, IF Running(p) THEN "create" ELSE "unlink")

(* The file is removed, or it has been removed meanwhile. *)
Unlink(p) ==
  /\ pc[p] = "unlink"
  /\ file' = NoFile
  /\ UNCHANGED <<alive, seen>>
  /\ Goto(p, IF file = NoFile THEN "refused" ELSE "create")

(* The process may not remove the file, and it stays. *)
UnlinkFails(p) ==
  /\ pc[p] = "unlink"
  /\ UNCHANGED <<file, alive, seen>>
  /\ Goto(p, "refused")

(* open(file, O_CREAT | O_EXCL) *)
Create(p) ==
  /\ pc[p] = "create"
  /\ UNCHANGED <<alive, seen>>
  /\ IF file = NoFile
       THEN file' = [by |-> p, written |-> FALSE] /\ Goto(p, "write")
       ELSE UNCHANGED file /\ Goto(p, "idle")

(* The pid goes to the file that was created, linked or not. *)
Write(p) ==
  /\ pc[p] = "write"
  /\ file' = IF file.by = p THEN LockOf(p) ELSE file
  /\ UNCHANGED <<alive, seen>>
  /\ Goto(p, "held")

-----------------------------------------------------------------------------
(* fhs_unlock *)

FhsUnlock(p) ==
  /\ pc[p] = "held"
  /\ UNCHANGED <<file, alive, seen>>
  /\ Goto(p, "readOwn")

(* check_lock_pid: if the file cannot be opened, there is no more to do. *)
CheckLockPid(p) ==
  /\ pc[p] = "readOwn"
  /\ UNCHANGED <<file, alive>>
  /\ \E fails \in OpenFails(p) :
       IF file = NoFile \/ fails
         THEN UNCHANGED seen /\ Goto(p, "idle")
         ELSE ReadPid(p, fails) /\ Goto(p, "remove")

(* Mutant: the lock file is removed whoever made it. *)
RemoveUnchecked(p) ==
  /\ pc[p] = "remove"
  /\ file' = NoFile
  /\ seen' = [seen EXCEPT ![p] = None]
  /\ UNCHANGED alive
  /\ Goto(p, "idle")

Remove(p) ==
  /\ pc[p] = "remove"
  /\ file' = IF seen[p] \in {p, "own"} THEN NoFile ELSE file
  /\ seen' = [seen EXCEPT ![p] = None]
  /\ UNCHANGED alive
  /\ Goto(p, "idle")

-----------------------------------------------------------------------------
(* A process dies, and its pid is given to a new one. *)

Die(p) ==
  /\ p \in Mortal \intersect alive
  /\ alive' = alive \ {p}
  /\ seen' = [seen EXCEPT ![p] = None]
  /\ UNCHANGED file
  /\ Goto(p, "idle")

Start(p) ==
  /\ p \in Process \ alive
  /\ alive' = alive \union {p}
  /\ UNCHANGED <<file, pc, seen, settled>>

-----------------------------------------------------------------------------
LockStep(p) ==
  \/ check_group_uucp(p) \/ Refused(p) \/ Stat(p) \/ Read(p) \/ Kill(p)
  \/ Unlink(p) \/ UnlinkFails(p) \/ Create(p) \/ Write(p)
  \/ CheckLockPid(p) \/ Remove(p)

Next ==
  \E p \in Process : LockStep(p) \/ FhsLock(p) \/ FhsUnlock(p) \/ Die(p) \/ Start(p)

Spec == Init /\ [][Next]_vars

(* A process that has begun to lock or unlock goes on. *)
FairSpec == Spec /\ \A p \in Process : WF_vars(LockStep(p))

-----------------------------------------------------------------------------
(***************************************************************************)
(* Once a holder was alone with its lock file, the file stays its own      *)
(* until it unlocks or dies, whoever tries, dies or starts meanwhile.  So  *)
(* there is never a second settled holder.  A process that cannot open the *)
(* file takes what is in its buffer for the pid, and may remove the file   *)
(* of a holder: there must be none (Starved).                              *)
(***************************************************************************)
SettledHolderKeepsLock ==
  \A p \in settled : p \in alive /\ file = LockOf(p)

(***************************************************************************)
(* The device is leased by the settled holder: it passes to the next one   *)
(* only after the present one has unlocked it or died.                     *)
(***************************************************************************)
Holder == IF settled = {} THEN None ELSE CHOOSE p \in Process : p \in settled
DeviceLease == INSTANCE Lease WITH
  Resource <- {"device"}, Client <- Process, Nobody <- None,
  holder <- [r \in {"device"} |-> Holder]
SettledIsALease == DeviceLease!Spec

(***************************************************************************)
(* A lock file whose process has died is removed by the next process that  *)
(* looks ("if there is a stale lock, remove it", SerialImp.c:5747), unless *)
(* it is not allowed to, which refuses the device to it, or dies itself.   *)
(***************************************************************************)
Stale == file.written /\ file.by \notin alive
StaleLockIsRemoved ==
  \A p \in Process :
    pc[p] = "read" /\ Stale ~> ~Stale \/ pc[p] = "refused" \/ p \notin alive

=============================================================================
