--------------------------- MODULE FhsLock_proofs ---------------------------
(***************************************************************************)
(* What FhsLock guarantees for any number of processes, whatever they read *)
(* from a file that is not written yet, and whoever dies: the lock file of *)
(* a settled holder is safe and the settled holders implement the lease of *)
(* the device, as long as everybody can open the file, and a stale file is *)
(* only ever removed.  Without deaths the lock excludes all processes but  *)
(* one.                                                                    *)
(***************************************************************************)
EXTENDS FhsLock, TLAPS

(***************************************************************************)
(* While p is settled, no other process is past the point where it could   *)
(* remove or replace the lock file, and what it has read of it is p.       *)
(***************************************************************************)
Harmless(p, q) ==
  /\ pc[q] \notin {"write", "unlink"}
  /\ pc[q] \in {"kill", "remove"} => seen[q] = p

SettledInv ==
  \A p \in settled : /\ pc[p] = "held" /\ file = LockOf(p)
                     /\ \A q \in Process \ {p} : Harmless(p, q)

(* Everybody can open a lock file that is there. *)
FilesOpen == Starved = {}

IndInv ==
  /\ TypeOK
  /\ \A p \in Process : pc[p] # "idle" => p \in alive
  /\ FilesOpen => SettledInv

(* IndInv holds at the start. *)
LEMMA InitInv == Init => IndInv
BY FhsAssumption DEF Init, IndInv, SettledInv, TypeOK, NoFile, Harmless

(***************************************************************************)
(* A step keeps IndInv if it does not harm the settled holders that still  *)
(* hold the lock: a holder becomes settled only when nobody else is active.*)
(***************************************************************************)
Unharmed(p) ==
  pc'[p] = "held" =>
    file' = LockOf(p) /\ \A q \in Process \ {p} : Harmless(p, q)'

(* A step that keeps the types and harms no settled holder keeps the invariant. *)
LEMMA SettledNext ==
  ASSUME IndInv, Settle,
         file' \in [by : Process \union {None}, written : BOOLEAN],
         alive' \subseteq Process,
         pc' \in [Process -> Locking \union Unlocking \union {"idle", "held"}],
         seen' \in [Process -> Process \union {"running", "dead", "own", None}],
         \A p \in Process : pc'[p] # "idle" => p \in alive',
         FilesOpen => \A p \in settled : Unharmed(p)
  PROVE  IndInv'
<1>1. TypeOK'
  BY DEF TypeOK, Settle
<1>2. \A p \in settled' : /\ p \in Process /\ pc'[p] = "held"
                          /\ \/ p \in settled
                             \/ /\ file' = LockOf(p)
                                /\ \A q \in Process \ {p} : pc'[q] \notin Locking \union Unlocking
  BY DEF Settle
<1>3. FilesOpen =>
        \A p \in settled' : file' = LockOf(p) /\ \A q \in Process \ {p} : Harmless(p, q)'
  BY <1>2 DEF Unharmed, Harmless, Locking, Unlocking
<1>4. QED
  BY <1>1, <1>2, <1>3 DEF IndInv, SettledInv, FilesOpen

(* IndInv is kept by every step. *)
LEMMA NextInv == IndInv /\ [Next]_vars => IndInv'
<1> SUFFICES ASSUME IndInv, [Next]_vars PROVE IndInv'
  OBVIOUS
<1>1. CASE UNCHANGED vars
  BY <1>1 DEF vars, IndInv, SettledInv, FilesOpen, TypeOK, Harmless, LockOf
<1>2. CASE Next
  <2>0. PICK p \in Process : LockStep(p) \/ FhsLock(p) \/ FhsUnlock(p) \/ Die(p) \/ Start(p)
    BY <1>2 DEF Next
  <2> USE FhsAssumption DEF Locking, Unlocking, LockOf, NoFile, Harmless, Unharmed, SettledInv
  <2>1. CASE FhsLock(p)
    <3>1. Settle
      BY <2>1 DEF FhsLock, Goto
    <3>2. /\ file' \in [by : Process \union {None}, written : BOOLEAN]
          /\ alive' \subseteq Process
          /\ pc' \in [Process -> Locking \union Unlocking \union {"idle", "held"}]
          /\ seen' \in [Process -> Process \union {"running", "dead", "own", None}]
          /\ \A q \in Process : pc'[q] # "idle" => q \in alive'
      BY <2>1 DEF FhsLock, Goto, IndInv, TypeOK
    <3>3. FilesOpen => \A q \in settled : Unharmed(q)
      BY <2>1 DEF FhsLock, Goto, IndInv, TypeOK
    <3>4. QED
      BY <3>1, <3>2, <3>3, SettledNext
  <2>2. CASE Refused(p)
    <3>1. Settle
      BY <2>2 DEF Refused, Goto
    <3>2. /\ file' \in [by : Process \union {None}, written : BOOLEAN]
          /\ alive' \subseteq Process
          /\ pc' \in [Process -> Locking \union Unlocking \union {"idle", "held"}]
          /\ seen' \in [Process -> Process \union {"running", "dead", "own", None}]
          /\ \A q \in Process : pc'[q] # "idle" => q \in alive'
      BY <2>2 DEF Refused, Goto, IndInv, TypeOK
    <3>3. FilesOpen => \A q \in settled : Unharmed(q)
      BY <2>2 DEF Refused, Goto, IndInv, TypeOK
    <3>4. QED
      BY <3>1, <3>2, <3>3, SettledNext
  <2>3. CASE Stat(p)
    <3>1. Settle
      BY <2>3 DEF Stat, Goto
    <3>2. /\ file' \in [by : Process \union {None}, written : BOOLEAN]
          /\ alive' \subseteq Process
          /\ pc' \in [Process -> Locking \union Unlocking \union {"idle", "held"}]
          /\ seen' \in [Process -> Process \union {"running", "dead", "own", None}]
          /\ \A q \in Process : pc'[q] # "idle" => q \in alive'
      BY <2>3 DEF Stat, Goto, IndInv, TypeOK
    <3>3. FilesOpen => \A q \in settled : Unharmed(q)
      BY <2>3 DEF Stat, Goto, IndInv, TypeOK
    <3>4. QED
      BY <3>1, <3>2, <3>3, SettledNext
  <2>4. CASE Read(p)
    <3>1. Settle
      BY <2>4 DEF Read, Goto
    <3>2. /\ file' \in [by : Process \union {None}, written : BOOLEAN]
          /\ alive' \subseteq Process
          /\ pc' \in [Process -> Locking \union Unlocking \union {"idle", "held"}]
          /\ seen' \in [Process -> Process \union {"running", "dead", "own", None}]
          /\ \A q \in Process : pc'[q] # "idle" => q \in alive'
      <4>1. file.by \in Process \union {None}
        BY DEF IndInv, TypeOK
      <4>2. \A pid \in {file.by} \union Garbage :
              [seen EXCEPT ![p] = pid]
                \in [Process -> Process \union {"running", "dead", "own", None}]
        BY <4>1 DEF IndInv, TypeOK
      <4>3. seen' \in [Process -> Process \union {"running", "dead", "own", None}]
        BY <4>2, <2>4 DEF Read, ReadPid
      <4>4. QED
        BY <4>3, <2>4 DEF Read, Goto, IndInv, TypeOK
    <3>3. FilesOpen => \A q \in settled : Unharmed(q)
      BY <2>4 DEF Read, ReadPid, OpenFails, FilesOpen, Goto, IndInv, TypeOK
    <3>4. QED
      BY <3>1, <3>2, <3>3, SettledNext
  <2>5. CASE Kill(p)
    <3>1. Settle
      BY <2>5 DEF Kill, Goto
    <3>2. /\ file' \in [by : Process \union {None}, written : BOOLEAN]
          /\ alive' \subseteq Process
          /\ pc' \in [Process -> Locking \union Unlocking \union {"idle", "held"}]
          /\ seen' \in [Process -> Process \union {"running", "dead", "own", None}]
          /\ \A q \in Process : pc'[q] # "idle" => q \in alive'
      BY <2>5 DEF Kill, Running, Goto, IndInv, TypeOK
    <3>3. FilesOpen => \A q \in settled : Unharmed(q)
      BY <2>5 DEF Kill, Running, Goto, IndInv, TypeOK
    <3>4. QED
      BY <3>1, <3>2, <3>3, SettledNext
  <2>6. CASE Unlink(p)
    <3>1. Settle
      BY <2>6 DEF Unlink, Goto
    <3>2. /\ file' \in [by : Process \union {None}, written : BOOLEAN]
          /\ alive' \subseteq Process
          /\ pc' \in [Process -> Locking \union Unlocking \union {"idle", "held"}]
          /\ seen' \in [Process -> Process \union {"running", "dead", "own", None}]
          /\ \A q \in Process : pc'[q] # "idle" => q \in alive'
      BY <2>6 DEF Unlink, Goto, IndInv, TypeOK
    <3>3. FilesOpen => \A q \in settled : Unharmed(q)
      BY <2>6 DEF Unlink, Goto, IndInv, TypeOK
    <3>4. QED
      BY <3>1, <3>2, <3>3, SettledNext
  <2>7. CASE Create(p)
    <3>1. Settle
      BY <2>7 DEF Create, Goto
    <3>2. /\ file' \in [by : Process \union {None}, written : BOOLEAN]
          /\ alive' \subseteq Process
          /\ pc' \in [Process -> Locking \union Unlocking \union {"idle", "held"}]
          /\ seen' \in [Process -> Process \union {"running", "dead", "own", None}]
          /\ \A q \in Process : pc'[q] # "idle" => q \in alive'
      <4>1. CASE file = NoFile
        <5>1. file' = [by |-> p, written |-> FALSE] /\ pc' = [pc EXCEPT ![p] = "write"]
          BY <2>7, <4>1 DEF Create, Goto
        <5>2. file' \in [by : Process \union {None}, written : BOOLEAN]
          BY <5>1
        <5>3. QED
          BY <5>1, <5>2, <2>7 DEF Create, IndInv, TypeOK
      <4>2. CASE file # NoFile
        BY <2>7, <4>2 DEF Create, Goto, IndInv, TypeOK
      <4>3. QED
        BY <4>1, <4>2
    <3>3. FilesOpen => \A q \in settled : Unharmed(q)
      BY <2>7 DEF Create, Goto, IndInv, TypeOK
    <3>4. QED
      BY <3>1, <3>2, <3>3, SettledNext
  <2>8. CASE Write(p)
    <3>1. Settle
      BY <2>8 DEF Write, Goto
    <3>2. /\ file' \in [by : Process \union {None}, written : BOOLEAN]
          /\ alive' \subseteq Process
          /\ pc' \in [Process -> Locking \union Unlocking \union {"idle", "held"}]
          /\ seen' \in [Process -> Process \union {"running", "dead", "own", None}]
          /\ \A q \in Process : pc'[q] # "idle" => q \in alive'
      BY <2>8 DEF Write, Goto, IndInv, TypeOK
    <3>3. FilesOpen => \A q \in settled : Unharmed(q)
      BY <2>8 DEF Write, Goto, IndInv, TypeOK
    <3>4. QED
      BY <3>1, <3>2, <3>3, SettledNext
  <2>9. CASE FhsUnlock(p)
    <3>1. Settle
      BY <2>9 DEF FhsUnlock, Goto
    <3>2. /\ file' \in [by : Process \union {None}, written : BOOLEAN]
          /\ alive' \subseteq Process
          /\ pc' \in [Process -> Locking \union Unlocking \union {"idle", "held"}]
          /\ seen' \in [Process -> Process \union {"running", "dead", "own", None}]
          /\ \A q \in Process : pc'[q] # "idle" => q \in alive'
      BY <2>9 DEF FhsUnlock, Goto, IndInv, TypeOK
    <3>3. FilesOpen => \A q \in settled : Unharmed(q)
      BY <2>9 DEF FhsUnlock, Goto, IndInv, TypeOK
    <3>4. QED
      BY <3>1, <3>2, <3>3, SettledNext
  <2>10. CASE CheckLockPid(p)
    <3>1. Settle
      BY <2>10 DEF CheckLockPid, Goto
    <3>2. /\ file' \in [by : Process \union {None}, written : BOOLEAN]
          /\ alive' \subseteq Process
          /\ pc' \in [Process -> Locking \union Unlocking \union {"idle", "held"}]
          /\ seen' \in [Process -> Process \union {"running", "dead", "own", None}]
          /\ \A q \in Process : pc'[q] # "idle" => q \in alive'
      <4>1. file.by \in Process \union {None}
        BY DEF IndInv, TypeOK
      <4>2. \A pid \in {file.by} \union Garbage :
              [seen EXCEPT ![p] = pid]
                \in [Process -> Process \union {"running", "dead", "own", None}]
        BY <4>1 DEF IndInv, TypeOK
      <4>3. seen' \in [Process -> Process \union {"running", "dead", "own", None}]
        BY <4>2, <2>10 DEF CheckLockPid, ReadPid, IndInv, TypeOK
      <4>4. QED
        BY <4>3, <2>10 DEF CheckLockPid, Goto, IndInv, TypeOK
    <3>3. FilesOpen => \A q \in settled : Unharmed(q)
      BY <2>10 DEF CheckLockPid, ReadPid, OpenFails, FilesOpen, Goto, IndInv, TypeOK
    <3>4. QED
      BY <3>1, <3>2, <3>3, SettledNext
  <2>11. CASE Remove(p)
    <3>1. Settle
      BY <2>11 DEF Remove, Goto
    <3>2. /\ file' \in [by : Process \union {None}, written : BOOLEAN]
          /\ alive' \subseteq Process
          /\ pc' \in [Process -> Locking \union Unlocking \union {"idle", "held"}]
          /\ seen' \in [Process -> Process \union {"running", "dead", "own", None}]
          /\ \A q \in Process : pc'[q] # "idle" => q \in alive'
      BY <2>11 DEF Remove, Goto, IndInv, TypeOK
    <3>3. FilesOpen => \A q \in settled : Unharmed(q)
      <4> SUFFICES ASSUME FilesOpen, NEW q \in settled, pc'[q] = "held"
                   PROVE  file' = LockOf(q) /\ \A r \in Process \ {q} : Harmless(q, r)'
        OBVIOUS
      <4>1. q # p /\ seen[p] = q /\ file = LockOf(q)
        BY <2>11 DEF Remove, Goto, IndInv, TypeOK
      <4>2. file' = file
        BY <4>1, <2>11 DEF Remove, IndInv, TypeOK
      <4>3. QED
        BY <4>1, <4>2, <2>11 DEF Remove, Goto, IndInv, TypeOK
    <3>4. QED
      BY <3>1, <3>2, <3>3, SettledNext
  <2>12. CASE Die(p)
    <3>1. Settle
      BY <2>12 DEF Die, Goto
    <3>2. /\ file' \in [by : Process \union {None}, written : BOOLEAN]
          /\ alive' \subseteq Process
          /\ pc' \in [Process -> Locking \union Unlocking \union {"idle", "held"}]
          /\ seen' \in [Process -> Process \union {"running", "dead", "own", None}]
          /\ \A q \in Process : pc'[q] # "idle" => q \in alive'
      BY <2>12 DEF Die, Goto, IndInv, TypeOK
    <3>3. FilesOpen => \A q \in settled : Unharmed(q)
      BY <2>12 DEF Die, Goto, IndInv, TypeOK
    <3>4. QED
      BY <3>1, <3>2, <3>3, SettledNext
  <2>13. CASE Start(p)
    BY <2>13 DEF Start, IndInv, FilesOpen, TypeOK
  <2>14. CASE check_group_uucp(p)
    <3>1. Settle
      BY <2>14 DEF check_group_uucp, Goto
    <3>2. /\ file' \in [by : Process \union {None}, written : BOOLEAN]
          /\ alive' \subseteq Process
          /\ pc' \in [Process -> Locking \union Unlocking \union {"idle", "held"}]
          /\ seen' \in [Process -> Process \union {"running", "dead", "own", None}]
          /\ \A q \in Process : pc'[q] # "idle" => q \in alive'
      BY <2>14 DEF check_group_uucp, Goto, IndInv, TypeOK
    <3>3. FilesOpen => \A q \in settled : Unharmed(q)
      BY <2>14 DEF check_group_uucp, Goto, IndInv, TypeOK
    <3>4. QED
      BY <3>1, <3>2, <3>3, SettledNext
  <2>15. CASE UnlinkFails(p)
    <3>1. Settle
      BY <2>15 DEF UnlinkFails, Goto
    <3>2. /\ file' \in [by : Process \union {None}, written : BOOLEAN]
          /\ alive' \subseteq Process
          /\ pc' \in [Process -> Locking \union Unlocking \union {"idle", "held"}]
          /\ seen' \in [Process -> Process \union {"running", "dead", "own", None}]
          /\ \A q \in Process : pc'[q] # "idle" => q \in alive'
      BY <2>15 DEF UnlinkFails, Goto, IndInv, TypeOK
    <3>3. FilesOpen => \A q \in settled : Unharmed(q)
      BY <2>15 DEF UnlinkFails, Goto, IndInv, TypeOK
    <3>4. QED
      BY <3>1, <3>2, <3>3, SettledNext
  <2>16. QED
    BY <2>0, <2>1, <2>2, <2>3, <2>4, <2>5, <2>6, <2>7, <2>8, <2>9, <2>10, <2>11, <2>12, <2>13, <2>14,
       <2>15
      DEF LockStep
<1>3. QED
  BY <1>1, <1>2

(* IndInv holds in every reachable state. *)
LEMMA Invariance == Spec => []IndInv
BY InitInv, NextInv, PTL DEF Spec

(* Every reachable state is well formed. *)
THEOREM TypeCorrect == Spec => []TypeOK
<1>1. IndInv => TypeOK
  BY DEF IndInv
<1>2. QED
  BY <1>1, Invariance, PTL

(* A settled holder never loses its lock file, if everybody can open it. *)
THEOREM LockIsKept ==
  ASSUME FilesOpen
  PROVE  Spec => []SettledHolderKeepsLock
<1>1. IndInv => SettledHolderKeepsLock
  BY DEF IndInv, SettledInv, SettledHolderKeepsLock, TypeOK
<1>2. QED
  BY <1>1, Invariance, PTL

(* No step passes the device from one settled holder to another. *)
LEMMA StepIsLeaseStep ==
  ASSUME FilesOpen
  PROVE  IndInv /\ IndInv' /\ [Next]_vars
           => [DeviceLease!Next]_[r \in {"device"} |-> Holder]
<1> DEFINE holder == [r \in {"device"} |-> Holder]
<1> SUFFICES ASSUME IndInv, IndInv', [Next]_vars, Holder' # Holder
             PROVE  DeviceLease!Next
  OBVIOUS
<1>1. CASE Holder = None
  <2>1. Holder' \in Process
    BY <1>1 DEF Holder, IndInv, TypeOK
  <2>2. DeviceLease!Acquire("device", Holder')
    BY <1>1 DEF DeviceLease!Acquire
  <2>3. QED
    BY <2>1, <2>2 DEF DeviceLease!Next
<1>2. CASE Holder # None
  <2>1. PICK p \in Process : p \in settled /\ Holder = p
    BY <1>2 DEF Holder, IndInv, TypeOK
  <2>2. p \notin settled'
    <3>1. \A q, r \in settled' : q = r
      BY DEF IndInv, SettledInv, FilesOpen, LockOf
    <3>2. SUFFICES ASSUME p \in settled' PROVE Holder' = p
      BY <2>1
    <3>3. QED
      BY <3>1, <3>2 DEF Holder
  <2>3. file = LockOf(p) /\ pc[p] = "held"
    BY <2>1 DEF IndInv, SettledInv
  <2>4. file' = LockOf(p)
    <3>1. pc'[p] # "held"
      <4>1. settled' # settled
        BY <2>1, <2>2
      <4>2. PICK q \in Process : LockStep(q) \/ FhsLock(q) \/ FhsUnlock(q) \/ Die(q) \/ Start(q)
        BY <4>1 DEF Next, vars
      <4>3. Settle
        BY <4>1, <4>2 DEF LockStep, FhsLock, FhsUnlock, Die, Start, check_group_uucp,
                       Refused, Stat, Read,
          Kill, Unlink, UnlinkFails, Create, Write, CheckLockPid, Remove, Goto
      <4>4. QED
        BY <4>3, <2>1, <2>2 DEF Settle
    <3>2. FhsUnlock(p) \/ Die(p)
      BY <3>1, <2>3 DEF IndInv, TypeOK, Next, vars, LockStep, FhsLock, FhsUnlock, Die, Start,
        check_group_uucp, Refused, Stat, Read, Kill, Unlink, UnlinkFails, Create, Write,
        CheckLockPid, Remove, Goto
    <3>3. QED
      BY <3>2, <2>3 DEF FhsUnlock, Die
  <2>5. settled' = {}
    BY <2>2, <2>4 DEF IndInv, SettledInv, FilesOpen, LockOf
  <2>6. DeviceLease!Release({"device"})
    BY <2>5 DEF Holder, DeviceLease!Release
  <2>7. QED
    BY <2>6 DEF DeviceLease!Next
<1>3. QED
  BY <1>1, <1>2

(* If everybody can open the lock file, the settled holders implement the  *)
(* lease of the device.                                                    *)
THEOREM LockRefinesLease ==
  ASSUME FilesOpen
  PROVE  Spec => SettledIsALease
<1>1. Init => DeviceLease!Init
  BY DEF Init, DeviceLease!Init, Holder
<1>2. QED
  BY <1>1, StepIsLeaseStep, Invariance, PTL DEF Spec, SettledIsALease, DeviceLease!Spec

-----------------------------------------------------------------------------
(***************************************************************************)
(* A lock file whose process has died is removed or left as it is; nobody  *)
(* completes it or makes it its own.                                       *)
(***************************************************************************)
StaleIsNeverTaken == [][Stale => file' \in {file, NoFile}]_vars

(***************************************************************************)
(* Nobody dies, everybody can open a lock file, and what an unwritten one  *)
(* is taken to hold is not the pid of a dead process.                      *)
(***************************************************************************)
Undisturbed == Mortal = {} /\ FilesOpen /\ "dead" \notin Garbage

(* Between the creation and the removal of its file *)
Holds(p) == pc[p] \in {"write", "held"} \union Unlocking

(* The lock file of a process: it writes its pid after it has created it. *)
FileOf(p) == IF pc[p] = "write" THEN [by |-> p, written |-> FALSE] ELSE LockOf(p)

AtMostOneHolds == \A p, q \in Process : Holds(p) /\ Holds(q) => p = q

(***************************************************************************)
(* Then the file is always that of the one process that holds the lock,    *)
(* and no process takes it for stale.                                      *)
(***************************************************************************)
FileInv ==
  /\ alive = Process
  /\ \A p \in Process : Holds(p) => file = FileOf(p)
  /\ file = NoFile \/ \E p \in Process : Holds(p)
  /\ \A p \in Process : pc[p] # "unlink"
  /\ \A p \in Process : pc[p] = "kill" => seen[p] \in Process \union {"running", "own"}
  /\ \A p \in Process : pc[p] = "remove" => seen[p] = p

(* Nobody completes or replaces the lock file of a dead process. *)
THEOREM StaleIsOnlyRemoved == Spec => StaleIsNeverTaken
<1>1. ASSUME IndInv, [Next]_vars PROVE [Stale => file' \in {file, NoFile}]_vars
  <2> SUFFICES ASSUME Stale, file' # file PROVE file' = NoFile
    OBVIOUS
  <2>1. PICK p \in Process : LockStep(p) \/ FhsLock(p) \/ FhsUnlock(p) \/ Die(p) \/ Start(p)
    BY <1>1 DEF Next, vars
  <2>2. file # NoFile
    BY <1>1 DEF Stale, NoFile
  <2>3. Unlink(p) \/ Write(p) \/ Remove(p)
    BY <1>1, <2>1, <2>2 DEF LockStep, FhsLock, FhsUnlock, Die, Start, check_group_uucp,
      Refused, Stat, Read, Kill, UnlinkFails, Create, CheckLockPid
  <2>4. CASE Write(p)
    BY <1>1, <2>4 DEF Write, IndInv, Stale, Goto
  <2>5. QED
    BY <1>1, <2>3, <2>4 DEF Unlink, Remove
<1>2. QED
  BY <1>1, Invariance, PTL DEF Spec, StaleIsNeverTaken

(* FileInv holds at the start. *)
LEMMA FileInit == Init => FileInv
BY DEF Init, FileInv, Holds, Unlocking

(* FileInv is kept by every step, as long as nobody dies. *)
LEMMA FileNext ==
  ASSUME Undisturbed, IndInv, FileInv, [Next]_vars
  PROVE  FileInv'
<1> USE FhsAssumption DEF Holds, FileOf, Locking, Unlocking, NoFile, LockOf, IndInv, TypeOK, Goto
<1>1. CASE UNCHANGED vars
  BY <1>1 DEF vars, FileInv
<1>2. CASE Next
  <2>0. PICK p \in Process : LockStep(p) \/ FhsLock(p) \/ FhsUnlock(p) \/ Die(p) \/ Start(p)
    BY <1>2 DEF Next
  <2>1. CASE FhsLock(p)
    BY <2>1 DEF FhsLock, FileInv
  <2>2. CASE check_group_uucp(p)
    BY <2>2 DEF check_group_uucp, FileInv
  <2>3. CASE Refused(p) \/ Stat(p)
    BY <2>3 DEF Refused, Stat, FileInv
  <2>4. CASE Read(p)
    <3>1. PICK pid \in IF file.written THEN {file.by} ELSE Garbage :
            seen' = [seen EXCEPT ![p] = pid]
      BY <2>4 DEF Read, ReadPid, OpenFails, Undisturbed, FilesOpen
    <3>2. file.written => file.by \in Process
      BY DEF FileInv
    <3>3. \A b \in Garbage : b \in {"running", "own"}
      BY DEF Undisturbed
    <3>4. pid \in Process \union {"running", "own"}
      BY <3>2, <3>3
    <3>5. QED
      BY <3>1, <3>4, <2>4 DEF Read, FileInv
  <2>5. CASE Kill(p)
    <3>1. Running(p)
      BY <2>5 DEF Kill, FileInv, Running
    <3>2. QED
      BY <3>1, <2>5 DEF Kill, FileInv
  <2>6. CASE Unlink(p) \/ UnlinkFails(p)
    BY <2>6 DEF Unlink, UnlinkFails, FileInv
  <2>7. CASE Create(p)
    <3>1. CASE file = NoFile
      <4>1. file' = [by |-> p, written |-> FALSE] /\ pc' = [pc EXCEPT ![p] = "write"]
        BY <2>7, <3>1 DEF Create
      <4>2. \A q \in Process : ~Holds(q)
        BY <3>1 DEF FileInv
      <4>3. \A q \in Process : Holds(q)' => q = p
        BY <4>1, <4>2 DEF TypeOK
      <4>4. \A q \in Process : Holds(q)' => file' = FileOf(q)'
        <5>1. file' = FileOf(p)'
          BY <4>1
        <5>2. QED
          BY <4>3, <5>1
      <4>5. Holds(p)' /\ alive' = alive /\ seen' = seen
        BY <4>1, <2>7 DEF Create
      <4>6. /\ \A q \in Process : pc'[q] \in {"unlink", "kill", "remove"} => pc[q] = pc'[q]
            /\ alive' = Process /\ \E q \in Process : Holds(q)'
        BY <4>1, <4>5 DEF FileInv
      <4>7. QED
        BY <4>4, <4>5, <4>6 DEF FileInv
    <3>2. CASE file # NoFile
      BY <2>7, <3>2 DEF Create, FileInv
    <3>3. QED
      BY <3>1, <3>2
  <2>8. CASE Write(p)
    <3>1. file = [by |-> p, written |-> FALSE]
      BY <2>8 DEF Write, FileInv
    <3>2. file' = LockOf(p) /\ pc' = [pc EXCEPT ![p] = "held"]
      BY <3>1, <2>8 DEF Write
    <3>3. \A q \in Process : Holds(q) => q = p
      BY <3>1 DEF FileInv
    <3>4. \A q \in Process : Holds(q)' => file' = FileOf(q)'
      <4>1. file' = FileOf(p)'
        BY <3>2
      <4>2. \A q \in Process : Holds(q)' => q = p
        BY <3>2, <3>3
      <4>3. QED
        BY <4>1, <4>2
    <3>5. Holds(p)' /\ alive' = alive /\ seen' = seen
      BY <3>2, <2>8 DEF Write
    <3>6. /\ \A q \in Process : pc'[q] \in {"unlink", "kill", "remove"} => pc[q] = pc'[q]
          /\ alive' = Process /\ \E q \in Process : Holds(q)'
      BY <3>2, <3>5 DEF FileInv
    <3>7. QED
      BY <3>4, <3>5, <3>6 DEF FileInv
  <2>9. CASE FhsUnlock(p)
    BY <2>9 DEF FhsUnlock, FileInv
  <2>10. CASE CheckLockPid(p)
    <3>1. file = LockOf(p)
      BY <2>10 DEF CheckLockPid, FileInv
    <3>2. seen' = [seen EXCEPT ![p] = p] /\ pc' = [pc EXCEPT ![p] = "remove"]
      BY <3>1, <2>10 DEF CheckLockPid, ReadPid, OpenFails, Undisturbed, FilesOpen
    <3>3. \A q \in Process : Holds(q) => q = p
      BY <3>1 DEF FileInv
    <3>4. \A q \in Process : Holds(q)' => file' = FileOf(q)'
      <4>1. file' = FileOf(p)'
        BY <3>1, <3>2, <2>10 DEF CheckLockPid
      <4>2. \A q \in Process : Holds(q)' => q = p
        BY <3>2, <3>3
      <4>3. QED
        BY <4>1, <4>2
    <3>5. Holds(p)' /\ alive' = alive
      BY <3>2, <2>10 DEF CheckLockPid
    <3>6. /\ \A q \in Process : pc'[q] \in {"unlink", "kill", "remove"} => pc[q] = pc'[q] \/ q = p
          /\ alive' = Process /\ \E q \in Process : Holds(q)'
      BY <3>2, <3>5 DEF FileInv
    <3>7. QED
      BY <3>2, <3>4, <3>6 DEF FileInv
  <2>11. CASE Remove(p)
    BY <2>11 DEF Remove, FileInv
  <2>12. CASE Die(p)
    BY <2>12 DEF Die, Undisturbed
  <2>13. CASE Start(p)
    BY <2>13 DEF Start, FileInv
  <2>14. QED
    BY <2>0, <2>1, <2>2, <2>3, <2>4, <2>5, <2>6, <2>7, <2>8, <2>9, <2>10, <2>11, <2>12, <2>13
      DEF LockStep
<1>3. QED
  BY <1>1, <1>2

(***************************************************************************)
(* Undisturbed, the file excludes whoever tries at once with the holder:   *)
(* from the creation of the file to its removal nobody else has created    *)
(* one, settled or not.                                                    *)
(***************************************************************************)
THEOREM LockExcludes ==
  ASSUME Undisturbed
  PROVE  Spec => []AtMostOneHolds
<1>1. IndInv /\ FileInv /\ [Next]_vars => FileInv'
  BY FileNext
<1>2. FileInv => AtMostOneHolds
  <2>1. ASSUME FileInv, NEW p \in Process, NEW q \in Process, Holds(p), Holds(q)
        PROVE  p = q
    <3>1. file = FileOf(p) /\ file = FileOf(q)
      BY <2>1 DEF FileInv
    <3>2. file.by = p /\ file.by = q
      BY <3>1 DEF FileOf, LockOf
    <3>3. QED
      BY <3>2
  <2>2. QED
    BY <2>1 DEF AtMostOneHolds
<1>3. QED
  BY <1>1, <1>2, FileInit, Invariance, PTL DEF Spec

=============================================================================
