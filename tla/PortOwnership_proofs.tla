------------------------ MODULE PortOwnership_proofs ------------------------
(***************************************************************************)
(* Proofs about PortOwnership, for every number of threads, devices,       *)
(* identifiers and ports: who owns an identifier and why, which port has   *)
(* the lock file of a device, and what a close still owes.                 *)
(***************************************************************************)
EXTENDS PortOwnership, TLAPS

(* What each value of pc says of the other variables of a thread *)
ThreadInv ==
  \A t \in Thread :
    /\ pc[t] \in Waiting \union Claimed => ref[t] \in Id
    /\ pc[t] \in {"opened"} \union Closing => port[t] \in Port
    /\ pc[t] \in Closing => closeLock[port[t]] /\ port[t] \in returned
    /\ pc[t] = "opened" => port[t] \notin returned
    /\ pc[t] = "nativeClose" => fd[port[t]] = "open"
    /\ pc[t] = "release" => own[t] \in Id /\ commport[own[t]] = port[t]
    /\ pc[t] = "failed" => NameOf(ref[t]) \in Parallel
    /\ resume[t] = "woken" => pc[t] \in Closing /\ ref[t] \in Id

(* A port is handled by one thread at a time *)
PortInv ==
  /\ \A t \in Thread : port[t] # None => pc[t] \in {"opened"} \union Closing
  /\ \A t, u \in Thread : port[t] = port[u] /\ port[t] # None => t = u
  /\ \A p \in Port : fd[p] = "open" =>
       /\ name[p] \in Name /\ lock[name[p]] = p
       /\ p \in returned \/ \E t \in Thread : port[t] = p

(* Only the scanner scans, and it holds the lock file it probes with *)
ScanInv ==
  /\ scanner # None => pc[scanner] = "scan"
  /\ probing # None => scanner # None /\ lock[probing] = "probe"

IndInv == TypeOK /\ SoleOwner /\ ThreadInv /\ PortInv /\ ScanInv /\ NoLostWakeup

-----------------------------------------------------------------------------
(* Assuming the ownership keeps the types. *)
LEMMA TakeType ==
  ASSUME TypeOK, NEW t \in Thread, ref[t] \in Id, Take(t)
  PROVE  /\ Available' \in [Id -> BOOLEAN]
         /\ Owner' \in [Id -> Thread \union {None}]
         /\ pc' \in [Thread -> PC]
<1>1. Available' \in [Id -> BOOLEAN]
  BY DEF TypeOK, Take
<1>2. Owner' \in [Id -> Thread \union {None}]
  BY DEF TypeOK, Take
<1>3. pc' \in [Thread -> PC]
  BY DEF TypeOK, Take, Goto, PC, Claimed
<1> QED BY <1>1, <1>2, <1>3

(* A scan probes devices, whatever the properties say. *)
LEMMA ProbedNames ==
  ASSUME NEW val \in Properties
  PROVE  initialize(val) \subseteq Name
<1>1. SUFFICES ASSUME NEW type \in {"serial", "parallel"}
               PROVE  /\ registerSpecifiedPorts(type, val) => addSpecifiedPorts(type, val) \subseteq Name
                      /\ registerScannedPorts(type) \subseteq Name
  BY DEF initialize
<1>2. registerSpecifiedPorts(type, val) => addSpecifiedPorts(type, val) \subseteq Name
  BY NameAssumption DEF registerSpecifiedPorts, addSpecifiedPorts
<1>3. registerScannedPorts(type) \subseteq Name
  BY DEF registerScannedPorts, registerValidPorts, CandidateDeviceNames
<1>4. QED
  BY <1>2, <1>3

(* The invariant holds when the class has been loaded. *)
LEMMA InitInv == Init => IndInv
<1> SUFFICES ASSUME Init PROVE IndInv
  OBVIOUS
<1> USE NoneAssumption DEF Init
<1>1. TypeOK
  <2>1. listed \subseteq Id
    BY DEF Id
  <2>2. QED
    BY <2>1 DEF TypeOK, PC
<1>2. SoleOwner
  BY DEF SoleOwner, Claimed
<1>3. ThreadInv
  BY DEF ThreadInv, Claimed, Waiting, Closing
<1>4. PortInv
  BY DEF PortInv
<1>5. ScanInv /\ NoLostWakeup
  BY DEF ScanInv, NoLostWakeup
<1> QED BY <1>1, <1>2, <1>3, <1>4, <1>5 DEF IndInv

(* Every step of every thread and of the environment keeps the invariant. *)
LEMMA NextInv == IndInv /\ [Next]_vars => IndInv'
<1> SUFFICES ASSUME TypeOK, SoleOwner, ThreadInv, PortInv, ScanInv, NoLostWakeup,
                    [Next]_vars
             PROVE  IndInv'
  BY DEF IndInv
<1> USE NoneAssumption, NameAssumption
    DEF TypeOK, PC, Claimed, Waiting, Closing, Goto,
        idVars, scanVars, portVars, worldVars, threadVars, vars
<1>1. ASSUME NEW t \in Thread, NEW id \in Id, GetPortIdentifier(t, id)
      PROVE  IndInv'
  <2>1. TypeOK'
    BY <1>1 DEF GetPortIdentifier
  <2>2. SoleOwner'
    BY <1>1 DEF GetPortIdentifier, SoleOwner
  <2>3. ThreadInv'
    BY <1>1 DEF GetPortIdentifier, ThreadInv
  <2>4. PortInv'
    BY <1>1 DEF GetPortIdentifier, PortInv
  <2>5. ScanInv'
    BY <1>1 DEF GetPortIdentifier, ScanInv
  <2>6. NoLostWakeup'
    BY <1>1 DEF GetPortIdentifier, NoLostWakeup
  <2> QED BY <2>1, <2>2, <2>3, <2>4, <2>5, <2>6 DEF IndInv
<1>2. ASSUME NEW t \in Thread, NEW n \in Name, GetPortIdentifierRescans(t, n)
      PROVE  IndInv'
  <2>1. TypeOK'
    BY <1>2, ProbedNames DEF GetPortIdentifierRescans, StartScan
  <2>2. SoleOwner'
    BY <1>2 DEF GetPortIdentifierRescans, StartScan, SoleOwner
  <2>3. ThreadInv'
    BY <1>2 DEF GetPortIdentifierRescans, StartScan, ThreadInv
  <2>4. PortInv'
    BY <1>2 DEF GetPortIdentifierRescans, StartScan, PortInv
  <2>5. ScanInv'
    BY <1>2 DEF GetPortIdentifierRescans, StartScan, ScanInv
  <2>6. NoLostWakeup'
    BY <1>2 DEF GetPortIdentifierRescans, StartScan, NoLostWakeup
  <2> QED BY <2>1, <2>2, <2>3, <2>4, <2>5, <2>6 DEF IndInv
<1>3. ASSUME NEW t \in Thread, GetPortIdentifiers(t)
      PROVE  IndInv'
  <2>1. TypeOK'
    BY <1>3, ProbedNames DEF GetPortIdentifiers, StartScan
  <2>2. SoleOwner'
    BY <1>3 DEF GetPortIdentifiers, StartScan, SoleOwner
  <2>3. ThreadInv'
    BY <1>3 DEF GetPortIdentifiers, StartScan, ThreadInv
  <2>4. PortInv'
    BY <1>3 DEF GetPortIdentifiers, StartScan, PortInv
  <2>5. ScanInv'
    BY <1>3 DEF GetPortIdentifiers, StartScan, ScanInv
  <2>6. NoLostWakeup'
    BY <1>3 DEF GetPortIdentifiers, StartScan, NoLostWakeup
  <2> QED BY <2>1, <2>2, <2>3, <2>4, <2>5, <2>6 DEF IndInv
<1>4. ASSUME NEW n \in Name, TestReadLock(n)
      PROVE  IndInv'
  <2>1. TypeOK'
    BY <1>4 DEF TestReadLock
  <2>2. SoleOwner'
    BY <1>4 DEF TestReadLock, SoleOwner
  <2>3. ThreadInv'
    BY <1>4 DEF TestReadLock, ThreadInv
  <2>4. PortInv'
    BY <1>4 DEF TestReadLock, PortInv
  <2>5. ScanInv'
    BY <1>4 DEF TestReadLock, ScanInv
  <2>6. NoLostWakeup'
    BY <1>4 DEF TestReadLock, NoLostWakeup
  <2> QED BY <2>1, <2>2, <2>3, <2>4, <2>5, <2>6 DEF IndInv
<1>5. ASSUME TestReadUnlock
      PROVE  IndInv'
  <2>1. TypeOK'
    BY <1>5 DEF TestReadUnlock, Unlock
  <2>2. SoleOwner'
    BY <1>5 DEF TestReadUnlock, Unlock, SoleOwner
  <2>3. ThreadInv'
    BY <1>5 DEF TestReadUnlock, Unlock, ThreadInv
  <2>4. PortInv'
    BY <1>5 DEF TestReadUnlock, Unlock, ScanInv, PortInv
  <2>5. ScanInv'
    BY <1>5 DEF TestReadUnlock, Unlock, ScanInv
  <2>6. NoLostWakeup'
    BY <1>5 DEF TestReadUnlock, Unlock, NoLostWakeup
  <2> QED BY <2>1, <2>2, <2>3, <2>4, <2>5, <2>6 DEF IndInv
<1>6. ASSUME EndScan
      PROVE  IndInv'
  <2>1. TypeOK'
    BY <1>6 DEF EndScan, Created, Reachable, Restored
  <2>2. SoleOwner'
    BY <1>6 DEF EndScan, ThreadInv, Created, Reachable, SoleOwner
  <2>3. ThreadInv'
    BY <1>6 DEF EndScan, ScanInv, Created, Reachable, ThreadInv
  <2>4. PortInv'
    BY <1>6 DEF EndScan, ScanInv, PortInv
  <2>5. ScanInv'
    BY <1>6 DEF EndScan, ScanInv
  <2>6. NoLostWakeup'
    BY <1>6 DEF EndScan, ThreadInv, Created, Reachable, NoLostWakeup
  <2> QED BY <2>1, <2>2, <2>3, <2>4, <2>5, <2>6 DEF IndInv
<1>7. ASSUME NEW t \in Thread, Open(t)
      PROVE  IndInv'
  <2>1. TypeOK'
    <3>1. ref[t] \in Id
      BY <1>7 DEF Open
    <3>2. CASE Available[ref[t]]
      BY <1>7, <3>1, <3>2, TakeType DEF Open
    <3>3. CASE ~Available[ref[t]]
      BY <1>7, <3>3 DEF Open
    <3> QED BY <3>2, <3>3
  <2>2. SoleOwner'
    <3>1. ref[t] \in Id
      BY <1>7 DEF Open
    <3>2. CASE Available[ref[t]]
      <4>1. Take(t) /\ ref' = ref /\ commport' = commport
        BY <1>7, <3>2 DEF Open
      <4>2. \A u \in Thread : pc[u] \in Claimed => ref[u] # ref[t]
        BY <3>2 DEF SoleOwner
      <4> QED BY <3>1, <3>2, <4>1, <4>2 DEF Take, SoleOwner
    <3>3. CASE ~Available[ref[t]]
      BY <1>7, <3>3 DEF Open, SoleOwner
    <3> QED BY <3>2, <3>3
  <2>3. ThreadInv'
    BY <1>7 DEF Open, Take, ThreadInv
  <2>4. PortInv'
    BY <1>7 DEF Open, Take, PortInv
  <2>5. ScanInv'
    BY <1>7 DEF Open, Take, ScanInv
  <2>6. NoLostWakeup'
    BY <1>7 DEF Open, Take, ThreadInv, SoleOwner, NoLostWakeup
  <2> QED BY <2>1, <2>2, <2>3, <2>4, <2>5, <2>6 DEF IndInv
<1>8. ASSUME NEW t \in Thread, Contend(t)
      PROVE  IndInv'
  <2>1. TypeOK'
    <3>1. CASE Take(t)
      BY <1>8, <3>1, TakeType DEF Contend, ThreadInv
    <3>2. CASE ~Take(t)
      BY <1>8, <3>2 DEF Contend
    <3> QED BY <3>1, <3>2
  <2>2. SoleOwner'
    BY <1>8 DEF Contend, Take, ThreadInv, SoleOwner
  <2>3. ThreadInv'
    BY <1>8 DEF Contend, Take, ThreadInv
  <2>4. PortInv'
    BY <1>8 DEF Contend, Take, PortInv
  <2>5. ScanInv'
    BY <1>8 DEF Contend, Take, ScanInv
  <2>6. NoLostWakeup'
    BY <1>8 DEF Contend, Take, ThreadInv, SoleOwner, NoLostWakeup
  <2> QED BY <2>1, <2>2, <2>3, <2>4, <2>5, <2>6 DEF IndInv
<1>9. ASSUME NEW t \in Thread, Expire(t)
      PROVE  IndInv'
  <2>1. TypeOK'
    BY <1>9 DEF Expire
  <2>2. SoleOwner'
    BY <1>9 DEF Expire, SoleOwner
  <2>3. ThreadInv'
    BY <1>9 DEF Expire, ThreadInv
  <2>4. PortInv'
    BY <1>9 DEF Expire, PortInv
  <2>5. ScanInv'
    BY <1>9 DEF Expire, ScanInv
  <2>6. NoLostWakeup'
    BY <1>9 DEF Expire, NoLostWakeup
  <2> QED BY <2>1, <2>2, <2>3, <2>4, <2>5, <2>6 DEF IndInv
<1>10. ASSUME NEW t \in Thread, Expired(t)
      PROVE  IndInv'
  <2>1. TypeOK'
    <3>1. CASE Available[ref[t]]
      BY <1>10, <3>1, TakeType DEF Expired, ThreadInv
    <3>2. CASE ~Available[ref[t]]
      BY <1>10, <3>2 DEF Expired
    <3> QED BY <3>1, <3>2
  <2>2. SoleOwner'
    BY <1>10 DEF Expired, Take, ThreadInv, SoleOwner
  <2>3. ThreadInv'
    BY <1>10 DEF Expired, Take, ThreadInv
  <2>4. PortInv'
    BY <1>10 DEF Expired, Take, PortInv
  <2>5. ScanInv'
    BY <1>10 DEF Expired, Take, ScanInv
  <2>6. NoLostWakeup'
    BY <1>10 DEF Expired, Take, ThreadInv, SoleOwner, NoLostWakeup
  <2> QED BY <2>1, <2>2, <2>3, <2>4, <2>5, <2>6 DEF IndInv
<1>11. ASSUME NEW t \in Thread, GetCommPortFails(t)
      PROVE  IndInv'
  <2>1. TypeOK'
    BY <1>11 DEF GetCommPortFails
  <2>2. SoleOwner'
    BY <1>11 DEF GetCommPortFails, SoleOwner
  <2>3. ThreadInv'
    BY <1>11 DEF GetCommPortFails, ThreadInv
  <2>4. PortInv'
    BY <1>11 DEF GetCommPortFails, PortInv
  <2>5. ScanInv'
    BY <1>11 DEF GetCommPortFails, ScanInv
  <2>6. NoLostWakeup'
    BY <1>11 DEF GetCommPortFails, NoLostWakeup
  <2> QED BY <2>1, <2>2, <2>3, <2>4, <2>5, <2>6 DEF IndInv
<1>12. ASSUME NEW t \in Thread, NEW p \in Port, GetCommPort(t, p)
      PROVE  IndInv'
  <2>0. ~throw_java_exception(PORT_IN_USE_EXCEPTION)
    BY DEF throw_java_exception, PORT_IN_USE_EXCEPTION, KnownClasses
  <2>1. TypeOK'
    <3>1. NameOf(ref[t]) \in Name
      BY <1>12, <2>0 DEF GetCommPort, ThreadInv, Id, NameOf
    <3>2. /\ fd' \in [Port -> {"closed", "bad", "open"}]
          /\ name' \in [Port -> Name \union {None}]
          /\ lock' \in [Name -> {"free", "probe", "leaked", "other"} \union Port]
      BY <1>12, <2>0, <3>1 DEF GetCommPort, NativeOpen
    <3>3. pc' \in [Thread -> PC] /\ port' \in [Thread -> Port \union {None}]
      BY <1>12, <2>0 DEF GetCommPort
    <3> QED BY <1>12, <2>0, <3>2, <3>3 DEF GetCommPort
  <2>2. SoleOwner'
    BY <1>12, <2>0 DEF GetCommPort, SoleOwner
  <2>3. ThreadInv'
    BY <1>12, <2>0 DEF GetCommPort, NativeOpen, UnusedPort, ThreadInv
  <2>4. PortInv'
    BY <1>12, <2>0 DEF GetCommPort, NativeOpen, UnusedPort, PortInv
  <2>5. ScanInv'
    BY <1>12, <2>0 DEF GetCommPort, NativeOpen, ScanInv
  <2>6. NoLostWakeup'
    BY <1>12, <2>0 DEF GetCommPort, NoLostWakeup
  <2> QED BY <2>1, <2>2, <2>3, <2>4, <2>5, <2>6 DEF IndInv
<1>13. ASSUME NEW t \in Thread, OpenReturns(t)
      PROVE  IndInv'
  <2>1. TypeOK'
    BY <1>13 DEF OpenReturns, ThreadInv
  <2>2. SoleOwner'
    BY <1>13 DEF OpenReturns, SoleOwner
  <2>3. ThreadInv'
    BY <1>13 DEF OpenReturns, PortInv, SoleOwner, ThreadInv
  <2>4. PortInv'
    BY <1>13 DEF OpenReturns, PortInv
  <2>5. ScanInv'
    BY <1>13 DEF OpenReturns, ScanInv
  <2>6. NoLostWakeup'
    BY <1>13 DEF OpenReturns, NoLostWakeup
  <2> QED BY <2>1, <2>2, <2>3, <2>4, <2>5, <2>6 DEF IndInv
<1>14. ASSUME NEW t \in Thread, OpenThrows(t)
      PROVE  IndInv'
  <2>1. TypeOK'
    BY <1>14 DEF OpenThrows
  <2>2. SoleOwner'
    BY <1>14 DEF OpenThrows, SoleOwner
  <2>3. ThreadInv'
    BY <1>14 DEF OpenThrows, ThreadInv
  <2>4. PortInv'
    BY <1>14 DEF OpenThrows, PortInv
  <2>5. ScanInv'
    BY <1>14 DEF OpenThrows, ScanInv
  <2>6. NoLostWakeup'
    BY <1>14 DEF OpenThrows, ThreadInv, SoleOwner, NoLostWakeup
  <2> QED BY <2>1, <2>2, <2>3, <2>4, <2>5, <2>6 DEF IndInv
<1>15. ASSUME NEW t \in Thread, NEW p \in Port, Close(t, p)
      PROVE  IndInv'
  <2>1. TypeOK'
    BY <1>15 DEF Close
  <2>2. SoleOwner'
    BY <1>15 DEF Close, SoleOwner
  <2>3. ThreadInv'
    BY <1>15 DEF Close, ThreadInv
  <2>4. PortInv'
    BY <1>15 DEF Close, ThreadInv, PortInv
  <2>5. ScanInv'
    BY <1>15 DEF Close, ScanInv
  <2>6. NoLostWakeup'
    BY <1>15 DEF Close, NoLostWakeup
  <2> QED BY <2>1, <2>2, <2>3, <2>4, <2>5, <2>6 DEF IndInv
<1>16. ASSUME NEW t \in Thread, NativeClose(t)
      PROVE  IndInv'
  <2>1. TypeOK'
    BY <1>16 DEF NativeClose, Unlock
  <2>2. SoleOwner'
    BY <1>16 DEF NativeClose, SoleOwner
  <2>3. ThreadInv'
    BY <1>16 DEF NativeClose, Unlock, PortInv, ThreadInv
  <2>4. PortInv'
    BY <1>16 DEF NativeClose, Unlock, ThreadInv, PortInv
  <2>5. ScanInv'
    BY <1>16 DEF NativeClose, Unlock, ThreadInv, PortInv, ScanInv
  <2>6. NoLostWakeup'
    BY <1>16 DEF NativeClose, NoLostWakeup
  <2> QED BY <2>1, <2>2, <2>3, <2>4, <2>5, <2>6 DEF IndInv
<1>17. ASSUME NEW t \in Thread, LookupOwnIdentifier(t)
      PROVE  IndInv'
  <2>1. TypeOK'
    BY <1>17 DEF LookupOwnIdentifier, IdentifierOf
  <2>2. SoleOwner'
    BY <1>17 DEF LookupOwnIdentifier, IdentifierOf, SoleOwner
  <2>3. ThreadInv'
    BY <1>17 DEF LookupOwnIdentifier, IdentifierOf, ThreadInv
  <2>4. PortInv'
    BY <1>17 DEF LookupOwnIdentifier, IdentifierOf, PortInv
  <2>5. ScanInv'
    BY <1>17 DEF LookupOwnIdentifier, IdentifierOf, ScanInv
  <2>6. NoLostWakeup'
    BY <1>17 DEF LookupOwnIdentifier, IdentifierOf, NoLostWakeup
  <2> QED BY <2>1, <2>2, <2>3, <2>4, <2>5, <2>6 DEF IndInv
<1>18. ASSUME NEW t \in Thread, InternalClosePort(t)
      PROVE  IndInv'
  <2>1. TypeOK'
    BY <1>18 DEF InternalClosePort
  <2>2. SoleOwner'
    BY <1>18 DEF InternalClosePort, ThreadInv, SoleOwner
  <2>3. ThreadInv'
    BY <1>18 DEF InternalClosePort, PortInv, SoleOwner, ThreadInv
  <2>4. PortInv'
    BY <1>18 DEF InternalClosePort, PortInv
  <2>5. ScanInv'
    BY <1>18 DEF InternalClosePort, ScanInv
  <2>6. NoLostWakeup'
    BY <1>18 DEF InternalClosePort, NoLostWakeup
  <2> QED BY <2>1, <2>2, <2>3, <2>4, <2>5, <2>6 DEF IndInv
<1>19. ASSUME NEW t \in Thread, CloseReturns(t)
      PROVE  IndInv'
  <2>1. TypeOK'
    BY <1>19 DEF CloseReturns
  <2>2. SoleOwner'
    BY <1>19 DEF CloseReturns, SoleOwner
  <2>3. ThreadInv'
    BY <1>19 DEF CloseReturns, PortInv, ThreadInv
  <2>4. PortInv'
    BY <1>19 DEF CloseReturns, ThreadInv, PortInv
  <2>5. ScanInv'
    BY <1>19 DEF CloseReturns, ScanInv
  <2>6. NoLostWakeup'
    BY <1>19 DEF CloseReturns, NoLostWakeup
  <2> QED BY <2>1, <2>2, <2>3, <2>4, <2>5, <2>6 DEF IndInv
<1>20. ASSUME NEW t \in Thread, DropIdentifier(t)
      PROVE  IndInv'
  <2>1. TypeOK'
    BY <1>20 DEF DropIdentifier
  <2>2. SoleOwner'
    BY <1>20 DEF DropIdentifier, SoleOwner
  <2>3. ThreadInv'
    BY <1>20 DEF DropIdentifier, ThreadInv
  <2>4. PortInv'
    BY <1>20 DEF DropIdentifier, PortInv
  <2>5. ScanInv'
    BY <1>20 DEF DropIdentifier, ScanInv
  <2>6. NoLostWakeup'
    BY <1>20 DEF DropIdentifier, NoLostWakeup
  <2> QED BY <2>1, <2>2, <2>3, <2>4, <2>5, <2>6 DEF IndInv
<1>21. ASSUME NEW p \in Port, DropPort(p)
      PROVE  IndInv'
  <2>1. TypeOK'
    BY <1>21 DEF DropPort
  <2>2. SoleOwner'
    BY <1>21 DEF DropPort, SoleOwner
  <2>3. ThreadInv'
    BY <1>21 DEF DropPort, ThreadInv
  <2>4. PortInv'
    BY <1>21 DEF DropPort, PortInv
  <2>5. ScanInv'
    BY <1>21 DEF DropPort, ScanInv
  <2>6. NoLostWakeup'
    BY <1>21 DEF DropPort, NoLostWakeup
  <2> QED BY <2>1, <2>2, <2>3, <2>4, <2>5, <2>6 DEF IndInv
<1>22. ASSUME NEW n \in Name, PlugOrUnplug(n)
      PROVE  IndInv'
  <2>1. TypeOK'
    BY <1>22 DEF PlugOrUnplug
  <2>2. SoleOwner'
    BY <1>22 DEF PlugOrUnplug, SoleOwner
  <2>3. ThreadInv'
    BY <1>22 DEF PlugOrUnplug, ThreadInv
  <2>4. PortInv'
    BY <1>22 DEF PlugOrUnplug, PortInv
  <2>5. ScanInv'
    BY <1>22 DEF PlugOrUnplug, ScanInv
  <2>6. NoLostWakeup'
    BY <1>22 DEF PlugOrUnplug, NoLostWakeup
  <2> QED BY <2>1, <2>2, <2>3, <2>4, <2>5, <2>6 DEF IndInv
<1>23. ASSUME NEW n \in Name, OtherProcess(n)
      PROVE  IndInv'
  <2>1. TypeOK'
    BY <1>23 DEF OtherProcess
  <2>2. SoleOwner'
    BY <1>23 DEF OtherProcess, SoleOwner
  <2>3. ThreadInv'
    BY <1>23 DEF OtherProcess, ThreadInv
  <2>4. PortInv'
    BY <1>23 DEF OtherProcess, PortInv
  <2>5. ScanInv'
    BY <1>23 DEF OtherProcess, ScanInv
  <2>6. NoLostWakeup'
    BY <1>23 DEF OtherProcess, NoLostWakeup
  <2> QED BY <2>1, <2>2, <2>3, <2>4, <2>5, <2>6 DEF IndInv
<1>24. ASSUME TestReadFails
      PROVE  IndInv'
  <2>1. TypeOK'
    BY <1>24 DEF TestReadFails, Unlock
  <2>2. SoleOwner'
    BY <1>24 DEF TestReadFails, Unlock, SoleOwner
  <2>3. ThreadInv'
    BY <1>24 DEF TestReadFails, Unlock, ThreadInv
  <2>4. PortInv'
    BY <1>24 DEF TestReadFails, Unlock, ScanInv, PortInv
  <2>5. ScanInv'
    BY <1>24 DEF TestReadFails, Unlock, ScanInv
  <2>6. NoLostWakeup'
    BY <1>24 DEF TestReadFails, Unlock, NoLostWakeup
  <2> QED BY <2>1, <2>2, <2>3, <2>4, <2>5, <2>6 DEF IndInv
<1>25. CASE UNCHANGED vars
  BY <1>25 DEF IndInv, SoleOwner, ThreadInv, PortInv, ScanInv, NoLostWakeup
<1> QED
  BY <1>1, <1>2, <1>3, <1>4, <1>5, <1>6, <1>7, <1>8, <1>9, <1>10, <1>11, <1>12, <1>13,
     <1>14, <1>15, <1>16, <1>17, <1>18, <1>19, <1>20, <1>21, <1>22, <1>23, <1>24, <1>25
  DEF Next, CallStep, ScanStep, ClientCall, World

(* The inductive invariant holds in every reachable state. *)
LEMMA Invariance == Spec => []IndInv
  BY InitInv, NextInv, PTL DEF Spec

-----------------------------------------------------------------------------
(* The state of the library stays well formed (CommPortIdentifier.java). *)
THEOREM TypeCorrect == Spec => []TypeOK
  BY Invariance, PTL DEF IndInv

(***************************************************************************)
(* CommPortIdentifier.open hands an identifier to one client at a time,    *)
(* whatever rescans, closes and timeouts happen meanwhile.                 *)
(***************************************************************************)
THEOREM OneOwner == Spec => []SoleOwner
  BY Invariance, PTL DEF IndInv

(* A client that waits in open() has not missed the release. *)
THEOREM NoWakeupIsLost == Spec => []NoLostWakeup
  BY Invariance, PTL DEF IndInv

(***************************************************************************)
(* The lock file keeps a second RXTXPort off a device, even when stale     *)
(* identifiers let a client try.                                           *)
(***************************************************************************)
THEOREM DevicesAreExclusive == Spec => []DeviceExclusive
<1>1. IndInv => DeviceExclusive
  BY DEF IndInv, PortInv, DeviceExclusive
<1> QED BY Invariance, <1>1, PTL

(***************************************************************************)
(* Owner changes as a lease does: an open() assumes a free identifier, and *)
(* a close, a failed open or the collection of a stale identifier frees it.*)
(***************************************************************************)
LEMMA StepIsLeaseStep == IndInv /\ [Next]_vars => [IdentifierLease!Next]_Owner
<1> SUFFICES ASSUME IndInv, [Next]_vars, Owner' # Owner
             PROVE  IdentifierLease!Next
  OBVIOUS
<1> USE DEF IndInv, IdentifierLease!Next, IdentifierLease!Acquire, IdentifierLease!Release
<1>1. ASSUME NEW t \in Thread, ref[t] \in Id, Available[ref[t]], Take(t)
      PROVE  \E r \in Id, c \in Thread : IdentifierLease!Acquire(r, c)
  BY <1>1 DEF Take, SoleOwner
<1>2. ASSUME NEW t \in Thread, Open(t)
      PROVE  IdentifierLease!Next
  BY <1>1, <1>2, NoneAssumption DEF Open, TypeOK
<1>3. ASSUME NEW t \in Thread, Contend(t)
      PROVE  IdentifierLease!Next
  BY <1>1, <1>3 DEF Contend, ThreadInv, Waiting
<1>4. ASSUME NEW t \in Thread, Expired(t)
      PROVE  IdentifierLease!Next
  BY <1>1, <1>4 DEF Expired, ThreadInv, Waiting
<1>5. ASSUME NEW t \in Thread, OpenThrows(t)
      PROVE  IdentifierLease!Release({ref[t]}) /\ {ref[t]} \in SUBSET Id
  BY <1>5 DEF OpenThrows, ThreadInv, Claimed, TypeOK
<1>6. ASSUME NEW t \in Thread, InternalClosePort(t)
      PROVE  IdentifierLease!Release({own[t]}) /\ {own[t]} \in SUBSET Id
  BY <1>6 DEF InternalClosePort, ThreadInv, TypeOK
<1>7. ASSUME EndScan
      PROVE  \E S \in SUBSET Id : IdentifierLease!Release(S)
  BY <1>7 DEF EndScan
<1> QED
  BY <1>2, <1>3, <1>4, <1>5, <1>6, <1>7
  DEF Next, CallStep, ScanStep, ClientCall, World, vars, idVars,
      GetPortIdentifier, GetPortIdentifierRescans, GetPortIdentifiers, StartScan,
      TestReadLock, TestReadUnlock, TestReadFails, Expire, GetCommPortFails, GetCommPort, OpenReturns,
      Close, NativeClose, LookupOwnIdentifier, CloseReturns,
      DropIdentifier, DropPort, PlugOrUnplug, OtherProcess

(* The identifiers implement the abstract lease. *)
THEOREM OwnershipRefinesLease == Spec => OwnershipIsALease
<1>1. Init => IdentifierLease!Init
  BY DEF Init, IdentifierLease!Init
<1> QED
  BY <1>1, StepIsLeaseStep, Invariance, PTL
  DEF Spec, OwnershipIsALease, IdentifierLease!Spec

-----------------------------------------------------------------------------
(***************************************************************************)
(* A lock file that this process has taken for a port goes only with that  *)
(* port: no scan, no failed open and no close of another port, which all   *)
(* remove the file of their device, removes it under an open port.         *)
(***************************************************************************)
LockOfOpenPort(n) == fd[lock[n]] = "open" /\ name[lock[n]] = n
LockInv == \A n \in Name : lock[n] \in Port => LockOfOpenPort(n)
LocksFollowPorts ==
  [][\A n \in Name : lock[n] \in Port /\ lock'[n] # lock[n] =>
       LockOfOpenPort(n) /\ fd'[lock[n]] = "closed"]_vars

(* The steps that touch a lock file or a descriptor *)
LEMMA LockSteps ==
  ASSUME [Next]_vars
  PROVE  \/ UNCHANGED <<lock, fd, name>>
         \/ \E n \in Name : TestReadLock(n) \/ OtherProcess(n)
         \/ TestReadUnlock \/ TestReadFails
         \/ \E t \in Thread : NativeClose(t) \/ \E p \in Port : GetCommPort(t, p)
BY DEF Next, CallStep, ClientCall, ScanStep, World, vars, idVars, scanVars, portVars, worldVars,
  threadVars, GetPortIdentifier, GetPortIdentifierRescans, GetPortIdentifiers, StartScan, EndScan,
  Open, Contend, Expire, Expired, Take, Goto, GetCommPortFails, OpenReturns, OpenThrows, Close,
  LookupOwnIdentifier, InternalClosePort, CloseReturns, DropIdentifier, DropPort, PlugOrUnplug

(* A step changes the lock file of a port only by closing that port. *)
LEMMA LockStep ==
  ASSUME IndInv, LockInv, [Next]_vars
  PROVE  /\ LockInv'
         /\ \A n \in Name : lock[n] \in Port /\ lock'[n] # lock[n] => fd'[lock[n]] = "closed"
<1> USE NameAssumption DEF IndInv, TypeOK, LockInv, LockOfOpenPort, portVars, worldVars
<1>1. CASE UNCHANGED <<lock, fd, name>>
  BY <1>1
<1>2. ASSUME NEW n \in Name, TestReadLock(n) \/ OtherProcess(n)
      PROVE  /\ LockInv'
             /\ \A m \in Name : lock[m] \in Port /\ lock'[m] # lock[m] => fd'[lock[m]] = "closed"
  BY <1>2 DEF TestReadLock, OtherProcess
<1>3. CASE TestReadUnlock \/ TestReadFails
  <2>1. lock[probing] = "probe"
    BY <1>3 DEF TestReadUnlock, TestReadFails, ScanInv
  <2> QED BY <1>3, <2>1 DEF TestReadUnlock, TestReadFails, Unlock
<1>4. ASSUME NEW t \in Thread, NativeClose(t)
      PROVE  /\ LockInv'
             /\ \A m \in Name : lock[m] \in Port /\ lock'[m] # lock[m] => fd'[lock[m]] = "closed"
  <2>1. port[t] \in Port /\ fd[port[t]] = "open"
    BY <1>4 DEF NativeClose, ThreadInv, Closing
  <2>2. name[port[t]] \in Name /\ lock[name[port[t]]] = port[t]
    BY <2>1 DEF PortInv
  <2>3. /\ lock' = [lock EXCEPT ![name[port[t]]] = "free"]
        /\ fd' = [fd EXCEPT ![port[t]] = "closed"] /\ name' = name
    BY <1>4, <2>1, <2>2 DEF NativeClose, Unlock
  <2> QED BY <2>1, <2>2, <2>3
<1>5. ASSUME NEW t \in Thread, NEW p \in Port, GetCommPort(t, p)
      PROVE  /\ LockInv'
             /\ \A m \in Name : lock[m] \in Port /\ lock'[m] # lock[m] => fd'[lock[m]] = "closed"
  <2>1. ref[t] \in Id
    BY <1>5 DEF GetCommPort, ThreadInv, Claimed
  <2>2. PICK n \in Name : n = NameOf(ref[t])
    BY <2>1 DEF Id, NameOf
  <2>3. \A m \in Name : lock[m] # p
    BY <1>5 DEF GetCommPort, UnusedPort, PortInv
  <2>4. NativeOpen(n, p)
    BY <1>5, <2>2 DEF GetCommPort
  <2>5. CASE lock[n] = "free" /\ n \in present
    <3>1. /\ lock' = [lock EXCEPT ![n] = p] /\ fd' = [fd EXCEPT ![p] = "open"]
          /\ name' = [name EXCEPT ![p] = n]
      BY <2>4, <2>5 DEF NativeOpen
    <3> QED BY <2>3, <2>5, <3>1
  <2>6. CASE ~(lock[n] = "free" /\ n \in present)
    <3>1. /\ lock' \in {lock, [lock EXCEPT ![n] = "leaked"]}
          /\ lock[n] \in Port => lock' = lock
          /\ fd' = [fd EXCEPT ![p] = "bad"] /\ name' = [name EXCEPT ![p] = n]
      BY <2>4, <2>6 DEF NativeOpen
    <3> QED BY <2>3, <3>1
  <2> QED BY <2>5, <2>6
<1> QED BY <1>1, <1>2, <1>3, <1>4, <1>5, LockSteps

(* No step removes the lock file of a port that stays open. *)
THEOREM LocksGoWithTheirPorts == Spec => LocksFollowPorts
<1>1. Init => LockInv
  BY NameAssumption DEF Init, LockInv
<1>2. IndInv /\ LockInv /\ [Next]_vars => LockInv'
  BY LockStep
<1>3. IndInv /\ LockInv /\ [Next]_vars =>
        [\A n \in Name : lock[n] \in Port /\ lock'[n] # lock[n] =>
           LockOfOpenPort(n) /\ fd'[lock[n]] = "closed"]_vars
  BY LockStep DEF LockInv
<1> QED BY <1>1, <1>2, <1>3, Invariance, PTL DEF Spec, LocksFollowPorts

-----------------------------------------------------------------------------
(***************************************************************************)
(* An identifier is owned through the port that it is attached to, or by a *)
(* thread that is still inside open().                                     *)
(***************************************************************************)
OwnedForAReason ==
  \A id \in Id : ~Available[id] =>
    commport[id] # None \/ \E t \in Thread : pc[t] \in Claimed /\ ref[t] = id

(***************************************************************************)
(* A port is attached to one identifier at most that anybody can reach,    *)
(* and to none before open() attaches it.                                  *)
(***************************************************************************)
Attached(id) == id \in Reachable /\ commport[id] # None
AttachInv ==
  /\ scanner = None => oldPorts = {}
  /\ \A id, other \in Id : Attached(id) /\ Attached(other) /\ commport[id] = commport[other] => id = other
  /\ \A t \in Thread : pc[t] = "opened" =>
       /\ fd[port[t]] # "closed"
       /\ \A id \in Id : Attached(id) => commport[id] # port[t]
  /\ ClosedIsReleased

(* Nothing is attached when the class has been loaded. *)
LEMMA AttachInit == Init => AttachInv
BY DEF Init, AttachInv, Attached, ClosedIsReleased, Id

(***************************************************************************)
(* A step that attaches nothing, closes nothing and reaches no more than   *)
(* before keeps the invariant, if every release goes on.                   *)
(***************************************************************************)
LEMMA NothingAttached ==
  ASSUME TypeOK, AttachInv, UNCHANGED <<commport, fd>>,
         \A id \in Id : id \in Reachable' => id \in Reachable,
         (listed \union oldPorts)' \subseteq listed \union oldPorts,
         scanner' = None => oldPorts' = {},
         \A t \in Thread : pc'[t] = "opened" => pc[t] = "opened" /\ port'[t] = port[t],
         \A p \in Port : Releases(p) => Releases(p)'
  PROVE  AttachInv'
<1>1. \A id \in Id : Attached(id)' => Attached(id)
  BY DEF Attached
<1>2. ClosedIsReleased'
  BY DEF AttachInv, ClosedIsReleased, TypeOK
<1> QED BY <1>1, <1>2 DEF AttachInv

(* The threads that release go on, if only others move. *)
LEMMA ReleasesGoOn ==
  ASSUME NEW t \in Thread, pc[t] \notin {"lookup1", "lookup2", "release"},
         \A u \in Thread \ {t} : pc'[u] = pc[u] /\ port'[u] = port[u]
  PROVE  \A p \in Port : Releases(p) => Releases(p)'
BY DEF Releases

(* AttachInv is kept by every step. *)
LEMMA AttachNext == IndInv /\ AttachInv /\ [Next]_vars => AttachInv'
<1> SUFFICES ASSUME TypeOK, SoleOwner, ThreadInv, PortInv, ScanInv, AttachInv, [Next]_vars
             PROVE  AttachInv'
  BY DEF IndInv
<1> USE NoneAssumption DEF Goto, idVars, scanVars, portVars, worldVars, threadVars, vars
<1>1. ASSUME NEW t \in Thread,
             \/ \E id \in Id : GetPortIdentifier(t, id)
             \/ DropIdentifier(t)
      PROVE  AttachInv'
  <2>1. /\ UNCHANGED <<listed, oldPorts, scanner, commport, fd, pc, port, own>>
        /\ \A u \in Thread : ref'[u] \in {ref[u], None} \union listed
    BY <1>1 DEF GetPortIdentifier, DropIdentifier, TypeOK
  <2>2. \A id \in Id : id \in Reachable' => id \in Reachable
    BY <2>1 DEF Reachable, Id
  <2> QED BY <2>1, <2>2, NothingAttached DEF AttachInv, Releases
<1>2. ASSUME NEW t \in Thread,
             GetPortIdentifiers(t) \/ \E n \in Name : GetPortIdentifierRescans(t, n)
      PROVE  AttachInv'
  <2>1. PICK n \in Name \union {None} : StartScan(t, n) /\ pc[t] = "idle"
    BY <1>2 DEF GetPortIdentifiers, GetPortIdentifierRescans
  <2>2. /\ oldPorts' = listed /\ listed' = {} /\ scanner' = t
        /\ UNCHANGED <<commport, fd, port, own>>
        /\ pc' = [pc EXCEPT ![t] = "scan"]
        /\ \A u \in Thread : ref'[u] \in {ref[u], None}
    BY <2>1 DEF StartScan, TypeOK
  <2>3. \A id \in Id : id \in Reachable' => id \in Reachable
    BY <2>2 DEF Reachable, Id
  <2>4. \A p \in Port : Releases(p) => Releases(p)'
    BY <2>1, <2>2, ReleasesGoOn DEF TypeOK
  <2> QED BY <2>2, <2>3, <2>4, NothingAttached DEF TypeOK
<1>3. CASE \/ \E n \in Name : TestReadLock(n) \/ PlugOrUnplug(n) \/ OtherProcess(n)
           \/ TestReadUnlock \/ TestReadFails
           \/ \E p \in Port : DropPort(p)
           \/ UNCHANGED vars
  <2>1. UNCHANGED <<listed, oldPorts, scanner, commport, fd, pc, port, ref, own>>
    BY <1>3 DEF TestReadLock, TestReadUnlock, TestReadFails, PlugOrUnplug, OtherProcess, DropPort
  <2> QED BY <2>1, NothingAttached DEF Reachable, AttachInv, Releases
<1>4. ASSUME NEW t \in Thread,
             \/ Open(t) \/ Contend(t) \/ Expire(t) \/ Expired(t)
             \/ GetCommPortFails(t) \/ OpenThrows(t)
      PROVE  AttachInv'
  <2>1. /\ UNCHANGED <<listed, oldPorts, scanner, commport, fd, port, ref, own>>
        /\ pc[t] \in Waiting \union Claimed \union {"idle"}
        /\ pc'[t] \in Waiting \union {"claimed", "failed", "idle"}
        /\ \A u \in Thread \ {t} : pc'[u] = pc[u]
    BY <1>4 DEF Open, Contend, Expire, Expired, Take, GetCommPortFails, OpenThrows, Waiting,
         Claimed, TypeOK
  <2>2. \A p \in Port : Releases(p) => Releases(p)'
    BY <2>1, ReleasesGoOn DEF Waiting, Claimed
  <2>3. Reachable' = Reachable
    BY <2>1 DEF Reachable
  <2>4. \A u \in Thread : pc'[u] = "opened" => pc[u] = "opened"
    BY <2>1 DEF Waiting
  <2> QED BY <2>1, <2>2, <2>3, <2>4, NothingAttached DEF AttachInv
<1>5. ASSUME NEW t \in Thread, NEW p \in Port, GetCommPort(t, p)
      PROVE  AttachInv'
  <2>1. /\ UNCHANGED <<listed, oldPorts, scanner, commport, ref, own>>
        /\ pc[t] = "claimed" /\ UnusedPort(p)
        /\ pc'[t] \in {"opened", "failed"} /\ port'[t] = p
        /\ \A u \in Thread \ {t} : pc'[u] = pc[u] /\ port'[u] = port[u]
        /\ fd'[p] \in {"open", "bad"} /\ \A q \in Port \ {p} : fd'[q] = fd[q]
    BY <1>5 DEF GetCommPort, NativeOpen, TypeOK
  <2>2. Reachable' = Reachable
    BY <2>1 DEF Reachable
  <2>3. \A id \in Id : Attached(id) => commport[id] # p
    BY <2>1 DEF Attached, UnusedPort
  <2>4. \A q \in Port : Releases(q) => Releases(q)'
    BY <2>1, ReleasesGoOn
  <2>5. \A u \in Thread \ {t} : port[u] # p
    BY <2>1 DEF UnusedPort
  <2>6. \A id \in listed \union oldPorts : id \in Id /\ (commport[id] # None => Attached(id))
    BY DEF Attached, Reachable, TypeOK
  <2>7. ClosedIsReleased'
    BY <2>1, <2>3, <2>4, <2>6 DEF ClosedIsReleased, AttachInv, TypeOK
  <2>8. \A u \in Thread : pc'[u] = "opened" =>
          /\ fd'[port'[u]] # "closed"
          /\ \A id \in Id : Attached(id) => commport[id] # port'[u]
    BY <2>1, <2>3, <2>5 DEF AttachInv, ThreadInv
  <2> QED BY <2>1, <2>2, <2>7, <2>8 DEF AttachInv, Attached
<1>6. ASSUME NEW t \in Thread, OpenReturns(t)
      PROVE  AttachInv'
  <2>1. /\ pc[t] = "opened" /\ port[t] \in Port /\ ref[t] \in Id
        /\ UNCHANGED <<listed, oldPorts, scanner, fd, ref, own>>
        /\ commport' = [commport EXCEPT ![ref[t]] = port[t]]
        /\ pc'[t] = "idle" /\ \A u \in Thread \ {t} : pc'[u] = pc[u] /\ port'[u] = port[u]
    BY <1>6 DEF OpenReturns, ThreadInv, Claimed, TypeOK
  <2>2. Reachable' = Reachable
    BY <2>1 DEF Reachable
  <2>3. fd[port[t]] # "closed" /\ \A id \in Id : Attached(id) => commport[id] # port[t]
    BY <2>1 DEF AttachInv
  <2>4. \A p \in Port : Releases(p) => Releases(p)'
    BY <2>1, ReleasesGoOn
  <2>5. \A u \in Thread \ {t} : pc[u] = "opened" => port[u] # port[t]
    BY <2>1 DEF PortInv
  <2>6. ClosedIsReleased'
    BY <2>1, <2>3, <2>4 DEF ClosedIsReleased, AttachInv, TypeOK
  <2>7. \A id \in Id : Attached(id)' => id = ref[t] \/ (Attached(id) /\ commport'[id] = commport[id])
    BY <2>1, <2>2 DEF Attached, TypeOK
  <2>8. commport'[ref[t]] = port[t]
    BY <2>1 DEF TypeOK
  <2>9. \A id, other \in Id :
          Attached(id)' /\ Attached(other)' /\ commport'[id] = commport'[other] => id = other
    BY <2>3, <2>7, <2>8 DEF AttachInv
  <2>10. \A u \in Thread : pc'[u] = "opened" =>
           /\ fd'[port'[u]] # "closed"
           /\ \A id \in Id : Attached(id)' => commport'[id] # port'[u]
    BY <2>1, <2>5, <2>7, <2>8 DEF AttachInv
  <2> QED BY <2>1, <2>6, <2>9, <2>10 DEF AttachInv
<1>7. ASSUME NEW t \in Thread, NEW p \in Port, Close(t, p)
      PROVE  AttachInv'
  <2>1. /\ UNCHANGED <<listed, oldPorts, scanner, commport, fd, ref, own>>
        /\ pc[t] \in {"idle", "requested"}
        /\ pc'[t] \in {"idle", "requested", "nativeClose"}
        /\ \A u \in Thread \ {t} : pc'[u] = pc[u] /\ port'[u] = port[u]
    BY <1>7 DEF Close, TypeOK
  <2>2. \A q \in Port : Releases(q) => Releases(q)'
    BY <2>1, ReleasesGoOn
  <2> QED BY <2>1, <2>2, NothingAttached DEF Reachable, AttachInv
<1>8. ASSUME NEW t \in Thread, NativeClose(t)
      PROVE  AttachInv'
  <2>1. /\ UNCHANGED <<listed, oldPorts, scanner, commport, ref, own, port>>
        /\ pc[t] = "nativeClose" /\ port[t] \in Port /\ pc'[t] = "lookup1"
        /\ fd' = [fd EXCEPT ![port[t]] = "closed"]
        /\ \A u \in Thread \ {t} : pc'[u] = pc[u]
    BY <1>8 DEF NativeClose, ThreadInv, Closing, TypeOK
  <2>2. \A p \in Port : Releases(p) => Releases(p)'
    BY <2>1, ReleasesGoOn
  <2>3. Releases(port[t])'
    BY <2>1 DEF Releases
  <2>4. ClosedIsReleased'
    BY <2>1, <2>2, <2>3 DEF ClosedIsReleased, AttachInv, TypeOK
  <2>5. \A u \in Thread \ {t} : pc[u] = "opened" => port[u] # port[t]
    BY <2>1, NoneAssumption DEF PortInv
  <2>6. \A u \in Thread : pc'[u] = "opened" =>
           /\ fd'[port'[u]] # "closed"
           /\ \A id \in Id : Attached(id) => commport[id] # port'[u]
    BY <2>1, <2>5 DEF AttachInv, ThreadInv, TypeOK
  <2> QED BY <2>1, <2>4, <2>6 DEF AttachInv, Attached, Reachable
<1>9. ASSUME NEW t \in Thread, LookupOwnIdentifier(t)
      PROVE  AttachInv'
  <2>1. /\ UNCHANGED <<listed, oldPorts, scanner, commport, fd, ref, port>>
        /\ pc[t] \in {"lookup1", "lookup2"} /\ scanner = None
        /\ pc'[t] \in {"finish", "lookup2", "release"}
        /\ pc'[t] = "finish" => IdentifierOf(port[t]) = {}
        /\ own'[t] \in {own[t]} \union listed
        /\ \A u \in Thread \ {t} : pc'[u] = pc[u] /\ own'[u] = own[u]
    BY <1>9 DEF LookupOwnIdentifier, IdentifierOf, TypeOK
  <2>2. \A id \in Id : id \in Reachable' => id \in Reachable
    BY <2>1 DEF Reachable
  <2>3. \A id \in Id : Attached(id)' => Attached(id)
    BY <2>1, <2>2 DEF Attached
  <2>4. ClosedIsReleased'
    <3>1. CASE pc'[t] # "finish"
      BY <2>1, <3>1 DEF ClosedIsReleased, AttachInv, Releases
    <3>2. CASE pc'[t] = "finish"
      <4>1. oldPorts = {} /\ \A id \in listed : commport[id] # port[t]
        BY <2>1, <3>2 DEF AttachInv, IdentifierOf
      <4>2. \A p \in Port : p # port[t] /\ Releases(p) => Releases(p)'
        BY <2>1 DEF Releases
      <4> QED BY <2>1, <4>1, <4>2 DEF ClosedIsReleased, AttachInv, TypeOK
    <3> QED BY <3>1, <3>2
  <2> QED BY <2>1, <2>3, <2>4 DEF AttachInv
<1>10. ASSUME NEW t \in Thread, InternalClosePort(t)
       PROVE  AttachInv'
  <2>1. /\ UNCHANGED <<listed, oldPorts, scanner, fd, ref, port>>
        /\ pc[t] = "release" /\ own[t] \in Id /\ commport[own[t]] = port[t] /\ port[t] \in Port
        /\ commport' = [commport EXCEPT ![own[t]] = None]
        /\ own' = [own EXCEPT ![t] = None]
        /\ \A u \in Thread \ {t} : pc'[u] \in {pc[u], "woken"} /\ (pc'[u] # pc[u] => pc[u] = "waiting")
        /\ pc'[t] = "finish"
    BY <1>10 DEF InternalClosePort, ThreadInv, Closing, TypeOK
  <2>2. \A id \in Id : id \in Reachable' => id \in Reachable
    BY <2>1 DEF Reachable, Id, TypeOK
  <2>3. \A id \in Id : Attached(id)' => Attached(id) /\ id # own[t] /\ commport'[id] = commport[id]
    BY <2>1, <2>2 DEF Attached, TypeOK
  <2>4. own[t] \in Reachable
    BY DEF Reachable
  <2>5. \A id \in Id : Attached(id) /\ commport[id] = port[t] => id = own[t]
    BY <2>1, <2>4 DEF AttachInv, Attached
  <2>6. \A p \in Port : p # port[t] /\ Releases(p) => Releases(p)'
    BY <2>1 DEF Releases
  <2>7. \A id \in listed \union oldPorts : id \in Id /\ id \in Reachable /\ id \in Reachable'
    BY <2>1 DEF Reachable, TypeOK
  <2>8. ClosedIsReleased'
    BY <2>1, <2>3, <2>5, <2>6, <2>7 DEF ClosedIsReleased, AttachInv, Attached, TypeOK
  <2>9. \A u \in Thread : pc'[u] = "opened" => pc[u] = "opened"
    BY <2>1
  <2> QED BY <2>1, <2>3, <2>8, <2>9 DEF AttachInv
<1>11. ASSUME NEW t \in Thread, CloseReturns(t)
       PROVE  AttachInv'
  <2>1. /\ UNCHANGED <<listed, oldPorts, scanner, commport, fd, ref, own>>
        /\ pc[t] = "finish" /\ pc'[t] \in {"idle", "woken"}
        /\ \A u \in Thread \ {t} : pc'[u] = pc[u] /\ port'[u] = port[u]
    BY <1>11 DEF CloseReturns, TypeOK
  <2>2. \A q \in Port : Releases(q) => Releases(q)'
    BY <2>1, ReleasesGoOn
  <2> QED BY <2>1, <2>2, NothingAttached DEF Reachable, AttachInv
<1>12. CASE EndScan
  <2>1. scanner \in Thread /\ pc[scanner] = "scan"
    BY <1>12 DEF EndScan, ScanInv, TypeOK
  <2>2. PICK S \in SUBSET Id :
          /\ S \intersect Reachable = {}
          /\ listed' = Restored \union S
          /\ commport' = [id \in Id |-> IF id \in S THEN None ELSE commport[id]]
    BY <1>12 DEF EndScan, Created
  <2>3. /\ UNCHANGED <<fd, port, own>> /\ oldPorts' = {}
        /\ pc' = [pc EXCEPT ![scanner] = "idle"]
        /\ \A u \in Thread : ref'[u] \in {ref[u], None} \union listed'
    <3>1. ref'[scanner] \in {None} \union listed'
      BY <1>12, <2>1 DEF EndScan, TypeOK
    <3> QED BY <1>12, <2>1, <3>1 DEF EndScan, TypeOK
  <2>4. Restored \subseteq oldPorts
    BY DEF Restored
  <2>5. \A id \in Id : id \in Reachable' => id \in Reachable \union S
    BY <2>2, <2>3, <2>4 DEF Reachable, Id
  <2>6. \A id \in Id : Attached(id)' => Attached(id) /\ commport'[id] = commport[id]
    BY <2>2, <2>5 DEF Attached
  <2>7. \A p \in Port : Releases(p) => Releases(p)'
    BY <2>1, <2>3, ReleasesGoOn DEF TypeOK
  <2>8. ClosedIsReleased'
    BY <2>2, <2>3, <2>4, <2>7 DEF ClosedIsReleased, AttachInv, TypeOK
  <2>9. \A u \in Thread : pc'[u] = "opened" => pc[u] = "opened"
    BY <2>1, <2>3 DEF TypeOK
  <2> QED BY <2>3, <2>6, <2>8, <2>9 DEF AttachInv
<1> QED
  BY <1>1, <1>2, <1>3, <1>4, <1>5, <1>6, <1>7, <1>8, <1>9, <1>10, <1>11, <1>12
  DEF Next, CallStep, ClientCall, ScanStep, World

(* The steps that release nothing and detach nothing keep the reasons. *)
LEMMA ReasonsStay ==
  ASSUME OwnedForAReason, UNCHANGED commport,
         \A id \in Id : Available[id] => Available'[id],
         \A t \in Thread : pc[t] \in Claimed => pc'[t] \in Claimed /\ ref'[t] = ref[t]
  PROVE  OwnedForAReason'
BY DEF OwnedForAReason

(* OwnedForAReason is kept by every step. *)
LEMMA OwnedNext ==
  IndInv /\ OwnedForAReason /\ [Next]_vars => OwnedForAReason'
<1> SUFFICES ASSUME TypeOK, SoleOwner, ThreadInv, ScanInv, OwnedForAReason, [Next]_vars
             PROVE  OwnedForAReason'
  BY DEF IndInv
<1> USE NoneAssumption DEF Goto, idVars, scanVars, portVars, worldVars, threadVars, vars
<1>1. ASSUME NEW t \in Thread, ref[t] \in Id, Take(t), UNCHANGED <<commport, ref>>
      PROVE  OwnedForAReason'
  <2>1. /\ \A id \in Id \ {ref[t]} : Available'[id] = Available[id]
        /\ pc'[t] = "claimed" /\ \A u \in Thread \ {t} : pc'[u] = pc[u]
    BY <1>1 DEF Take, TypeOK
  <2> QED BY <1>1, <2>1 DEF OwnedForAReason, Claimed
<1>2. ASSUME NEW t \in Thread, Open(t) \/ Contend(t) \/ Expired(t)
      PROVE  OwnedForAReason'
  <2>1. ref[t] \in Id /\ UNCHANGED <<commport, ref>> /\ pc[t] \notin Claimed
    BY <1>2 DEF Open, Contend, Expired, ThreadInv, Waiting, Claimed, TypeOK
  <2>2. CASE Take(t)
    BY <1>1, <2>1, <2>2
  <2>3. CASE ~Take(t)
    <3>1. Available' = Available /\ \A u \in Thread \ {t} : pc'[u] = pc[u]
      BY <1>2, <2>3 DEF Open, Contend, Expired, TypeOK
    <3> QED BY <2>1, <3>1, ReasonsStay
  <2> QED BY <2>2, <2>3
<1>3. ASSUME NEW t \in Thread,
             \/ \E id \in Id : GetPortIdentifier(t, id)
             \/ DropIdentifier(t) \/ Expire(t) \/ NativeClose(t) \/ LookupOwnIdentifier(t)
             \/ GetPortIdentifiers(t) \/ \E n \in Name : GetPortIdentifierRescans(t, n)
      PROVE  OwnedForAReason'
  <2>1. /\ UNCHANGED <<Available, commport>> /\ pc[t] \notin Claimed
        /\ \A u \in Thread \ {t} : pc'[u] = pc[u] /\ ref'[u] = ref[u]
    BY <1>3 DEF GetPortIdentifier, DropIdentifier, Expire, NativeClose, LookupOwnIdentifier,
         GetPortIdentifiers, GetPortIdentifierRescans, StartScan, Claimed, TypeOK
  <2> QED BY <2>1, ReasonsStay
<1>4. ASSUME NEW t \in Thread, CloseReturns(t) \/ \E p \in Port : Close(t, p)
      PROVE  OwnedForAReason'
  <2>1. /\ UNCHANGED <<Available, commport, ref>> /\ pc[t] \notin Claimed
        /\ \A u \in Thread \ {t} : pc'[u] = pc[u]
    BY <1>4 DEF CloseReturns, Close, Claimed, TypeOK
  <2> QED BY <2>1, ReasonsStay
<1>5. ASSUME NEW t \in Thread, GetCommPortFails(t) \/ \E p \in Port : GetCommPort(t, p)
      PROVE  OwnedForAReason'
  <2>1. /\ UNCHANGED <<Available, commport, ref>> /\ pc'[t] \in {"opened", "failed"}
        /\ \A u \in Thread \ {t} : pc'[u] = pc[u]
    BY <1>5 DEF GetCommPortFails, GetCommPort, TypeOK
  <2> QED BY <2>1, ReasonsStay DEF Claimed
<1>6. ASSUME NEW t \in Thread, OpenReturns(t)
      PROVE  OwnedForAReason'
  <2>1. /\ ref[t] \in Id /\ port[t] # None /\ UNCHANGED <<Available, ref>>
        /\ commport' = [commport EXCEPT ![ref[t]] = port[t]]
        /\ \A u \in Thread \ {t} : pc'[u] = pc[u]
    BY <1>6 DEF OpenReturns, ThreadInv, Claimed, TypeOK
  <2>2. commport'[ref[t]] # None /\ \A id \in Id \ {ref[t]} : commport'[id] = commport[id]
    BY <2>1 DEF TypeOK
  <2> QED BY <2>1, <2>2 DEF OwnedForAReason
<1>7. ASSUME NEW t \in Thread, OpenThrows(t)
      PROVE  OwnedForAReason'
  <2>1. /\ ref[t] \in Id /\ UNCHANGED <<commport, ref>>
        /\ Available' = [Available EXCEPT ![ref[t]] = TRUE]
        /\ \A u \in Thread \ {t} : pc'[u] = pc[u]
    BY <1>7 DEF OpenThrows, ThreadInv, Claimed, TypeOK
  <2>2. Available'[ref[t]] /\ \A id \in Id \ {ref[t]} : Available'[id] = Available[id]
    BY <2>1 DEF TypeOK
  <2> QED BY <2>1, <2>2 DEF OwnedForAReason
<1>8. ASSUME NEW t \in Thread, InternalClosePort(t)
      PROVE  OwnedForAReason'
  <2>1. /\ own[t] \in Id /\ UNCHANGED ref
        /\ Available' = [Available EXCEPT ![own[t]] = TRUE]
        /\ commport' = [commport EXCEPT ![own[t]] = None]
        /\ \A u \in Thread : pc[u] \in Claimed => pc'[u] = pc[u]
    BY <1>8 DEF InternalClosePort, ThreadInv, Claimed, TypeOK
  <2>2. /\ Available'[own[t]]
        /\ \A id \in Id \ {own[t]} : Available'[id] = Available[id] /\ commport'[id] = commport[id]
    BY <2>1 DEF TypeOK
  <2> QED BY <2>1, <2>2 DEF OwnedForAReason
<1>9. CASE EndScan
  <2>1. scanner \in Thread /\ pc[scanner] = "scan"
    BY <1>9 DEF EndScan, ScanInv, TypeOK
  <2>2. PICK S \in SUBSET Id :
          /\ Available' = [id \in Id |-> id \in S \/ Available[id]]
          /\ commport' = [id \in Id |-> IF id \in S THEN None ELSE commport[id]]
    BY <1>9 DEF EndScan
  <2>3. \A u \in Thread : pc[u] \in Claimed => pc'[u] = pc[u] /\ ref'[u] = ref[u]
    BY <1>9, <2>1 DEF EndScan, Claimed, TypeOK
  <2> QED BY <2>2, <2>3 DEF OwnedForAReason
<1>10. CASE \/ \E n \in Name : TestReadLock(n) \/ PlugOrUnplug(n) \/ OtherProcess(n)
            \/ TestReadUnlock \/ TestReadFails
            \/ \E p \in Port : DropPort(p)
            \/ UNCHANGED vars
  <2>1. UNCHANGED <<Available, commport, pc, ref>>
    BY <1>10 DEF TestReadLock, TestReadUnlock, TestReadFails, PlugOrUnplug, OtherProcess, DropPort
  <2> QED BY <2>1, ReasonsStay
<1> QED
  BY <1>2, <1>3, <1>4, <1>5, <1>6, <1>7, <1>8, <1>9, <1>10
  DEF Next, CallStep, ClientCall, ScanStep, World

(***************************************************************************)
(* An identifier that is listed, or that a scan may list again, is never   *)
(* left attached to a closed port, unless the close() of RXTXPort.java     *)
(* that closed it is still on its way to release it.  For these            *)
(* identifiers what CloseReleases promises cannot be missed: it can only   *)
(* be late.                                                                *)
(***************************************************************************)
THEOREM ClosedPortsAreReleased == Spec => []ClosedIsReleased
<1>1. AttachInv => ClosedIsReleased
  BY DEF AttachInv
<1> QED BY <1>1, AttachInit, AttachNext, Invariance, PTL DEF Spec

(***************************************************************************)
(* An identifier that is not available is attached to a port, or a thread  *)
(* is inside open() as its owner: the finally block of                     *)
(* CommPortIdentifier.open never leaves one owned for no reason, so that   *)
(* whoever waits for it waits for a thread or a port.                      *)
(***************************************************************************)
THEOREM OwnershipHasAReason == Spec => []OwnedForAReason
<1>1. Init => OwnedForAReason
  BY DEF Init, OwnedForAReason
<1> QED BY <1>1, OwnedNext, Invariance, PTL DEF Spec

=============================================================================
