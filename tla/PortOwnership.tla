--------------------------- MODULE PortOwnership ---------------------------
(***************************************************************************)
(* Ownership of serial ports inside one process: the identifiers of        *)
(* CommPortIdentifier.java, the rescan by RXTXCommDriver.java, the open    *)
(* and close of RXTXPort.java and the lock file that SerialImp.c takes for *)
(* every device it opens or probes.                                        *)
(*                                                                         *)
(* An identifier object is a pair <<name, generation>>: a rescan builds a  *)
(* new generation for a name it does not keep.  A generation that nothing  *)
(* refers to any more is garbage and may be built again.                   *)
(***************************************************************************)
EXTENDS Naturals, FiniteSets

CONSTANTS
  Thread,       \* client threads of this process
  Name,         \* device names
  Parallel,     \* the names of type PORT_PARALLEL
  Prefixed,     \* the names with a prefix that a scan looks for
  Properties,   \* what the properties may say: per type they name, the names of ports
  Pluggable,    \* the devices that may be unplugged and plugged in again
  Contested,    \* the devices another process may lock
  Enumerator,   \* the threads that call getPortIdentifiers()
  Gen,          \* generations of identifier objects per name
  Port,         \* RXTXPort objects
  None

ASSUME NoneAssumption == None \notin Thread \union Port \union (Name \X Gen)
ASSUME NameAssumption ==
  /\ Parallel \subseteq Name /\ Pluggable \subseteq Name /\ Contested \subseteq Name
  /\ Enumerator \subseteq Thread
  /\ Prefixed \subseteq Name
  /\ \A val \in Properties : \A type \in DOMAIN val : val[type] \subseteq Name
  /\ Port \intersect {"free", "probe", "leaked", "other"} = {}

Id == Name \X Gen
NameOf(id) == id[1]

VARIABLES
  \* CommPortIdentifier objects
  listed,     \* the chain that starts at CommPortIndex
  Available,  \* Available of each identifier
  Owner,      \* Owner of each identifier
  commport,   \* commport of each identifier
  \* a scan, by the thread that holds CommPortIdentifier.Sync
  scanner, oldPorts, todo, probing, found,
  \* RXTXPort objects
  fd,         \* "closed" for 0, "bad" for -1, "open" for a descriptor
  name,       \* the device each port was made for
  closeLock,
  returned,   \* the ports open() has returned to a client
  \* the outside world
  lock,       \* who holds the lock file of each device
  present,    \* the devices that can be opened and configured
  \* client threads
  pc,
  ref,        \* the identifier the client holds
  port,       \* the port being opened or closed
  want,       \* the name a rescan is made for
  own,        \* the identifier close() has looked up
  resume      \* where a close() returns to

idVars     == <<listed, Available, Owner, commport>>
scanVars   == <<scanner, oldPorts, todo, probing, found>>
portVars   == <<fd, name, closeLock, returned>>
worldVars  == <<lock, present>>
threadVars == <<pc, ref, port, want, own, resume>>
vars == <<idVars, scanVars, portVars, worldVars, threadVars>>

Waiting == {"requested", "woken", "waiting", "expired"}  \* inside open(), not yet owner
Claimed == {"claimed", "opened", "failed"}      \* inside open(), owner of ref
Closing == {"nativeClose", "lookup1", "lookup2", "release", "finish"}
PC == {"idle", "scan"} \union Waiting \union Claimed \union Closing

TypeOK ==
  /\ listed \subseteq Id
  /\ Available \in [Id -> BOOLEAN]
  /\ Owner \in [Id -> Thread \union {None}]
  /\ commport \in [Id -> Port \union {None}]
  /\ scanner \in Thread \union {None}
  /\ oldPorts \subseteq Id
  /\ todo \subseteq Name /\ found \subseteq Name
  /\ probing \in Name \union {None}
  /\ fd \in [Port -> {"closed", "bad", "open"}]
  /\ name \in [Port -> Name \union {None}]
  /\ closeLock \in [Port -> BOOLEAN]
  /\ returned \subseteq Port
  /\ lock \in [Name -> {"free", "probe", "leaked", "other"} \union Port]
  /\ present \subseteq Name
  /\ pc \in [Thread -> PC]
  /\ ref \in [Thread -> Id \union {None}]
  /\ port \in [Thread -> Port \union {None}]
  /\ want \in [Thread -> Name \union {None}]
  /\ own \in [Thread -> Id \union {None}]
  /\ resume \in [Thread -> {"idle", "woken"}]

-----------------------------------------------------------------------------
(* RXTXCommDriver: the names that a scan probes *)

(* What is in the device directory, and what the table of prefixes admits *)
CandidateDeviceNames == Name \intersect present
SerialPrefixes == Prefixed \ Parallel
ParallelPrefixes == Prefixed \intersect Parallel
CandidatePortPrefixes(type) == IF type = "serial" THEN SerialPrefixes ELSE ParallelPrefixes

registerValidPorts(names, prefixed) == names \intersect prefixed
registerScannedPorts(type) ==
  registerValidPorts(CandidateDeviceNames, CandidatePortPrefixes(type))

(* No port is known to Linux without a look at its devices. *)
registerKnownPorts == FALSE

(* The properties come first: if they name ports, it is those and no others, *)
(* whether they are there or not.                                            *)
registerSpecifiedPorts(type, val) == type \in DOMAIN val
addSpecifiedPorts(type, val) == val[type]

initialize(val) ==
  UNION {IF registerSpecifiedPorts(type, val) THEN addSpecifiedPorts(type, val)
         ELSE IF registerKnownPorts THEN {} ELSE registerScannedPorts(type)
           : type \in {"serial", "parallel"}}

-----------------------------------------------------------------------------
(***************************************************************************)
(* The static initialiser has scanned once: one identifier per device.     *)
(***************************************************************************)
Init ==
  /\ present \in {S \in SUBSET Name : Name \ Pluggable \subseteq S}
  /\ \E val \in Properties, gen \in [Name -> Gen] :
       listed = {<<n, gen[n]>> : n \in present \intersect initialize(val)}
  /\ Available = [id \in Id |-> TRUE]
  /\ Owner = [id \in Id |-> None]
  /\ commport = [id \in Id |-> None]
  /\ scanner = None /\ oldPorts = {} /\ todo = {} /\ probing = None /\ found = {}
  /\ fd = [p \in Port |-> "closed"]
  /\ name = [p \in Port |-> None]
  /\ closeLock = [p \in Port |-> FALSE]
  /\ returned = {}
  /\ lock = [n \in Name |-> "free"]
  /\ pc = [t \in Thread |-> "idle"]
  /\ ref = [t \in Thread |-> None]
  /\ port = [t \in Thread |-> None]
  /\ want = [t \in Thread |-> None]
  /\ own = [t \in Thread |-> None]
  /\ resume = [t \in Thread |-> "idle"]

Goto(t, label) == pc' = [pc EXCEPT ![t] = label]

(***************************************************************************)
(* fhs_unlock removes the lock file that holds the pid of this process.    *)
(***************************************************************************)
Unlock(n) == lock' = [lock EXCEPT ![n] = IF @ = "other" THEN @ ELSE "free"]

(***************************************************************************)
(* Garbage: what neither a list, nor a thread refers to.                   *)
(***************************************************************************)
Reachable == listed \union oldPorts \union {ref[t] : t \in Thread}
                    \union {own[t] : t \in Thread}
UnusedPort(p) ==
  /\ p \notin returned
  /\ \A t \in Thread : port[t] # p
  /\ \A id \in Id : commport[id] = p => id \notin Reachable

-----------------------------------------------------------------------------
(* Looking ports up and rescanning, under Sync *)

StartScan(t, n) ==
  /\ scanner' = t
  /\ oldPorts' = listed
  /\ listed' = {}
  /\ \E val \in Properties : todo' = initialize(val)
  /\ UNCHANGED <<probing, found>>
  /\ want' = [want EXCEPT ![t] = n]
  /\ ref' = [ref EXCEPT ![t] = None]
  /\ Goto(t, "scan")
  /\ UNCHANGED <<Available, Owner, commport, port, own, resume, portVars, worldVars>>

(* getPortIdentifier(String): found in the list ... *)
GetPortIdentifier(t, id) ==
  /\ pc[t] = "idle" /\ scanner = None
  /\ id \in listed
  /\ ref' = [ref EXCEPT ![t] = id]
  /\ UNCHANGED <<idVars, scanVars, portVars, worldVars, pc, port, want, own, resume>>

(* ... or after a rescan for a device that has been plugged in since *)
GetPortIdentifierRescans(t, n) ==
  /\ pc[t] = "idle" /\ scanner = None
  /\ \A id \in listed : NameOf(id) # n
  /\ StartScan(t, n)

GetPortIdentifiers(t) ==
  /\ t \in Enumerator
  /\ pc[t] = "idle" /\ scanner = None
  /\ StartScan(t, None)

(***************************************************************************)
(* testRead: without the lock file the name is skipped; with it, the       *)
(* device is opened and configured.                                        *)
(***************************************************************************)
TestReadLock(n) ==
  /\ scanner # None /\ probing = None /\ n \in todo
  /\ todo' = todo \ {n}
  /\ IF lock[n] = "free"
       THEN /\ lock' = [lock EXCEPT ![n] = "probe"]
            /\ probing' = n
       ELSE UNCHANGED <<lock, probing>>
  /\ UNCHANGED <<idVars, scanner, oldPorts, found, portVars, present, threadVars>>

(* The settings can be read and written, and a byte read or none is there. *)
TestReadUnlock ==
  /\ probing # None
  /\ Unlock(probing)
  /\ found' = IF probing \in present THEN found \union {probing} ELSE found
  /\ probing' = None
  /\ UNCHANGED <<idVars, scanner, oldPorts, todo, portVars, present, threadVars>>

(* One of these calls fails, as on a device that is no terminal. *)
TestReadFails ==
  /\ probing # None /\ probing \notin Parallel
  /\ Unlock(probing)
  /\ probing' = None
  /\ UNCHANGED <<idVars, scanner, oldPorts, todo, found, portVars, present, threadVars>>

(***************************************************************************)
(* The end of getPortIdentifiers: every name found keeps its old           *)
(* identifier where there is one, and gets a new identifier otherwise.     *)
(* The names are those of a directory, or of a property that names no      *)
(* device twice: one that does is not modelled, and neither is a client    *)
(* that calls addPortName.                                                 *)
(***************************************************************************)
Restored == {id \in oldPorts : NameOf(id) \in found}

Created(S) ==
  /\ S \subseteq Id \ (Reachable \union {None})
  /\ \A n \in found : \E id \in S \union Restored : NameOf(id) = n
  /\ \A id \in S : NameOf(id) \in found
  /\ \A id \in S, other \in S \union Restored : NameOf(id) = NameOf(other) => id = other

EndScan ==
  /\ scanner # None /\ probing = None /\ todo = {}
  /\ \E S \in SUBSET Id :
       /\ Created(S)
       /\ listed' = Restored \union S
       /\ Available' = [id \in Id |-> id \in S \/ Available[id]]
       /\ Owner' = [id \in Id |-> IF id \in S THEN None ELSE Owner[id]]
       /\ commport' = [id \in Id |-> IF id \in S THEN None ELSE commport[id]]
  /\ ref' = [ref EXCEPT ![scanner] =
               IF \E id \in listed' : NameOf(id) = want[scanner]
                 THEN CHOOSE id \in listed' : NameOf(id) = want[scanner]
                 ELSE None]
  /\ Goto(scanner, "idle")
  /\ want' = [want EXCEPT ![scanner] = None]
  /\ scanner' = None /\ oldPorts' = {} /\ found' = {}
  /\ UNCHANGED <<todo, probing, portVars, worldVars, port, own, resume>>

-----------------------------------------------------------------------------
(* CommPortIdentifier.open(owner, timeout) *)

Take(t) ==
  /\ Available' = [Available EXCEPT ![ref[t]] = FALSE]
  /\ Owner' = [Owner EXCEPT ![ref[t]] = t]
  /\ Goto(t, "claimed")

(* The bound on the RXTXPort objects of an instance *)
PortsLeft ==
  Cardinality({p \in Port : UnusedPort(p)})
    > Cardinality({t \in Thread : pc[t] \in Waiting \union {"claimed"}
                                  \/ resume[t] = "woken"})

Open(t) ==
  /\ pc[t] = "idle" /\ ref[t] # None
  /\ PortsLeft
  /\ IF Available[ref[t]]
       THEN Take(t)
       ELSE Goto(t, "requested") /\ UNCHANGED <<Available, Owner>>
  /\ UNCHANGED <<listed, commport, scanVars, portVars, worldVars, ref, port, want, own, resume>>

(* Mutant: the condition is not checked again after wait(). *)
ContendUnchecked(t) ==
  /\ \/ pc[t] = "woken" /\ Take(t)
     \/ pc[t] = "requested" /\ Available[ref[t]] /\ Take(t)
     \/ /\ pc[t] = "requested" /\ ~Available[ref[t]]
        /\ Goto(t, "waiting") /\ UNCHANGED <<Available, Owner>>
  /\ UNCHANGED <<listed, commport, scanVars, portVars, worldVars, ref, port, want, own, resume>>

(* The second synchronized block: the loop around wait() *)
Contend(t) ==
  /\ pc[t] \in {"requested", "woken"}
  /\ \/ Available[ref[t]] /\ Take(t)
     \/ /\ ~Available[ref[t]]
        /\ Goto(t, "waiting") /\ UNCHANGED <<Available, Owner>>
     \/ /\ ~Available[ref[t]]     \* the deadline has passed: PortInUseException
        /\ Goto(t, "idle") /\ UNCHANGED <<Available, Owner>>
  /\ UNCHANGED <<listed, commport, scanVars, portVars, worldVars, ref, port, want, own, resume>>

(* Mutant: the deadline is computed anew after every wait(). *)
ExpireRestarts(t) ==
  /\ pc[t] = "waiting"
  /\ Goto(t, "woken")
  /\ UNCHANGED <<idVars, scanVars, portVars, worldVars, ref, port, want, own, resume>>

(* wait() ends by its timeout or by an interrupt *)
Expire(t) ==
  /\ pc[t] = "waiting"
  /\ Goto(t, "expired")
  /\ UNCHANGED <<idVars, scanVars, portVars, worldVars, ref, port, want, own, resume>>

(* Mutant: a thread whose wait() timed out takes the port all the same. *)
ExpiredTakes(t) ==
  /\ pc[t] = "expired"
  /\ Take(t)
  /\ UNCHANGED <<listed, commport, scanVars, portVars, worldVars, ref, port, want, own, resume>>

Expired(t) ==
  /\ pc[t] = "expired"
  /\ IF Available[ref[t]]
       THEN Take(t)
       ELSE Goto(t, "idle") /\ UNCHANGED <<Available, Owner>>
  /\ UNCHANGED <<listed, commport, scanVars, portVars, worldVars, ref, port, want, own, resume>>

(***************************************************************************)
(* RXTXDriver.getCommPort: null for a parallel port, else a new RXTXPort.  *)
(* Its native open() takes the lock file and configures the device; when   *)
(* either fails it returns -1, and when the second fails the lock file     *)
(* stays behind.  The lock file is looked at and taken in one step: what   *)
(* becomes of two calls of fhs_lock that overlap for one device is the     *)
(* subject of FhsLock, where both may get it.                              *)
(***************************************************************************)
GetCommPortFails(t) ==
  /\ pc[t] = "claimed"
  /\ NameOf(ref[t]) \in Parallel
  /\ Goto(t, "failed")
  /\ UNCHANGED <<idVars, scanVars, portVars, worldVars, ref, port, want, own, resume>>

(* Mutant: the result of LOCK is ignored. *)
NativeOpenUnlocked(n, p) ==
  /\ lock' = IF lock[n] # "free" THEN lock ELSE [lock EXCEPT ![n] = p]
  /\ fd' = [fd EXCEPT ![p] = IF n \in present THEN "open" ELSE "bad"]
  /\ name' = [name EXCEPT ![p] = n]

NativeOpen(n, p) ==
  /\ lock' = IF lock[n] # "free" THEN lock
             ELSE [lock EXCEPT ![n] = IF n \in present THEN p ELSE "leaked"]
  /\ fd' = [fd EXCEPT ![p] = IF lock[n] = "free" /\ n \in present THEN "open" ELSE "bad"]
  /\ name' = [name EXCEPT ![p] = n]

(* The classes that FindClass knows: gnu.io is no package of this library. *)
KnownClasses ==
  {"java/io/IOException", "java/lang/OutOfMemoryError", "java/lang/ArrayIndexOutOfBoundsException"}
PORT_IN_USE_EXCEPTION == "gnu/io/PortInUseException"

(* Is an exception pending?  A class that is not known is none, and what *)
(* FindClass throws is cleared. *)
throw_java_exception(class) == class \in KnownClasses

GetCommPort(t, p) ==
  /\ pc[t] = "claimed"
  /\ NameOf(ref[t]) \notin Parallel
  /\ UnusedPort(p)
  /\ NativeOpen(NameOf(ref[t]), p)
  /\ closeLock' = [closeLock EXCEPT ![p] = FALSE]
  /\ port' = [port EXCEPT ![t] = p]
  /\ Goto(t, IF fd'[p] = "bad" /\ throw_java_exception(PORT_IN_USE_EXCEPTION)
             THEN "failed" ELSE "opened")
  /\ UNCHANGED <<idVars, scanVars, returned, present, ref, want, own, resume>>

(* commport is assigned, PORT_OWNED fired and the port returned *)
OpenReturns(t) ==
  /\ pc[t] = "opened"
  /\ commport' = [commport EXCEPT ![ref[t]] = port[t]]
  /\ returned' = returned \union {port[t]}
  /\ port' = [port EXCEPT ![t] = None]
  /\ Goto(t, "idle")
  /\ UNCHANGED <<listed, Available, Owner, scanVars, fd, name, closeLock, worldVars, ref, want, own, resume>>

(* The finally block of a failed open: nobody is notified *)
OpenThrows(t) ==
  /\ pc[t] = "failed"
  /\ Available' = [Available EXCEPT ![ref[t]] = TRUE]
  /\ Owner' = [Owner EXCEPT ![ref[t]] = None]
  /\ Goto(t, "idle")
  /\ UNCHANGED <<listed, commport, scanVars, portVars, worldVars, ref, port, want, own, resume>>

-----------------------------------------------------------------------------
(* RXTXPort.close() and CommPort.close() *)

(* Mutant: a listener that closes the port starts the request again. *)
CloseRestartsRequest(t, p) ==
  /\ pc[t] \in {"idle", "requested"}
  /\ p \in returned /\ ~closeLock[p]
  /\ closeLock' = [closeLock EXCEPT ![p] = TRUE]
  /\ IF fd[p] = "open"
       THEN /\ Goto(t, "nativeClose")
            /\ port' = [port EXCEPT ![t] = p]
            /\ resume' = [resume EXCEPT ![t] = pc[t]]
       ELSE UNCHANGED <<pc, port, resume>>
  /\ UNCHANGED <<idVars, scanVars, fd, name, returned, worldVars, ref, want, own>>

(***************************************************************************)
(* Any thread that was given the port may close it: a client, or, inside   *)
(* open(), the PORT_OWNERSHIP_REQUESTED listener of the present owner.     *)
(***************************************************************************)
Close(t, p) ==
  /\ pc[t] \in {"idle", "requested"}
  /\ p \in returned
  /\ ~closeLock[p]
  /\ closeLock' = [closeLock EXCEPT ![p] = TRUE]
  /\ IF fd[p] = "open"
       THEN /\ Goto(t, "nativeClose")
            /\ port' = [port EXCEPT ![t] = p]
            /\ resume' = [resume EXCEPT ![t] = IF pc[t] = "idle" THEN "idle" ELSE "woken"]
       ELSE UNCHANGED <<pc, port, resume>>
  /\ UNCHANGED <<idVars, scanVars, fd, name, returned, worldVars, ref, want, own>>

(* nativeClose: close the descriptor and remove the lock file *)
NativeClose(t) ==
  /\ pc[t] = "nativeClose"
  /\ Unlock(name[port[t]])
  /\ fd' = [fd EXCEPT ![port[t]] = "closed"]
  /\ Goto(t, "lookup1")
  /\ UNCHANGED <<idVars, scanVars, name, closeLock, returned, present, ref, port, want, own, resume>>

(***************************************************************************)
(* CommPort.close looks the identifier of this port up twice, each time    *)
(* under Sync; NoSuchPortException ends the release silently.              *)
(***************************************************************************)
IdentifierOf(p) == {id \in listed : commport[id] = p}

(* Mutant: the identifier is not found though it is listed. *)
LookupStopsShort(t) ==
  /\ pc[t] \in {"lookup1", "lookup2"} /\ scanner = None
  /\ Goto(t, "finish")
  /\ UNCHANGED <<idVars, scanVars, portVars, worldVars, ref, port, want, own, resume>>

(* Mutant: the list is searched without Sync. *)
LookupUnsynchronised(t) ==
  /\ pc[t] \in {"lookup1", "lookup2"}
  /\ \/ /\ IdentifierOf(port[t]) = {}
        /\ Goto(t, "finish") /\ UNCHANGED own
     \/ /\ pc[t] = "lookup1" /\ IdentifierOf(port[t]) # {}
        /\ Goto(t, "lookup2") /\ UNCHANGED own
     \/ /\ pc[t] = "lookup2"
        /\ \E id \in IdentifierOf(port[t]) : own' = [own EXCEPT ![t] = id]
        /\ Goto(t, "release")
  /\ UNCHANGED <<idVars, scanVars, portVars, worldVars, ref, port, want, resume>>

LookupOwnIdentifier(t) ==
  /\ pc[t] \in {"lookup1", "lookup2"} /\ scanner = None
  /\ \/ /\ IdentifierOf(port[t]) = {}
        /\ Goto(t, "finish") /\ UNCHANGED own
     \/ /\ pc[t] = "lookup1" /\ IdentifierOf(port[t]) # {}
        /\ Goto(t, "lookup2") /\ UNCHANGED own
     \/ /\ pc[t] = "lookup2"
        /\ \E id \in IdentifierOf(port[t]) : own' = [own EXCEPT ![t] = id]
        /\ Goto(t, "release")
  /\ UNCHANGED <<idVars, scanVars, portVars, worldVars, ref, port, want, resume>>

(* Mutant: waiters are not notified. *)
InternalClosePortSilent(t) ==
  /\ pc[t] = "release"
  /\ Available' = [Available EXCEPT ![own[t]] = TRUE]
  /\ Owner' = [Owner EXCEPT ![own[t]] = None]
  /\ commport' = [commport EXCEPT ![own[t]] = None]
  /\ Goto(t, "finish")
  /\ own' = [own EXCEPT ![t] = None]
  /\ UNCHANGED <<listed, scanVars, portVars, worldVars, ref, port, want, resume>>

(* internalClosePort of the identifier found: notifyAll wakes every waiter *)
InternalClosePort(t) ==
  /\ pc[t] = "release"
  /\ Available' = [Available EXCEPT ![own[t]] = TRUE]
  /\ Owner' = [Owner EXCEPT ![own[t]] = None]
  /\ commport' = [commport EXCEPT ![own[t]] = None]
  /\ pc' = [u \in Thread |->
               IF u = t THEN "finish"
               ELSE IF pc[u] = "waiting" /\ ref[u] = own[t] THEN "woken" ELSE pc[u]]
  /\ own' = [own EXCEPT ![t] = None]
  /\ UNCHANGED <<listed, scanVars, portVars, worldVars, ref, port, want, resume>>

CloseReturns(t) ==
  /\ pc[t] = "finish"
  /\ closeLock' = [closeLock EXCEPT ![port[t]] = FALSE]
  /\ Goto(t, resume[t])
  /\ port' = [port EXCEPT ![t] = None]
  /\ resume' = [resume EXCEPT ![t] = "idle"]
  /\ UNCHANGED <<idVars, scanVars, fd, name, returned, worldVars, ref, want, own>>

-----------------------------------------------------------------------------
(* The environment: clients drop references, devices come and go, another  *)
(* process uses a device.                                                  *)

DropIdentifier(t) ==
  /\ pc[t] = "idle" /\ ref[t] # None
  /\ ref' = [ref EXCEPT ![t] = None]
  /\ UNCHANGED <<idVars, scanVars, portVars, worldVars, pc, port, want, own, resume>>

DropPort(p) ==
  /\ p \in returned /\ fd[p] # "open"
  /\ \A t \in Thread : port[t] # p
  /\ returned' = returned \ {p}
  /\ UNCHANGED <<idVars, scanVars, fd, name, closeLock, worldVars, threadVars>>

PlugOrUnplug(n) ==
  /\ n \in Pluggable
  /\ present' = IF n \in present THEN present \ {n} ELSE present \union {n}
  /\ UNCHANGED <<idVars, scanVars, portVars, lock, threadVars>>

OtherProcess(n) ==
  /\ n \in Contested
  /\ \/ lock[n] = "free" /\ lock' = [lock EXCEPT ![n] = "other"]
     \/ lock[n] = "other" /\ lock' = [lock EXCEPT ![n] = "free"]
  /\ UNCHANGED <<idVars, scanVars, portVars, present, threadVars>>

-----------------------------------------------------------------------------
(* One step of a call a thread has made *)
CallStep(t) ==
  \/ Contend(t) \/ Expire(t) \/ Expired(t)
  \/ GetCommPortFails(t) \/ (\E p \in Port : GetCommPort(t, p))
  \/ OpenReturns(t) \/ OpenThrows(t)
  \/ NativeClose(t) \/ LookupOwnIdentifier(t) \/ InternalClosePort(t) \/ CloseReturns(t)

ScanStep == (\E n \in Name : TestReadLock(n)) \/ TestReadUnlock \/ TestReadFails \/ EndScan

(* A call a client makes *)
ClientCall(t) ==
  \/ \E id \in Id : GetPortIdentifier(t, id)
  \/ \E n \in Name : GetPortIdentifierRescans(t, n)
  \/ GetPortIdentifiers(t)
  \/ Open(t)
  \/ \E p \in Port : Close(t, p)
  \/ DropIdentifier(t)

World ==
  \/ \E p \in Port : DropPort(p)
  \/ \E n \in Name : PlugOrUnplug(n) \/ OtherProcess(n)

Next ==
  \/ \E t \in Thread : CallStep(t) \/ ClientCall(t)
  \/ ScanStep
  \/ World

Spec == Init /\ [][Next]_vars

(***************************************************************************)
(* A running call goes on: Java threads are scheduled and a scan makes     *)
(* progress.  The deadline of an open() is fixed when it starts, so that a *)
(* thread that waits again and again ends up past it.  Clients need not    *)
(* call anything.                                                          *)
(***************************************************************************)
FairSpec ==
  /\ Spec
  /\ \A t \in Thread : WF_vars(CallStep(t)) /\ SF_vars(Expire(t))
  /\ WF_vars(ScanStep)

-----------------------------------------------------------------------------
(***************************************************************************)
(* Owner and Available agree, a thread inside open() that assumed the      *)
(* ownership is the only one, and no port is attached to the identifier    *)
(* until that thread attaches its own ("At this point, the                 *)
(* CommPortIdentifier is owned by us", CommPortIdentifier.java:455).       *)
(***************************************************************************)
SoleOwner ==
  /\ \A id \in Id : Available[id] => Owner[id] = None /\ commport[id] = None
  /\ \A t \in Thread : pc[t] \in Claimed =>
       /\ ~Available[ref[t]] /\ Owner[ref[t]] = t /\ commport[ref[t]] = None
  /\ \A t, u \in Thread : pc[t] \in Claimed /\ pc[u] \in Claimed /\ ref[t] = ref[u] => t = u

(***************************************************************************)
(* However stale the identifiers and however many closes race: a device    *)
(* has at most one open port, and that port holds its lock file, as long   *)
(* as no two calls of fhs_lock for it overlap.                             *)
(***************************************************************************)
DeviceExclusive ==
  \A p \in Port : fd[p] = "open" =>
    /\ lock[name[p]] = p
    /\ \A q \in Port : fd[q] = "open" /\ name[q] = name[p] => q = p

(***************************************************************************)
(* A thread waits in open() only as long as somebody owns the identifier:  *)
(* no wakeup is lost, except by the failed open of a parallel port, which  *)
(* releases without notifyAll.                                             *)
(***************************************************************************)
NoLostWakeup ==
  \A t \in Thread : pc[t] = "waiting" /\ NameOf(ref[t]) \notin Parallel
                       => ~Available[ref[t]]

(***************************************************************************)
(* An identifier that is listed, or that a scan may list again, is never   *)
(* left attached to a port that is closed: the close() that has closed it  *)
(* is still on its way to release it, however scans, other closes and      *)
(* opens of the same device come between its two looks at the list         *)
(* (CommPort.java:107, 109).  It does not speak of an identifier that a    *)
(* scan has dropped because its device was gone: that one is not found by  *)
(* close() and stays owned.                                                *)
(***************************************************************************)
Releases(p) == \E t \in Thread : port[t] = p /\ pc[t] \in {"lookup1", "lookup2", "release"}
ClosedIsReleased ==
  \A id \in listed \union oldPorts :
    commport[id] # None /\ fd[commport[id]] = "closed" => Releases(commport[id])

(***************************************************************************)
(* The ownership of an identifier never passes from one client to the next *)
(* without being released in between.                                      *)
(***************************************************************************)
IdentifierLease == INSTANCE Lease WITH
  Resource <- Id, Client <- Thread, Nobody <- None, holder <- Owner
OwnershipIsALease == IdentifierLease!Spec

(***************************************************************************)
(* An open() that has to wait ends: with the ownership, or, when the       *)
(* deadline passes, without.                                               *)
(***************************************************************************)
OpenEnds == \A t \in Thread : pc[t] \in Waiting ~> pc[t] \in Claimed \union {"idle"}

(* Closing a port gives its identifier back. *)
CloseReleases ==
  \A t \in Thread, id \in Id :
    (pc[t] = "nativeClose" /\ commport[id] = port[t]) ~> Available[id]

=============================================================================
