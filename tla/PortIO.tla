------------------------------- MODULE PortIO -------------------------------
(***************************************************************************)
(* One open port (RXTXPort.java): its streams, its listener, its monitor   *)
(* thread, and close().  Reads and writes count themselves in IOLocked,    *)
(* control calls and the start of the monitor thread are kept apart by     *)
(* polling MonitorThreadLock, and the monitor thread runs the native       *)
(* eventLoop of SerialImp.c until somebody sets "closing" in its           *)
(* event_info_struct.                                                      *)
(***************************************************************************)
EXTENDS Naturals, FiniteSets, Sequences, SequencesExt

CONSTANTS
  Control,        \* threads that call close, add-, removeEventListener, notifyOn...
  User,           \* threads that read and write
  Monitor,        \* MonitorThread objects
  Kind,           \* the stream calls an instance makes
  ListenerCalls,  \* what a listener may call on its port
  Patient,        \* listeners return within the three seconds of join(3000)
  Interrupted,    \* threads that may be interrupted
  CarefulNotify,  \* notifyOn... is not called between remove- and addEventListener
  None

ASSUME PortAssumption ==
  /\ (Control \union User) \intersect Monitor = {}
  /\ None \notin Control \union User \union Monitor
  /\ ListenerCalls \subseteq {"io", "remove", "close"}
  /\ Interrupted \subseteq Control \union User
  /\ {Patient, CarefulNotify} \subseteq BOOLEAN
  /\ Kind \subseteq {"write", "writeArray", "flush", "read", "readArray", "available"}

Thread == Control \union User \union Monitor

VARIABLES
  fd,          \* the Java field: "open", or "zero" when close() is done
  descriptor,  \* the file descriptor itself: "open" or "closed"
  IOLocked, closeLock,
  MonitorThreadLock, MonitorThreadAlive, monThreadisInterrupted,
  monThread,   \* the present MonitorThread object
  listener,    \* SPEventListener is set
  loop,        \* what each monitor thread does
  closing,     \* closing of each event_info_struct
  eisfd,       \* fd of each event_info_struct
  master,      \* the event_info_structs of this port in master_index
  pc, kind,    \* per thread: where it is, and which stream call it makes
  after,       \* where removeEventListener returns to
  cut          \* history: a removeEventListener has been interrupted

ioVars     == <<IOLocked, closeLock>>
fdVars     == <<fd, descriptor>>
lockVars   == <<MonitorThreadLock, MonitorThreadAlive>>
monVars    == <<monThread, listener, monThreadisInterrupted>>
loopVars   == <<loop, closing, eisfd, master>>
threadVars == <<pc, kind, after>>
vars == <<ioVars, fdVars, cut, lockVars, monVars, loopVars, threadVars>>

InIO     == {"spin", "native", "drain", "event", "leave"}   \* counted in IOLocked
InClose  == {"closeWait", "closeTest", "closeNative", "closeSuper"}
InRemove == {"removeWait", "removeTest", "interrupt", "join", "reset"}
InAdd    == {"addSet", "addStart", "addWait"}
InNotify == {"notifyWait", "notifyLock", "notifySet", "notifyUnlock"}
PC == {"idle", "peek", "enter"} \union InIO \union InClose \union InRemove
        \union InAdd \union InNotify

TypeOK ==
  /\ fd \in {"open", "zero"} /\ descriptor \in {"open", "closed"}
  /\ IOLocked \in 0 .. Cardinality(Thread) /\ closeLock \in BOOLEAN
  /\ {MonitorThreadLock, MonitorThreadAlive, monThreadisInterrupted, listener} \subseteq BOOLEAN
  /\ monThread \in Monitor \union {None}
  /\ loop \in [Monitor -> {"new", "started", "entering", "listed", "running", "callback", "dead"}]
  /\ closing \in [Monitor -> BOOLEAN]
  /\ eisfd \in [Monitor -> {"open", "zero"}]
  /\ master \in Seq(Monitor)
  /\ pc \in [Thread -> PC]
  /\ kind \in [Thread -> Kind \union {None}]
  /\ after \in [Thread -> {"idle", "closeNative"}]
  /\ cut \in BOOLEAN

(***************************************************************************)
(* The constructor has opened the device and started a monitor thread.     *)
(***************************************************************************)
Init ==
  /\ fd = "open" /\ descriptor = "open"
  /\ IOLocked = 0 /\ closeLock = FALSE
  /\ MonitorThreadLock = FALSE /\ MonitorThreadAlive = TRUE
  /\ monThreadisInterrupted = FALSE
  /\ listener = FALSE
  /\ \E m \in Monitor :
       /\ monThread = m
       /\ loop = [n \in Monitor |-> IF n = m THEN "running" ELSE "new"]
       /\ master = <<m>>
  /\ closing = [m \in Monitor |-> FALSE]
  /\ eisfd = [m \in Monitor |-> "open"]
  /\ pc = [t \in Thread |-> "idle"]
  /\ kind = [t \in Thread |-> None]
  /\ after = [t \in Thread |-> "idle"]
  /\ cut = FALSE

(* Native code gets no descriptor with its call: it reads the field, now. *)
get_java_var == fd

At(t, label) == pc[t] = label
Goto(t, label) == pc' = [pc EXCEPT ![t] = label]

(* A client thread between calls, or a listener that is being called *)
Calls(t, what) ==
  /\ At(t, "idle")
  /\ \/ t \in User /\ what = "io"
     \/ t \in Control /\ what # "io"
     \/ t \in Monitor /\ what \in ListenerCalls /\ loop[t] = "callback"

-----------------------------------------------------------------------------
(* Streams.  A call that fails one of its checks returns at once. *)

(* The checks before IOLocked is incremented, in each of the calls *)
MayEnter(k) ==
  /\ k \in {"write", "writeArray", "flush", "available"} => ~monThreadisInterrupted
  /\ k \in {"writeArray", "flush", "read", "readArray"} => fd = "open"

(* The input stream's own monitor: its methods are synchronized. *)
Reads == {"read", "readArray", "available"}
StreamFree(t) ==
  \A s \in Thread \ {t} : kind[s] \in Reads => pc[s] \notin InIO \union {"peek", "enter"}

BeginIO(t, k) ==
  /\ Calls(t, "io") /\ MayEnter(k)
  /\ k \in Reads => StreamFree(t)
  /\ kind' = [kind EXCEPT ![t] = k]
  /\ Goto(t, IF k = "readArray" THEN "peek" ELSE "enter")
  /\ UNCHANGED <<ioVars, fdVars, cut, lockVars, monVars, loopVars, after>>

(* read(b, off, len) asks nativeavailable() how much there is. *)
Peek(t) ==
  /\ At(t, "peek")
  /\ IF monThreadisInterrupted
       THEN Goto(t, "idle") /\ kind' = [kind EXCEPT ![t] = None]
       ELSE Goto(t, "enter") /\ UNCHANGED kind
  /\ UNCHANGED <<ioVars, fdVars, cut, lockVars, monVars, loopVars, after>>

Enter(t) ==
  /\ At(t, "enter")
  /\ IOLocked' = IOLocked + 1
  /\ Goto(t, IF kind[t] = "available" THEN "native" ELSE "spin")
  /\ UNCHANGED <<closeLock, fdVars, cut, lockVars, monVars, loopVars, kind, after>>

(***************************************************************************)
(* waitForTheNativeCodeSilly().  write(int) looks at fd only now, and      *)
(* flush() hands monThreadisInterrupted to nativeDrain.                    *)
(***************************************************************************)
Spin(t) ==
  /\ At(t, "spin") /\ ~MonitorThreadLock
  /\ Goto(t, IF kind[t] = "write" /\ fd = "zero" THEN "leave"
             ELSE IF kind[t] = "flush" /\ ~monThreadisInterrupted THEN "drain" ELSE "native")
  /\ UNCHANGED <<ioVars, fdVars, cut, lockVars, monVars, loopVars, kind, after>>

(***************************************************************************)
(* A native call returns, or stays for ever: a read without a timeout      *)
(* selects with none until there is data (SerialImp.c:3046), a write waits *)
(* for the line, and no close() wakes either.                              *)
(***************************************************************************)
NativeReturns(t) ==
  /\ At(t, "native")
  /\ Goto(t, "leave")
  /\ UNCHANGED <<ioVars, fdVars, cut, lockVars, monVars, loopVars, kind, after>>

(* sendEvent calls the listener, if it has asked for the event. *)
Delivers == fd = "open" /\ listener /\ monThread # None /\ ~monThreadisInterrupted

(***************************************************************************)
(* tcdrain, three times at most.  The flag of OUTPUT_BUFFER_EMPTY is read  *)
(* in the event_info_struct "eis" points to: it is on the stack of the     *)
(* last monitor thread, and when that one has ended, the flag is whatever  *)
(* is there now.                                                           *)
(***************************************************************************)
NativeDrain(t) ==
  /\ At(t, "drain")
  /\ \/ Goto(t, "leave")
     \/ Delivers /\ Goto(t, "event")
  /\ UNCHANGED <<ioVars, fdVars, cut, lockVars, monVars, loopVars, kind, after>>

(* The listener is called in the thread that flushes. *)
FlushListenerReturns(t) ==
  /\ At(t, "event")
  /\ Goto(t, "leave")
  /\ UNCHANGED <<ioVars, fdVars, cut, lockVars, monVars, loopVars, kind, after>>

(* Mutant: the last call that fails does not count itself out. *)
LeaveCounted(t) ==
  /\ At(t, "leave")
  /\ IOLocked' = IF fd = "zero" /\ IOLocked = 1 THEN IOLocked ELSE IOLocked - 1
  /\ Goto(t, "idle") /\ kind' = [kind EXCEPT ![t] = None]
  /\ UNCHANGED <<closeLock, fdVars, cut, lockVars, monVars, loopVars, after>>

Leave(t) ==
  /\ At(t, "leave")
  /\ IOLocked' = IOLocked - 1
  /\ Goto(t, "idle") /\ kind' = [kind EXCEPT ![t] = None]
  /\ UNCHANGED <<closeLock, fdVars, cut, lockVars, monVars, loopVars, after>>

-----------------------------------------------------------------------------
(* close() *)

Close(t) ==
  /\ Calls(t, "close")
  /\ Goto(t, "closeWait")
  /\ UNCHANGED <<ioVars, fdVars, cut, lockVars, monVars, loopVars, kind, after>>

(* The synchronized block: wait until nobody reads or writes *)
CloseWait(t) ==
  /\ At(t, "closeWait")
  /\ \/ IOLocked = 0 /\ ~closeLock /\ closeLock' = TRUE /\ Goto(t, "closeTest")
     \/ IOLocked = 0 /\ closeLock /\ UNCHANGED closeLock /\ Goto(t, "idle")
  /\ UNCHANGED <<IOLocked, fdVars, cut, lockVars, monVars, loopVars, kind, after>>

(* An interrupt while it waits: the port stays open. *)
CloseInterrupted(t) ==
  /\ At(t, "closeWait") /\ IOLocked > 0
  /\ t \in Interrupted
  /\ Goto(t, "idle")
  /\ UNCHANGED <<ioVars, fdVars, cut, lockVars, monVars, loopVars, kind, after>>

(* Without a descriptor closeLock stays set. *)
CloseTest(t) ==
  /\ At(t, "closeTest")
  /\ IF fd = "zero" THEN Goto(t, "idle") /\ UNCHANGED after
     ELSE IF monThreadisInterrupted THEN Goto(t, "closeNative") /\ UNCHANGED after
     ELSE Goto(t, "removeWait") /\ after' = [after EXCEPT ![t] = "closeNative"]
  /\ UNCHANGED <<ioVars, fdVars, cut, lockVars, monVars, loopVars, kind>>

NativeClose(t) ==
  /\ At(t, "closeNative")
  /\ descriptor' = "closed"
  /\ Goto(t, "closeSuper")
  /\ UNCHANGED <<ioVars, fd, cut, lockVars, monVars, loopVars, kind, after>>

CloseSuper(t) ==
  /\ At(t, "closeSuper")
  /\ fd' = "zero"
  /\ closeLock' = FALSE
  /\ Goto(t, "idle")
  /\ UNCHANGED <<IOLocked, descriptor, cut, lockVars, monVars, loopVars, kind, after>>

-----------------------------------------------------------------------------
(* addEventListener *)

AddEventListener(t) ==
  /\ Calls(t, "add")
  /\ ~listener              \* else TooManyListenersException
  /\ Goto(t, "addSet")
  /\ UNCHANGED <<ioVars, fdVars, cut, lockVars, monVars, loopVars, kind, after>>

AddSet(t) ==
  /\ At(t, "addSet")
  /\ listener' = TRUE
  /\ Goto(t, IF MonitorThreadAlive THEN "idle" ELSE "addStart")
  /\ UNCHANGED <<ioVars, fdVars, cut, lockVars, monThread, monThreadisInterrupted, loopVars, kind, after>>

(* The bound on MonitorThread objects: one that is dead is used again. *)
Unused(m) == loop[m] \in {"new", "dead"} /\ monThread # m

AddStart(t) ==
  /\ At(t, "addStart")
  /\ \E m \in Monitor :
       /\ Unused(m)
       /\ monThread' = m
       /\ loop' = [loop EXCEPT ![m] = "started"]
  /\ MonitorThreadLock' = TRUE
  /\ Goto(t, "addWait")
  /\ UNCHANGED <<ioVars, fdVars, cut, MonitorThreadAlive, listener, monThreadisInterrupted,
                 closing, eisfd, master, kind, after>>

AddWait(t) ==
  /\ At(t, "addWait") /\ ~MonitorThreadLock
  /\ MonitorThreadAlive' = TRUE
  /\ Goto(t, "idle")
  /\ UNCHANGED <<ioVars, fdVars, cut, MonitorThreadLock, monVars, loopVars, kind, after>>

-----------------------------------------------------------------------------
(* removeEventListener *)

RemoveEventListener(t) ==
  /\ Calls(t, "remove")
  /\ Goto(t, "removeWait")
  /\ UNCHANGED <<ioVars, fdVars, cut, lockVars, monVars, loopVars, kind, after>>

RemoveWait(t) ==
  /\ At(t, "removeWait") /\ ~MonitorThreadLock
  /\ Goto(t, "removeTest")
  /\ UNCHANGED <<ioVars, fdVars, cut, lockVars, monVars, loopVars, kind, after>>

Return(t) ==
  /\ Goto(t, after[t])
  /\ after' = [after EXCEPT ![t] = "idle"]

(* An exception goes through close() as well. *)
Throw(t) ==
  /\ Goto(t, "idle")
  /\ after' = [after EXCEPT ![t] = "idle"]

IsAlive(m) == m # None /\ loop[m] \notin {"new", "dead"}

RemoveTest(t) ==
  /\ At(t, "removeTest")
  /\ IF monThreadisInterrupted
       THEN /\ monThread' = None /\ listener' = FALSE
            /\ UNCHANGED monThreadisInterrupted
            /\ Return(t)
       ELSE /\ IF IsAlive(monThread)
                 THEN monThreadisInterrupted' = TRUE /\ Goto(t, "interrupt")
                 ELSE UNCHANGED monThreadisInterrupted /\ Goto(t, "reset")
            /\ UNCHANGED <<monThread, listener, after>>
  /\ UNCHANGED <<ioVars, fdVars, cut, lockVars, loopVars, kind>>

(* Where the event_info_structs with the descriptor this port has now are *)
Mine == {i \in DOMAIN master : eisfd[master[i]] = get_java_var}

(* Mutant: eventloop_interrupted is set, closing is not. *)
InterruptEventLoopOnly(t) ==
  /\ At(t, "interrupt") /\ Mine # {}
  /\ Goto(t, "join")
  /\ UNCHANGED <<ioVars, fdVars, cut, lockVars, monVars, loopVars, kind, after>>

(***************************************************************************)
(* interruptEventLoop searches master_index until it has found an          *)
(* event_info_struct with the descriptor of this port: the first one.      *)
(***************************************************************************)
InterruptEventLoop(t) ==
  /\ At(t, "interrupt")
  /\ \E first \in Mine :
       /\ \A i \in Mine : first <= i
       /\ closing' = [closing EXCEPT ![master[first]] = TRUE]
  /\ Goto(t, "join")
  /\ UNCHANGED <<ioVars, fdVars, cut, lockVars, monVars, loop, eisfd, master, kind, after>>

(***************************************************************************)
(* monThread.join(3000) ends with the thread; after three seconds, if a    *)
(* listener lasts as long or joins its own thread, or if the thread has    *)
(* not been told to end.  If another remove has ended meanwhile,           *)
(* monThread is null and the call dies of a NullPointerException.          *)
(***************************************************************************)
Join(t) ==
  /\ At(t, "join")
  /\ \/ /\ monThread # None
        /\ \/ ~IsAlive(monThread)
           \/ loop[monThread] = "callback" /\ (t = monThread \/ ~Patient)
           \/ ~closing[monThread]
        /\ Goto(t, "reset") /\ UNCHANGED after
     \/ monThread = None /\ Throw(t)
  /\ UNCHANGED <<ioVars, fdVars, cut, lockVars, monVars, loopVars, kind>>

(* Interrupted, removeEventListener returns with the fields as they are. *)
JoinInterrupted(t) ==
  /\ At(t, "join") /\ monThread # None
  /\ t \in Interrupted
  /\ cut' = TRUE
  /\ Return(t)
  /\ UNCHANGED <<ioVars, fdVars, lockVars, monVars, loopVars, kind>>

(* Mutant: MonitorThreadAlive is left as it was. *)
ResetKeepsAlive(t) ==
  /\ At(t, "reset")
  /\ monThread' = None /\ listener' = FALSE /\ monThreadisInterrupted' = TRUE
  /\ MonitorThreadLock' = FALSE
  /\ Return(t)
  /\ UNCHANGED <<ioVars, fdVars, cut, MonitorThreadAlive, loopVars, kind>>

Reset(t) ==
  /\ At(t, "reset")
  /\ monThread' = None /\ listener' = FALSE /\ monThreadisInterrupted' = TRUE
  /\ MonitorThreadLock' = FALSE /\ MonitorThreadAlive' = FALSE
  /\ Return(t)
  /\ UNCHANGED <<ioVars, fdVars, cut, loopVars, kind>>

-----------------------------------------------------------------------------
(* notifyOnDataAvailable and its like *)

Notify(t) ==
  /\ Calls(t, "notify")
  /\ CarefulNotify => monThread # None
  /\ Goto(t, "notifyWait")
  /\ UNCHANGED <<ioVars, fdVars, cut, lockVars, monVars, loopVars, kind, after>>

NotifyWait(t) ==
  /\ At(t, "notifyWait") /\ ~MonitorThreadLock
  /\ Goto(t, "notifyLock")
  /\ UNCHANGED <<ioVars, fdVars, cut, lockVars, monVars, loopVars, kind, after>>

NotifyLock(t) ==
  /\ At(t, "notifyLock")
  /\ MonitorThreadLock' = TRUE
  /\ Goto(t, "notifySet")
  /\ UNCHANGED <<ioVars, fdVars, cut, MonitorThreadAlive, monVars, loopVars, kind, after>>

(***************************************************************************)
(* The flag is set in the event_info_struct and in monThread: without one, *)
(* a NullPointerException leaves MonitorThreadLock set.                    *)
(***************************************************************************)
NotifySet(t) ==
  /\ At(t, "notifySet")
  /\ Goto(t, IF monThread = None THEN "idle" ELSE "notifyUnlock")
  /\ UNCHANGED <<ioVars, fdVars, cut, lockVars, monVars, loopVars, kind, after>>

(* Mutant: MonitorThreadLock is not cleared. *)
NotifyKeepsLock(t) ==
  /\ At(t, "notifyUnlock")
  /\ Goto(t, "idle")
  /\ UNCHANGED <<ioVars, fdVars, cut, lockVars, monVars, loopVars, kind, after>>

NotifyUnlock(t) ==
  /\ At(t, "notifyUnlock")
  /\ MonitorThreadLock' = FALSE
  /\ Goto(t, "idle")
  /\ UNCHANGED <<ioVars, fdVars, cut, MonitorThreadAlive, monVars, loopVars, kind, after>>

-----------------------------------------------------------------------------
(* The monitor thread *)

MonitorRuns(m) ==
  /\ loop[m] = "started"
  /\ loop' = [loop EXCEPT ![m] = "entering"]
  /\ monThreadisInterrupted' = FALSE
  /\ UNCHANGED <<ioVars, fdVars, cut, lockVars, monThread, listener, closing, eisfd, master,
                 threadVars>>

(***************************************************************************)
(* initialise_event_info_struct and finalize_event_info_struct relink      *)
(* master_index in several steps and without a lock.  They are one step    *)
(* each: only the entries of this port are here, and those of one port do  *)
(* not meet as long as one client controls it, because addEventListener    *)
(* follows the join() of the thread before.  The entries of other ports,   *)
(* whose surgery may overlap with this one, are left out.                  *)
(***************************************************************************)
LoopBegins(m) ==
  /\ loop[m] = "entering"
  /\ loop' = [loop EXCEPT ![m] = "listed"]
  /\ closing' = [closing EXCEPT ![m] = FALSE]
  /\ eisfd' = [eisfd EXCEPT ![m] = get_java_var]
  /\ master' = Append(master, m)
  /\ UNCHANGED <<ioVars, fdVars, cut, lockVars, monVars, threadVars>>

unlock_monitor_thread(m) ==
  /\ loop[m] = "listed"
  /\ loop' = [loop EXCEPT ![m] = "running"]
  /\ MonitorThreadLock' = FALSE
  /\ UNCHANGED <<ioVars, fdVars, cut, MonitorThreadAlive, monVars, closing, eisfd, master,
                 threadVars>>

(* send_event, for an event the listener has asked for *)
SendEvent(m) ==
  /\ loop[m] = "running" /\ Delivers
  /\ loop' = [loop EXCEPT ![m] = "callback"]
  /\ UNCHANGED <<ioVars, fdVars, cut, lockVars, monVars, closing, eisfd, master, threadVars>>

ListenerReturns(m) ==
  /\ loop[m] = "callback" /\ At(m, "idle")
  /\ loop' = [loop EXCEPT ![m] = "running"]
  /\ UNCHANGED <<ioVars, fdVars, cut, lockVars, monVars, closing, eisfd, master, threadVars>>

(* The struct is gone; eisfd is set back so that the state space is small. *)
LoopEnds(m) ==
  /\ loop[m] = "running" /\ closing[m]
  /\ loop' = [loop EXCEPT ![m] = "dead"]
  /\ \E i \in DOMAIN master : master[i] = m /\ master' = RemoveAt(master, i)
  /\ eisfd' = [eisfd EXCEPT ![m] = "open"]
  /\ UNCHANGED <<ioVars, fdVars, cut, lockVars, monVars, closing, threadVars>>

-----------------------------------------------------------------------------
CountStep(t) == Peek(t) \/ Enter(t) \/ Leave(t) \/ FlushListenerReturns(t)
IOStep(t) == CountStep(t) \/ NativeReturns(t) \/ NativeDrain(t)
CloseStep(t) == CloseWait(t) \/ CloseTest(t) \/ NativeClose(t) \/ CloseSuper(t)
ControlStep(t) ==
  \/ AddSet(t) \/ AddStart(t)
  \/ RemoveTest(t) \/ InterruptEventLoop(t) \/ Join(t) \/ Reset(t)
  \/ NotifyLock(t) \/ NotifySet(t) \/ NotifyUnlock(t)
SpinStep(t) == Spin(t) \/ AddWait(t) \/ RemoveWait(t) \/ NotifyWait(t)
MonitorStep(m) ==
  \/ MonitorRuns(m) \/ LoopBegins(m) \/ unlock_monitor_thread(m)
  \/ ListenerReturns(m) \/ LoopEnds(m)
ClientCall(t) ==
  \/ \E k \in Kind : BeginIO(t, k)
  \/ Close(t) \/ AddEventListener(t) \/ RemoveEventListener(t) \/ Notify(t)

Next ==
  \/ \E t \in Thread :
       \/ IOStep(t) \/ CloseStep(t) \/ ControlStep(t) \/ SpinStep(t) \/ ClientCall(t)
       \/ CloseInterrupted(t) \/ JoinInterrupted(t)
  \/ \E m \in Monitor : MonitorStep(m) \/ SendEvent(m)

Spec == Init /\ [][Next]_vars

(***************************************************************************)
(* Threads are scheduled, and listeners return.  Clients need not call or  *)
(* interrupt anything, and native reads and writes need not return.        *)
(***************************************************************************)
FairSpec ==
  /\ Spec
  /\ \A t \in Thread :
       /\ WF_vars(CountStep(t)) /\ WF_vars(ControlStep(t))
       /\ WF_vars(CloseStep(t)) /\ WF_vars(SpinStep(t))
  /\ \A m \in Monitor : WF_vars(MonitorStep(m))

-----------------------------------------------------------------------------
(***************************************************************************)
(* When close() has closed the descriptor, every event loop of the port    *)
(* has ended or been told to end ("all eventloops in this PID will check   *)
(* if their thread is interrupted", SerialImp.c:4771): none goes on with a *)
(* descriptor number that the next open() of any file may get.             *)
(***************************************************************************)
NoOrphanLoop ==
  (\E t \in Thread : pc[t] = "closeSuper") =>
    \A m \in Monitor : IsAlive(m) => loop[m] \in {"running", "callback"} /\ closing[m]

(***************************************************************************)
(* A registered listener is served: while no thread adds or removes one,   *)
(* a listener has exactly one monitor thread that lives and has not been   *)
(* told to end ("Don't let and notification requests happen until the      *)
(* Eventloop is ready", RXTXPort.java:800).  A removeEventListener that is *)
(* interrupted leaves fields behind with which this is no longer so.       *)
(***************************************************************************)
Reconfiguring == \E t \in Thread : pc[t] \in InAdd \union InRemove \union InClose
ListenerServed ==
  listener /\ descriptor = "open" /\ ~Reconfiguring /\ ~cut =>
    /\ IsAlive(monThread) /\ ~closing[monThread]
    /\ \A m \in Monitor : IsAlive(m) => m = monThread \/ closing[m]

(***************************************************************************)
(* close() ends once nobody starts to read or write any more, if no native *)
(* call lasts for ever: calls are counted right, a failing one included,   *)
(* and neither the monitor thread nor its join keeps close() for ever.     *)
(* It does wait for ever for a read that is never given data: with the     *)
(* timeout of a new port (RXTXPort.java:133) such a read has no end, and   *)
(* close() only looks at IOLocked every half second (RXTXPort.java:1057).  *)
(***************************************************************************)
NoNewIO == \A t \in Thread : pc[t] \notin {"peek", "enter"}
NativeCallsEnd == \A t \in Thread : []<>(pc[t] \notin {"native", "drain"})
CloseEnds ==
  <>[]NoNewIO /\ NativeCallsEnd => \A t \in Thread : pc[t] \in InClose ~> pc[t] = "idle"

(***************************************************************************)
(* "In worst case test cases this loops once or twice every time."         *)
(* (RXTXPort.java:886): when nobody sets MonitorThreadLock any more,       *)
(* nobody polls it for ever.                                               *)
(***************************************************************************)
Polling == {"spin", "addWait", "removeWait", "notifyWait"}
NobodyLocks == \A t \in Thread : pc[t] \notin {"notifyLock", "addStart"}
PollingEnds == <>[]NobodyLocks => \A t \in Thread : pc[t] \in Polling ~> pc[t] \notin Polling

=============================================================================
