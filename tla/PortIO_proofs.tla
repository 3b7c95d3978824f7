---------------------------- MODULE PortIO_proofs ----------------------------
(***************************************************************************)
(* What an open port guarantees for any number of threads that read and    *)
(* write, and of monitor threads: calls are counted, close() leaves no     *)
(* event loop behind, a listener has the one thread that serves it, the    *)
(* descriptor is closed once, and what polls or closes is not left alone.  *)
(***************************************************************************)
EXTENDS PortIO, FiniteSetTheorems, TLAPS

(***************************************************************************)
(* One client thread makes the control calls; listeners read, write and    *)
(* flush, and return before join(3000) gives up.  The client may be        *)
(* interrupted, and any number of threads may read and write.              *)
(***************************************************************************)
OneClient == (\E c : Control = {c}) /\ ListenerCalls \subseteq {"io"} /\ Patient

client == CHOOSE c \in Control : TRUE
ClientAt(S) == pc[client] \in S

(* Where a thread may be that makes no control calls *)
Streams == {"idle", "peek", "enter"} \union InIO

(* An event_info_struct is in master_index in these places of its loop. *)
Listed == {"listed", "running", "callback"}

(* The calls that are neither reads nor writes are made by the client. *)
CallInv ==
  /\ \A t \in Thread \ {client} : pc[t] \in Streams
  /\ \A t \in Thread : after[t] = "closeNative" => t = client /\ ClientAt(InRemove)

(* At most one loop lives, and master_index has it. *)
LoopInv ==
  /\ \A m, n \in Monitor : IsAlive(m) /\ IsAlive(n) => m = n
  /\ \A m \in Monitor : loop[m] \in Listed => master = <<m>>
  /\ (\A m \in Monitor : loop[m] \notin Listed) => master = <<>>
  /\ \A m \in Monitor : IsAlive(m) => m = monThread \/ cut

(* A loop that runs is told to end by a remove, and only by a remove. *)
ClosingInv ==
  \A m \in Monitor : loop[m] \in Listed =>
    /\ closing[m] => monThreadisInterrupted
    /\ ~closing[m] => eisfd[m] = fd
    /\ monThreadisInterrupted => closing[m] \/ ClientAt({"interrupt"})

(* A monitor thread starts only under addEventListener, which waits for it. *)
StartInv ==
  /\ \A m \in Monitor : loop[m] \in {"started", "entering", "listed"} =>
       ClientAt({"addWait"}) /\ monThread = m /\ MonitorThreadLock
  /\ ClientAt({"addWait"}) => IsAlive(monThread) /\ (loop[monThread] # "started" => ~monThreadisInterrupted)
  /\ ClientAt({"addStart", "addWait"}) => listener /\ ~MonitorThreadAlive

(* What removeEventListener and close() have done so far *)
RemoveInv ==
  /\ ClientAt({"interrupt"}) =>
       IsAlive(monThread) /\ loop[monThread] \in {"running", "callback"} /\ ~closing[monThread]
  /\ ClientAt({"join"}) => monThread # None
  /\ ClientAt({"reset"}) => \A m \in Monitor : ~IsAlive(m)
  /\ ClientAt({"interrupt", "join", "reset"}) => MonitorThreadAlive
  /\ ClientAt({"interrupt", "join", "reset", "closeNative", "closeSuper"}) => monThreadisInterrupted

(* An interrupted remove: the fields say that a thread lives, for ever. *)
CutInv ==
  cut => MonitorThreadAlive /\ monThreadisInterrupted
           /\ ~ClientAt({"addStart", "addWait", "interrupt", "join", "reset"})

(* Otherwise MonitorThreadAlive says what it should. *)
AliveInv ==
  ~cut =>
    /\ MonitorThreadAlive /\ ~ClientAt({"interrupt", "join", "reset"}) =>
         IsAlive(monThread) /\ ~monThreadisInterrupted
    /\ ~MonitorThreadAlive /\ ~ClientAt({"addWait"}) =>
         monThreadisInterrupted /\ \A m \in Monitor : ~IsAlive(m)
    /\ listener => MonitorThreadAlive \/ ClientAt({"addStart", "addWait"})

IndInv == CallInv /\ LoopInv /\ ClosingInv /\ StartInv /\ RemoveInv /\ CutInv /\ AliveInv

(* TypeOK, but for the bound on IOLocked *)
Types ==
  /\ fd \in {"open", "zero"} /\ descriptor \in {"open", "closed"}
  /\ closeLock \in BOOLEAN
  /\ MonitorThreadLock \in BOOLEAN /\ MonitorThreadAlive \in BOOLEAN
  /\ monThreadisInterrupted \in BOOLEAN /\ listener \in BOOLEAN
  /\ monThread \in Monitor \union {None}
  /\ loop \in [Monitor -> {"new", "started", "entering", "listed", "running", "callback", "dead"}]
  /\ closing \in [Monitor -> BOOLEAN]
  /\ eisfd \in [Monitor -> {"open", "zero"}]
  /\ master \in Seq(Monitor)
  /\ pc \in [Thread -> PC]
  /\ kind \in [Thread -> Kind \union {None}]
  /\ after \in [Thread -> {"idle", "closeNative"}]
  /\ cut \in BOOLEAN

-----------------------------------------------------------------------------
(* The only client is a thread, and no monitor thread. *)
LEMMA ClientIs ==
  ASSUME OneClient
  PROVE  /\ Control = {client} /\ client \in Thread /\ client \notin Monitor
         /\ ListenerCalls \subseteq {"io"} /\ Patient
BY PortAssumption DEF OneClient, client, Thread

(* Taking an event_info_struct out of master_index leaves a list of them. *)
LEMMA RemoveAtType ==
  ASSUME NEW S, NEW s \in Seq(S), NEW i \in DOMAIN s
  PROVE  RemoveAt(s, i) \in Seq(S)
<1>1. SubSeq(s, 1, i - 1) \in Seq(S) /\ SubSeq(s, i + 1, Len(s)) \in Seq(S)
  OBVIOUS
<1> QED BY <1>1 DEF RemoveAt

(* The only one is taken out. *)
LEMMA RemoveOnly ==
  ASSUME NEW S, NEW m \in S, NEW i \in DOMAIN <<m>>
  PROVE  RemoveAt(<<m>>, i) = <<>>
<1>1. i = 1
  OBVIOUS
<1>2. SubSeq(<<m>>, 1, 0) = <<>> /\ SubSeq(<<m>>, 2, 1) = <<>>
  OBVIOUS
<1> QED BY <1>1, <1>2 DEF RemoveAt

(* The places of a call, one by one *)
LEMMA Places ==
  PC = {"idle", "peek", "enter", "spin", "native", "drain", "event", "leave",
        "closeWait", "closeTest", "closeNative", "closeSuper",
        "removeWait", "removeTest", "interrupt", "join", "reset",
        "addSet", "addStart", "addWait",
        "notifyWait", "notifyLock", "notifySet", "notifyUnlock"}
BY DEF PC, InIO, InClose, InRemove, InAdd, InNotify

(* The types hold at the start. *)
LEMMA TypesInit == Init => Types
<1> SUFFICES ASSUME Init PROVE Types
  OBVIOUS
<1>1. PICK m \in Monitor : monThread = m /\ master = <<m>>
                             /\ loop = [n \in Monitor |-> IF n = m THEN "running" ELSE "new"]
  BY DEF Init
<1>2. master \in Seq(Monitor)
  BY <1>1
<1> QED BY <1>1, <1>2, Places DEF Init, Types

(* The types are kept by every step. *)
LEMMA TypesNext == Types /\ [Next]_vars => Types'
<1> SUFFICES ASSUME Types, [Next]_vars PROVE Types'
  OBVIOUS
<1> USE DEF ioVars, fdVars, lockVars, monVars, loopVars, threadVars, vars, At, Goto
<1>1. ASSUME NEW t \in Thread, IOStep(t)
      PROVE  Types'
  <2>1. CASE Peek(t) \/ NativeReturns(t) \/ NativeDrain(t) \/ FlushListenerReturns(t)
    BY <2>1, Places DEF Peek, NativeReturns, NativeDrain, FlushListenerReturns, Types
  <2>2. CASE Enter(t)
    BY <2>2, Places DEF Enter, Types
  <2>3. CASE Leave(t)
    BY <2>3, Places DEF Leave, Types
  <2> QED BY <1>1, <2>1, <2>2, <2>3 DEF IOStep, CountStep
<1>2. ASSUME NEW t \in Thread, SpinStep(t)
      PROVE  Types'
  <2>1. CASE Spin(t)
    BY <2>1, Places DEF Spin, Types
  <2>2. CASE AddWait(t) \/ RemoveWait(t) \/ NotifyWait(t)
    BY <2>2, Places DEF AddWait, RemoveWait, NotifyWait, Types
  <2> QED BY <1>2, <2>1, <2>2 DEF SpinStep
<1>3. ASSUME NEW t \in Thread, CloseStep(t)
      PROVE  Types'
  <2>1. CASE CloseTest(t)
    BY <2>1, Places DEF CloseTest, Types
  <2>2. CASE CloseWait(t)
    BY <2>2, Places DEF CloseWait, Types
  <2>3. CASE NativeClose(t)
    BY <2>3, Places DEF NativeClose, Types
  <2>4. CASE CloseSuper(t)
    BY <2>4, Places DEF CloseSuper, Types
  <2> QED BY <1>3, <2>1, <2>2, <2>3, <2>4 DEF CloseStep
<1>4. ASSUME NEW t \in Thread, ControlStep(t)
      PROVE  Types'
  <2>1. CASE InterruptEventLoop(t)
    BY <2>1, Places DEF InterruptEventLoop, Mine, Types
  <2>2. CASE AddStart(t)
    BY <2>2, Places DEF AddStart, Types
  <2>3. after[t] \in PC
    BY Places DEF Types
  <2>4. CASE RemoveTest(t)
    BY <2>3, <2>4, Places DEF RemoveTest, Return, Types
  <2>5. CASE Join(t)
    BY <2>5, Places DEF Join, Throw, Types
  <2>6. CASE Reset(t)
    BY <2>3, <2>6, Places DEF Reset, Return, Types
  <2>7. CASE AddSet(t)
    BY <2>7, Places DEF AddSet, Types
  <2>8. CASE NotifyLock(t)
    BY <2>8, Places DEF NotifyLock, Types
  <2>9. CASE NotifySet(t)
    BY <2>9, Places DEF NotifySet, Types
  <2>10. CASE NotifyUnlock(t)
    BY <2>10, Places DEF NotifyUnlock, Types
  <2> QED BY <1>4, <2>1, <2>2, <2>4, <2>5, <2>6, <2>7, <2>8, <2>9, <2>10 DEF ControlStep
<1>5. ASSUME NEW t \in Thread, ClientCall(t)
      PROVE  Types'
  <2>1. ASSUME NEW k \in Kind, BeginIO(t, k)
        PROVE  Types'
    BY <2>1, Places DEF BeginIO, Types
  <2>2. CASE Close(t) \/ AddEventListener(t) \/ RemoveEventListener(t) \/ Notify(t)
    BY <2>2, Places DEF Close, AddEventListener, RemoveEventListener, Notify, Types
  <2> QED BY <1>5, <2>1, <2>2 DEF ClientCall
<1>6. ASSUME NEW t \in Thread, CloseInterrupted(t) \/ JoinInterrupted(t)
      PROVE  Types'
  <2>1. CASE CloseInterrupted(t)
    BY <2>1, Places DEF CloseInterrupted, Types
  <2>2. CASE JoinInterrupted(t)
    BY <2>2, Places DEF JoinInterrupted, Return, Types
  <2> QED BY <1>6, <2>1, <2>2
<1>7. ASSUME NEW m \in Monitor, MonitorStep(m) \/ SendEvent(m)
      PROVE  Types'
  <2>1. CASE LoopBegins(m)
    BY <2>1 DEF LoopBegins, get_java_var, Types
  <2>2. CASE LoopEnds(m)
    BY <2>2, RemoveAtType DEF LoopEnds, Types
  <2>3. CASE MonitorRuns(m)
    BY <2>3 DEF MonitorRuns, Types
  <2>4. CASE unlock_monitor_thread(m)
    BY <2>4 DEF unlock_monitor_thread, Types
  <2>5. CASE ListenerReturns(m) \/ SendEvent(m)
    BY <2>5 DEF ListenerReturns, SendEvent, Types
  <2> QED BY <1>7, <2>1, <2>2, <2>3, <2>4, <2>5 DEF MonitorStep
<1>8. CASE UNCHANGED vars
  BY <1>8 DEF Types
<1> QED BY <1>1, <1>2, <1>3, <1>4, <1>5, <1>6, <1>7, <1>8 DEF Next

-----------------------------------------------------------------------------
(* What a read, a write or a flush changes: nothing that the client uses *)
LEMMA StreamStep ==
  ASSUME OneClient, Types, NEW t \in Thread,
         IOStep(t) \/ Spin(t) \/ (\E k \in Kind : BeginIO(t, k))
  PROVE  /\ UNCHANGED <<fdVars, closeLock, cut, lockVars, monVars, loopVars, after>>
         /\ pc[t] \in Streams /\ pc'[t] \in Streams
         /\ \A s \in Thread \ {t} : pc'[s] = pc[s]
<1> USE DEF At, Goto, Streams, InIO
<1>1. CASE Peek(t) \/ Enter(t) \/ Leave(t)
  BY <1>1 DEF Peek, Enter, Leave, Types, ioVars
<1>2. CASE NativeReturns(t) \/ NativeDrain(t) \/ FlushListenerReturns(t)
  BY <1>2 DEF NativeReturns, NativeDrain, FlushListenerReturns, Types, ioVars
<1>3. CASE Spin(t)
  BY <1>3 DEF Spin, Types, ioVars
<1>4. ASSUME NEW k \in Kind, BeginIO(t, k)
      PROVE  /\ UNCHANGED <<fdVars, closeLock, cut, lockVars, monVars, loopVars, after>>
             /\ pc[t] \in Streams /\ pc'[t] \in Streams
             /\ \A s \in Thread \ {t} : pc'[s] = pc[s]
  BY <1>4 DEF BeginIO, Calls, Types, ioVars
<1> QED BY <1>1, <1>2, <1>3, <1>4 DEF IOStep, CountStep

(* Nothing but the places of the client matters of where the threads are. *)
Settled == PC \ {"addStart", "addWait", "interrupt", "join", "reset", "closeNative", "closeSuper"}

(* A step that leaves the listener, the loops and the client where they are keeps all but CallInv. *)
LEMMA Unmoved ==
  ASSUME IndInv, CallInv', UNCHANGED <<fd, MonitorThreadAlive, monVars, loopVars, cut>>,
         MonitorThreadLock' = MonitorThreadLock \/ ~ClientAt({"addWait"}),
         pc'[client] = pc[client] \/ {pc[client], pc'[client]} \subseteq Settled
  PROVE  IndInv'
<1> USE DEF monVars, loopVars, Settled
<1>1. \A S : S \subseteq {"addStart", "addWait", "interrupt", "join", "reset", "closeNative", "closeSuper"}
               => (ClientAt(S)' <=> ClientAt(S))
  BY DEF ClientAt
<1>2. /\ ClientAt({"addWait"})' <=> ClientAt({"addWait"})
      /\ ClientAt({"interrupt"})' <=> ClientAt({"interrupt"})
      /\ ClientAt({"join"})' <=> ClientAt({"join"})
      /\ ClientAt({"reset"})' <=> ClientAt({"reset"})
      /\ ClientAt({"addStart", "addWait"})' <=> ClientAt({"addStart", "addWait"})
      /\ ClientAt({"interrupt", "join", "reset"})' <=> ClientAt({"interrupt", "join", "reset"})
      /\ ClientAt({"interrupt", "join", "reset", "closeNative", "closeSuper"})'
           <=> ClientAt({"interrupt", "join", "reset", "closeNative", "closeSuper"})
      /\ ClientAt({"addStart", "addWait", "interrupt", "join", "reset"})'
           <=> ClientAt({"addStart", "addWait", "interrupt", "join", "reset"})
  BY <1>1
<1>3. LoopInv' /\ ClosingInv'
  BY <1>2 DEF IndInv, LoopInv, ClosingInv, IsAlive
<1>4. StartInv'
  BY <1>2 DEF IndInv, StartInv, IsAlive
<1>5. RemoveInv'
  BY <1>2 DEF IndInv, RemoveInv, IsAlive
<1>6. CutInv' /\ AliveInv'
  BY <1>2 DEF IndInv, CutInv, AliveInv, IsAlive
<1> QED BY <1>3, <1>4, <1>5, <1>6 DEF IndInv

(* Every other step but those of the monitor threads is the client's. *)
LEMMA ClientSteps ==
  ASSUME OneClient, Types, CallInv, NEW t \in Thread,
         \/ CloseStep(t) \/ ControlStep(t) \/ AddWait(t) \/ RemoveWait(t) \/ NotifyWait(t)
         \/ Close(t) \/ AddEventListener(t) \/ RemoveEventListener(t) \/ Notify(t)
         \/ CloseInterrupted(t) \/ JoinInterrupted(t)
  PROVE  t = client
<1>1. CASE Close(t) \/ AddEventListener(t) \/ RemoveEventListener(t) \/ Notify(t)
  BY <1>1, ClientIs DEF Close, AddEventListener, RemoveEventListener, Notify, Calls
<1>2. SUFFICES ASSUME pc[t] \notin Streams PROVE t = client
  BY <1>1 DEF At, Streams, InIO, CloseStep, CloseWait, CloseTest, NativeClose, CloseSuper,
       ControlStep, AddSet, AddStart, RemoveTest, InterruptEventLoop, Join, Reset,
       NotifyLock, NotifySet, NotifyUnlock, AddWait, RemoveWait, NotifyWait,
       CloseInterrupted, JoinInterrupted
<1> QED BY <1>2 DEF CallInv

(* The inductive invariant holds at the start. *)
LEMMA IndInit == OneClient /\ Init => IndInv
<1> SUFFICES ASSUME OneClient, Init PROVE IndInv
  OBVIOUS
<1> USE ClientIs DEF Init, ClientAt
<1>1. \A S \in SUBSET (PC \ {"idle"}) : ~ClientAt(S)
  OBVIOUS
<1>2. PICK m \in Monitor : monThread = m /\ master = <<m>>
                             /\ loop = [n \in Monitor |-> IF n = m THEN "running" ELSE "new"]
  OBVIOUS
<1>3. IsAlive(m) /\ \A n \in Monitor \ {m} : ~IsAlive(n)
  BY <1>2, PortAssumption DEF IsAlive
<1>4. CallInv
  BY DEF CallInv, Streams
<1>5. LoopInv /\ ClosingInv
  BY <1>2, <1>3 DEF LoopInv, ClosingInv, Listed
<1>6. StartInv /\ RemoveInv /\ CutInv /\ AliveInv
  BY <1>2, <1>3 DEF StartInv, RemoveInv, CutInv, AliveInv
<1> QED BY <1>4, <1>5, <1>6 DEF IndInv

(* The inductive invariant is kept by every step. *)
LEMMA IndNext == OneClient /\ Types /\ IndInv /\ [Next]_vars => IndInv'
<1> SUFFICES ASSUME OneClient, Types, IndInv, [Next]_vars PROVE IndInv'
  OBVIOUS
<1> USE DEF ioVars, fdVars, lockVars, monVars, loopVars, threadVars, vars, At, Goto
<1>c. /\ Control = {client} /\ client \in Thread /\ client \notin Monitor
      /\ ListenerCalls \subseteq {"io"} /\ Patient /\ None \notin Monitor
  BY ClientIs, PortAssumption
<1>i. CallInv /\ LoopInv /\ ClosingInv /\ StartInv /\ RemoveInv /\ CutInv /\ AliveInv
  BY DEF IndInv
<1>1. ASSUME NEW t \in Thread, IOStep(t) \/ Spin(t) \/ (\E k \in Kind : BeginIO(t, k))
      PROVE  IndInv'
  <2>1. /\ UNCHANGED <<fdVars, closeLock, cut, lockVars, monVars, loopVars, after>>
        /\ pc[t] \in Streams /\ pc'[t] \in Streams
        /\ \A s \in Thread \ {t} : pc'[s] = pc[s]
    BY <1>1, StreamStep
  <2>2. CallInv'
    BY <2>1, <1>c, <1>i DEF CallInv, ClientAt, Streams, InIO, InRemove
  <2>3. pc'[client] = pc[client] \/ {pc[client], pc'[client]} \subseteq Settled
    BY <2>1, <1>c DEF Streams, InIO, Settled, PC
  <2> QED BY <2>1, <2>2, <2>3, Unmoved
<1>2. ASSUME NEW t \in Thread,
             \/ Close(t) \/ AddEventListener(t) \/ RemoveEventListener(t) \/ Notify(t)
             \/ CloseWait(t) \/ CloseInterrupted(t) \/ RemoveWait(t)
             \/ NotifyWait(t) \/ NotifyLock(t) \/ NotifySet(t) \/ NotifyUnlock(t)
      PROVE  IndInv'
  <2>1. t = client
    BY <1>2, <1>i, ClientSteps DEF CloseStep, ControlStep
  <2>2. /\ UNCHANGED <<fd, MonitorThreadAlive, monVars, loopVars, cut, after>>
        /\ \A s \in Thread \ {client} : pc'[s] = pc[s]
    BY <1>2, <2>1 DEF Types, Close, AddEventListener, RemoveEventListener, Notify, CloseWait,
         CloseInterrupted, RemoveWait, NotifyWait, NotifyLock, NotifySet, NotifyUnlock
  <2>3. /\ {pc[client], pc'[client]} \subseteq Settled
        /\ pc[client] \in InRemove => pc'[client] \in InRemove
    BY <1>2, <2>1, <1>c DEF Types, Calls, Close, AddEventListener, RemoveEventListener, Notify,
         CloseWait, CloseInterrupted, RemoveWait, NotifyWait, NotifyLock, NotifySet, NotifyUnlock,
         Settled, PC, InClose, InRemove, InAdd, InNotify
  <2>4. CallInv'
    BY <2>2, <2>3, <1>c, <1>i DEF CallInv, ClientAt
  <2>5. ~ClientAt({"addWait"})
    BY <2>3 DEF ClientAt, Settled
  <2> QED BY <2>2, <2>3, <2>4, <2>5, Unmoved
<1>3. ASSUME NEW t \in Thread,
             CloseTest(t) \/ NativeClose(t) \/ CloseSuper(t) \/ AddSet(t) \/ AddStart(t) \/ AddWait(t)
             \/ RemoveTest(t) \/ InterruptEventLoop(t) \/ Join(t) \/ JoinInterrupted(t) \/ Reset(t)
      PROVE  IndInv'
  <2>1. t = client
    BY <1>3, <1>i, ClientSteps DEF CloseStep, ControlStep
  <2>2. CallInv'
    <3>1. \A s \in Thread \ {client} : pc'[s] = pc[s] /\ after'[s] = after[s]
      BY <1>3, <2>1 DEF Types, CloseTest, NativeClose, CloseSuper, AddSet, AddStart, AddWait,
           RemoveTest, InterruptEventLoop, Join, JoinInterrupted, Reset, Return, Throw
    <3>2. after'[client] = "closeNative" => pc'[client] \in InRemove
      BY <1>3, <2>1, <1>c, <1>i DEF Types, CallInv, ClientAt, InRemove, CloseTest, NativeClose,
           CloseSuper, AddSet, AddStart, AddWait, RemoveTest, InterruptEventLoop, Join,
           JoinInterrupted, Reset, Return, Throw
    <3> QED BY <3>1, <3>2, <1>i DEF CallInv, ClientAt
  <2> USE <1>c, <1>i, <2>1 DEF Types, ClientAt, IsAlive, Listed
  <2>3. CASE CloseTest(t)
    <3>1. /\ UNCHANGED <<fd, MonitorThreadLock, MonitorThreadAlive, monVars, loopVars, cut>>
          /\ pc[client] = "closeTest" /\ pc'[client] \in {"idle", "closeNative", "removeWait"}
          /\ pc'[client] = "closeNative" => monThreadisInterrupted
      BY <2>3 DEF CloseTest
    <3>2. LoopInv' /\ ClosingInv' /\ StartInv'
      BY <3>1 DEF LoopInv, ClosingInv, StartInv
    <3>3. RemoveInv' /\ CutInv' /\ AliveInv'
      BY <3>1 DEF RemoveInv, CutInv, AliveInv
    <3> QED BY <2>2, <3>2, <3>3 DEF IndInv
  <2>4. CASE NativeClose(t)
    <3>1. LoopInv' /\ ClosingInv' /\ StartInv'
      BY <2>4 DEF NativeClose, LoopInv, ClosingInv, StartInv
    <3>2. RemoveInv' /\ CutInv' /\ AliveInv'
      BY <2>4 DEF NativeClose, RemoveInv, CutInv, AliveInv
    <3> QED BY <2>2, <3>1, <3>2 DEF IndInv
  <2>5. CASE CloseSuper(t)
    <3>1. LoopInv' /\ StartInv'
      BY <2>5 DEF CloseSuper, LoopInv, StartInv
    <3>2. ClosingInv'
      BY <2>5 DEF CloseSuper, ClosingInv, RemoveInv
    <3>3. RemoveInv' /\ CutInv' /\ AliveInv'
      BY <2>5 DEF CloseSuper, RemoveInv, CutInv, AliveInv
    <3> QED BY <2>2, <3>1, <3>2, <3>3 DEF IndInv
  <2>6. CASE AddSet(t)
    <3>1. LoopInv' /\ ClosingInv' /\ RemoveInv'
      BY <2>6 DEF AddSet, LoopInv, ClosingInv, RemoveInv
    <3>2. StartInv' /\ CutInv' /\ AliveInv'
      BY <2>6 DEF AddSet, StartInv, CutInv, AliveInv
    <3> QED BY <2>2, <3>1, <3>2 DEF IndInv
  <2>7. CASE AddStart(t)
    <3>1. ~cut /\ listener /\ ~MonitorThreadAlive /\ \A m \in Monitor : ~IsAlive(m)
      BY <2>7 DEF AddStart, CutInv, StartInv, AliveInv
    <3>2. PICK m \in Monitor : monThread' = m /\ loop' = [loop EXCEPT ![m] = "started"]
      BY <2>7 DEF AddStart
    <3>3. IsAlive(m)' /\ \A n \in Monitor \ {m} : loop'[n] = loop[n] /\ ~IsAlive(n)'
      BY <3>1, <3>2, PortAssumption
    <3>4. LoopInv' /\ ClosingInv'
      BY <2>7, <3>1, <3>2, <3>3 DEF AddStart, LoopInv, ClosingInv
    <3>5. StartInv'
      BY <2>7, <3>1, <3>2, <3>3 DEF AddStart, StartInv
    <3>6. RemoveInv' /\ CutInv' /\ AliveInv'
      BY <2>7, <3>1 DEF AddStart, RemoveInv, CutInv, AliveInv
    <3> QED BY <2>2, <3>4, <3>5, <3>6 DEF IndInv
  <2>8. CASE AddWait(t)
    <3>1. LoopInv' /\ ClosingInv' /\ StartInv'
      BY <2>8 DEF AddWait, LoopInv, ClosingInv, StartInv
    <3>2. RemoveInv' /\ CutInv'
      BY <2>8 DEF AddWait, RemoveInv, CutInv
    <3>3. AliveInv'
      BY <2>8 DEF AddWait, StartInv, AliveInv
    <3> QED BY <2>2, <3>1, <3>2, <3>3 DEF IndInv
  <2>9. CASE RemoveTest(t)
    <3>1. CASE monThreadisInterrupted
      <4>1. pc'[client] \in {"idle", "closeNative"}
        BY <2>9, <3>1 DEF RemoveTest, Return
      <4>2. LoopInv' /\ ClosingInv' /\ StartInv'
        BY <2>9, <3>1, <4>1 DEF RemoveTest, LoopInv, ClosingInv, StartInv, AliveInv
      <4>3. RemoveInv' /\ CutInv' /\ AliveInv'
        BY <2>9, <3>1, <4>1 DEF RemoveTest, RemoveInv, CutInv, AliveInv
      <4> QED BY <2>2, <4>2, <4>3 DEF IndInv
    <3>2. CASE ~monThreadisInterrupted
      <4>1. ~cut /\ MonitorThreadAlive /\ IsAlive(monThread)
        BY <2>9, <3>2 DEF RemoveTest, CutInv, AliveInv
      <4>2. monThreadisInterrupted' /\ pc' = [pc EXCEPT ![client] = "interrupt"]
        BY <2>9, <3>2, <4>1 DEF RemoveTest
      <4>3. LoopInv'
        <5>1. UNCHANGED <<loop, master, monThread, cut>>
          BY <2>9, <3>2 DEF RemoveTest
        <5> QED BY <5>1 DEF LoopInv
      <4>4. StartInv'
        BY <2>9, <4>1, <4>2 DEF RemoveTest, StartInv
      <4>5. ClosingInv'
        BY <2>9, <4>1, <4>2 DEF RemoveTest, ClosingInv
      <4>6. RemoveInv' /\ CutInv' /\ AliveInv'
        <5>1. loop[monThread] \in {"running", "callback"} /\ ~closing[monThread]
          BY <2>9, <3>2, <4>1 DEF RemoveTest, StartInv, ClosingInv
        <5> QED BY <2>9, <3>2, <4>1, <4>2, <5>1 DEF RemoveTest, RemoveInv, CutInv, AliveInv
      <4> QED BY <2>2, <4>3, <4>4, <4>5, <4>6 DEF IndInv
    <3> QED BY <3>1, <3>2
  <2>10. CASE InterruptEventLoop(t)
    <3>1. IsAlive(monThread) /\ loop[monThread] \in Listed /\ ~cut /\ monThreadisInterrupted
            /\ MonitorThreadAlive
      BY <2>10 DEF InterruptEventLoop, RemoveInv, CutInv
    <3>2. master = <<monThread>>
      BY <3>1, PortAssumption DEF LoopInv
    <3>3. closing' = [closing EXCEPT ![monThread] = TRUE]
      <4>1. \A i \in DOMAIN master : master[i] = monThread
        BY <3>2
      <4> QED BY <2>10, <4>1 DEF InterruptEventLoop, Mine
    <3>4. pc' = [pc EXCEPT ![client] = "join"]
      BY <2>10 DEF InterruptEventLoop
    <3>5. LoopInv' /\ StartInv'
      BY <2>10, <3>4 DEF InterruptEventLoop, LoopInv, StartInv
    <3>6. ClosingInv'
      <4>1. \A m \in Monitor : loop[m] \in Listed => m = monThread
        BY <3>1 DEF LoopInv
      <4> QED BY <2>10, <3>1, <3>3, <4>1 DEF InterruptEventLoop, ClosingInv
    <3>7. RemoveInv' /\ CutInv' /\ AliveInv'
      BY <2>10, <3>1, <3>4 DEF InterruptEventLoop, RemoveInv, CutInv, AliveInv
    <3> QED BY <2>2, <3>5, <3>6, <3>7 DEF IndInv
  <2>11. CASE Join(t)
    <3>1. monThread # None /\ monThreadisInterrupted /\ MonitorThreadAlive /\ ~cut
      BY <2>11 DEF Join, RemoveInv, CutInv
    <3>2. ~IsAlive(monThread)
      BY <2>11, <3>1 DEF Join, StartInv, ClosingInv
    <3>3. \A m \in Monitor : ~IsAlive(m)
      BY <3>1, <3>2 DEF LoopInv
    <3>4. pc' = [pc EXCEPT ![client] = "reset"]
      BY <2>11, <3>1 DEF Join
    <3>5. LoopInv' /\ StartInv' /\ ClosingInv'
      BY <2>11, <3>3, <3>4 DEF Join, LoopInv, StartInv, ClosingInv
    <3>6. RemoveInv' /\ CutInv' /\ AliveInv'
      BY <2>11, <3>1, <3>3, <3>4 DEF Join, RemoveInv, CutInv, AliveInv
    <3> QED BY <2>2, <3>5, <3>6 DEF IndInv
  <2>12. CASE JoinInterrupted(t)
    <3>1. monThreadisInterrupted /\ MonitorThreadAlive
      BY <2>12 DEF JoinInterrupted, RemoveInv
    <3>2. pc' = [pc EXCEPT ![client] = after[client]] /\ after[client] \in {"idle", "closeNative"}
      BY <2>12 DEF JoinInterrupted, Return
    <3>3. LoopInv' /\ StartInv' /\ ClosingInv'
      BY <2>12, <3>2 DEF JoinInterrupted, LoopInv, StartInv, ClosingInv
    <3>4. RemoveInv' /\ CutInv' /\ AliveInv'
      BY <2>12, <3>1, <3>2 DEF JoinInterrupted, RemoveInv, CutInv, AliveInv
    <3> QED BY <2>2, <3>3, <3>4 DEF IndInv
  <2>13. CASE Reset(t)
    <3>1. ~cut /\ \A m \in Monitor : ~IsAlive(m)
      BY <2>13 DEF Reset, RemoveInv, CutInv
    <3>2. pc' = [pc EXCEPT ![client] = after[client]] /\ after[client] \in {"idle", "closeNative"}
      BY <2>13 DEF Reset, Return
    <3>3. LoopInv' /\ StartInv'
      BY <2>13, <3>1, <3>2 DEF Reset, LoopInv, StartInv
    <3>4. ClosingInv'
      BY <2>13, <3>1 DEF Reset, ClosingInv
    <3>5. RemoveInv' /\ CutInv' /\ AliveInv'
      BY <2>13, <3>1, <3>2 DEF Reset, RemoveInv, CutInv, AliveInv
    <3> QED BY <2>2, <3>3, <3>4, <3>5 DEF IndInv
  <2> QED BY <1>3, <2>3, <2>4, <2>5, <2>6, <2>7, <2>8, <2>9, <2>10, <2>11, <2>12, <2>13
<1>4. ASSUME NEW m \in Monitor, MonitorStep(m) \/ SendEvent(m)
      PROVE  IndInv'
  <2>1. CallInv'
    BY <1>4, <1>i DEF MonitorStep, SendEvent, MonitorRuns, LoopBegins, unlock_monitor_thread,
         ListenerReturns, LoopEnds, CallInv, ClientAt
  <2> USE <1>c, <1>i DEF Types, ClientAt, IsAlive, Listed
  <2>2. CASE MonitorRuns(m)
    <3>1. ClientAt({"addWait"}) /\ monThread = m /\ ~cut /\ MonitorThreadLock
      BY <2>2 DEF MonitorRuns, StartInv, CutInv
    <3>2. LoopInv'
      BY <2>2, <3>1 DEF MonitorRuns, LoopInv
    <3>3. ClosingInv'
      BY <2>2 DEF MonitorRuns, LoopInv, ClosingInv
    <3>4. StartInv'
      BY <2>2, <3>1, PortAssumption DEF MonitorRuns, StartInv
    <3>5. RemoveInv' /\ CutInv' /\ AliveInv'
      BY <2>2, <3>1 DEF MonitorRuns, StartInv, RemoveInv, CutInv, AliveInv
    <3> QED BY <2>1, <3>2, <3>3, <3>4, <3>5 DEF IndInv
  <2>3. CASE LoopBegins(m)
    <3>1. ClientAt({"addWait"}) /\ monThread = m /\ ~cut /\ MonitorThreadLock /\ ~monThreadisInterrupted
      BY <2>3 DEF LoopBegins, StartInv, CutInv
    <3>2. \A n \in Monitor \ {m} : ~IsAlive(n)
      BY <2>3 DEF LoopBegins, LoopInv
    <3>3. master = <<>>
      BY <2>3, <3>2 DEF LoopBegins, LoopInv
    <3>4. master' = <<m>>
      BY <2>3, <3>3 DEF LoopBegins
    <3>5. LoopInv'
      BY <2>3, <3>1, <3>2, <3>4 DEF LoopBegins, LoopInv
    <3>6. ClosingInv'
      BY <2>3, <3>1, <3>2 DEF LoopBegins, ClosingInv, get_java_var
    <3>7. StartInv'
      BY <2>3, <3>1, PortAssumption DEF LoopBegins, StartInv
    <3>8. RemoveInv' /\ CutInv' /\ AliveInv'
      BY <2>3, <3>1 DEF LoopBegins, StartInv, RemoveInv, CutInv, AliveInv
    <3> QED BY <2>1, <3>5, <3>6, <3>7, <3>8 DEF IndInv
  <2>4. CASE unlock_monitor_thread(m) \/ ListenerReturns(m) \/ SendEvent(m)
    <3>1. \A n \in Monitor : (loop'[n] \in Listed <=> loop[n] \in Listed) /\ (IsAlive(n)' <=> IsAlive(n))
      BY <2>4 DEF unlock_monitor_thread, ListenerReturns, SendEvent
    <3>2. LoopInv' /\ ClosingInv'
      BY <2>4, <3>1 DEF unlock_monitor_thread, ListenerReturns, SendEvent, LoopInv, ClosingInv
    <3>3. StartInv'
      BY <2>4, PortAssumption
      DEF unlock_monitor_thread, ListenerReturns, SendEvent, LoopInv, StartInv
    <3>4. RemoveInv'
      BY <2>4, <3>1, PortAssumption
      DEF unlock_monitor_thread, ListenerReturns, SendEvent, RemoveInv
    <3>5. CutInv' /\ AliveInv'
      BY <2>4, <3>1 DEF unlock_monitor_thread, ListenerReturns, SendEvent, CutInv, AliveInv
    <3> QED BY <2>1, <3>2, <3>3, <3>4, <3>5 DEF IndInv
  <2>5. CASE LoopEnds(m)
    <3>1. monThreadisInterrupted /\ ~ClientAt({"addStart", "addWait"}) /\ ~ClientAt({"interrupt"})
      <4>1. monThreadisInterrupted /\ (m = monThread \/ cut)
        BY <2>5 DEF LoopEnds, ClosingInv, LoopInv
      <4>2. ~ClientAt({"addStart"})
        BY <2>5, <4>1 DEF LoopEnds, CutInv, AliveInv, StartInv
      <4>3. ~ClientAt({"addWait"})
        BY <2>5, <4>1 DEF LoopEnds, CutInv, StartInv
      <4>4. ~ClientAt({"interrupt"})
        BY <2>5, <4>1 DEF LoopEnds, CutInv, RemoveInv
      <4> QED BY <4>1, <4>2, <4>3, <4>4
    <3>2. master' = <<>>
      BY <2>5, RemoveOnly DEF LoopEnds, LoopInv
    <3>3. \A n \in Monitor : ~IsAlive(n)'
      BY <2>5 DEF LoopEnds, LoopInv
    <3>4. LoopInv' /\ ClosingInv' /\ StartInv'
      BY <2>5, <3>1, <3>2, <3>3 DEF LoopEnds, LoopInv, ClosingInv, StartInv
    <3>5. RemoveInv' /\ CutInv' /\ AliveInv'
      BY <2>5, <3>1, <3>3 DEF LoopEnds, RemoveInv, CutInv, AliveInv
    <3> QED BY <2>1, <3>4, <3>5 DEF IndInv
  <2> QED BY <1>4, <2>2, <2>3, <2>4, <2>5 DEF MonitorStep
<1>5. CASE UNCHANGED vars
  BY <1>5, <1>i DEF IndInv, CallInv, LoopInv, ClosingInv, StartInv, RemoveInv, CutInv, AliveInv,
       ClientAt, IsAlive
<1> QED
  BY <1>1, <1>2, <1>3, <1>4, <1>5 DEF Next, CloseStep, ControlStep, SpinStep, ClientCall

(* The types hold in every reachable state. *)
LEMMA TypesAlways == Spec => []Types
BY TypesInit, TypesNext, PTL DEF Spec

(* With one client, the inductive invariant holds in every reachable state. *)
LEMMA Invariance == ASSUME OneClient PROVE Spec => []IndInv
<1>1. Init => IndInv
  BY IndInit
<1>2. Types /\ IndInv /\ [Next]_vars => IndInv'
  BY IndNext
<1> QED BY <1>1, <1>2, TypesAlways, PTL DEF Spec

-----------------------------------------------------------------------------
(* The calls that count in IOLocked, and the count *)
Inside == {t \in Thread : pc[t] \in InIO}
CountInv == IOLocked = Cardinality(Inside)

(* Nothing is counted at the start. *)
LEMMA CountInit == Init => CountInv
<1> SUFFICES ASSUME Init PROVE CountInv
  OBVIOUS
<1>1. Inside = {}
  BY DEF Init, Inside, InIO
<1> QED BY <1>1, FS_EmptySet DEF Init, CountInv

(* Only Enter and Leave change what is counted, and the count. *)
LEMMA CountNext ==
  ASSUME IsFiniteSet(Thread)
  PROVE  Types /\ CountInv /\ [Next]_vars => CountInv'
<1> SUFFICES ASSUME Types, CountInv, [Next]_vars PROVE CountInv'
  OBVIOUS
<1> USE DEF ioVars, fdVars, lockVars, monVars, loopVars, threadVars, vars, At, Goto
<1>1. IsFiniteSet(Inside)
  BY FS_Subset DEF Inside
<1>2. ASSUME NEW t \in Thread, Enter(t)
      PROVE  CountInv'
  <2>1. t \notin Inside /\ Inside' = Inside \union {t}
    BY <1>2 DEF Enter, Inside, InIO, Types
  <2> QED BY <1>1, <1>2, <2>1, FS_AddElement DEF Enter, CountInv
<1>3. ASSUME NEW t \in Thread, Leave(t)
      PROVE  CountInv'
  <2>1. t \in Inside /\ Inside' = Inside \ {t}
    BY <1>3 DEF Leave, Inside, InIO, Types
  <2> QED BY <1>1, <1>3, <2>1, FS_RemoveElement DEF Leave, CountInv
<1>4. ASSUME NEW t \in Thread,
             \/ Peek(t) \/ NativeReturns(t) \/ NativeDrain(t) \/ FlushListenerReturns(t)
             \/ SpinStep(t) \/ (\E k \in Kind : BeginIO(t, k))
      PROVE  UNCHANGED <<IOLocked, Inside>>
  <2>1. CASE Peek(t) \/ NativeReturns(t) \/ NativeDrain(t) \/ FlushListenerReturns(t)
    BY <2>1 DEF Peek, NativeReturns, NativeDrain, FlushListenerReturns, Inside, InIO, Types
  <2>2. CASE SpinStep(t)
    BY <2>2 DEF SpinStep, Spin, AddWait, RemoveWait, NotifyWait, Inside, InIO, Types
  <2>3. ASSUME NEW k \in Kind, BeginIO(t, k)
        PROVE  UNCHANGED <<IOLocked, Inside>>
    BY <2>3 DEF BeginIO, Calls, Inside, InIO, Types
  <2> QED BY <1>4, <2>1, <2>2, <2>3
<1>5. ASSUME NEW t \in Thread,
             \/ CloseStep(t) \/ CloseInterrupted(t)
             \/ Close(t) \/ AddEventListener(t) \/ RemoveEventListener(t) \/ Notify(t)
      PROVE  UNCHANGED <<IOLocked, Inside>>
  BY <1>5 DEF CloseStep, CloseWait, CloseTest, NativeClose, CloseSuper, CloseInterrupted, Calls,
       Close, AddEventListener, RemoveEventListener, Notify, Inside, InIO, Types
<1>6. ASSUME NEW t \in Thread, ControlStep(t) \/ JoinInterrupted(t)
      PROVE  UNCHANGED <<IOLocked, Inside>>
  BY <1>6 DEF ControlStep, AddSet, AddStart, RemoveTest, InterruptEventLoop, Join, Reset, Return,
       Throw, NotifyLock, NotifySet, NotifyUnlock, JoinInterrupted, Inside, InIO, Types
<1>7. ASSUME NEW m \in Monitor, MonitorStep(m) \/ SendEvent(m)
      PROVE  UNCHANGED <<IOLocked, Inside>>
  BY <1>7 DEF MonitorStep, MonitorRuns, LoopBegins, unlock_monitor_thread, ListenerReturns,
       LoopEnds, SendEvent, Inside
<1>8. CASE UNCHANGED <<IOLocked, Inside>>
  BY <1>8 DEF CountInv
<1>9. CASE UNCHANGED vars
  BY <1>9, <1>8 DEF Inside
<1> QED
  BY <1>2, <1>3, <1>4, <1>5, <1>6, <1>7, <1>8, <1>9 DEF Next, IOStep, CountStep, ClientCall

-----------------------------------------------------------------------------
(***************************************************************************)
(* IOLocked is the number of calls that are inside, whoever interrupts,    *)
(* closes or removes: close(), which waits for 0, waits for every one.     *)
(***************************************************************************)
THEOREM CallsAreCounted == ASSUME IsFiniteSet(Thread) PROVE Spec => []CountInv
<1>1. Types /\ CountInv /\ [Next]_vars => CountInv'
  BY CountNext
<1> QED BY <1>1, CountInit, TypesAlways, PTL DEF Spec

(* Every variable has its type; IOLocked stays between 0 and the threads. *)
THEOREM TypeCorrect == ASSUME IsFiniteSet(Thread) PROVE Spec => []TypeOK
<1>1. Types /\ CountInv => TypeOK
  <2> SUFFICES ASSUME Types, CountInv PROVE TypeOK
    OBVIOUS
  <2>1. IsFiniteSet(Inside) /\ Cardinality(Inside) <= Cardinality(Thread)
    BY FS_Subset DEF Inside
  <2>2. IOLocked \in 0 .. Cardinality(Thread)
    BY <2>1, FS_CardinalityType DEF CountInv
  <2> QED BY <2>2 DEF Types, TypeOK
<1> QED BY <1>1, TypesAlways, CallsAreCounted, PTL

(***************************************************************************)
(* close() leaves no event loop on the descriptor it has closed, also when *)
(* the client has been interrupted in an earlier remove or in this one.    *)
(***************************************************************************)
THEOREM NoLoopIsOrphaned == ASSUME OneClient PROVE Spec => []NoOrphanLoop
<1>1. Types /\ IndInv => NoOrphanLoop
  <2> SUFFICES ASSUME Types, IndInv, NEW t \in Thread, pc[t] = "closeSuper",
                      NEW m \in Monitor, IsAlive(m)
               PROVE  loop[m] \in {"running", "callback"} /\ closing[m]
    BY DEF NoOrphanLoop
  <2>1. t = client
    BY DEF IndInv, CallInv, Streams, InIO
  <2>2. monThreadisInterrupted
    BY <2>1 DEF IndInv, RemoveInv, ClientAt
  <2>3. loop[m] \in {"running", "callback"}
    BY <2>1 DEF IndInv, StartInv, ClientAt, IsAlive, Types
  <2> QED BY <2>1, <2>2, <2>3 DEF IndInv, ClosingInv, ClientAt, Listed
<1> QED BY <1>1, TypesAlways, Invariance, PTL

(***************************************************************************)
(* A listener of an open port has its monitor thread whenever the client   *)
(* is not about to change that, until a remove has been interrupted.       *)
(***************************************************************************)
THEOREM ListenersAreServed == ASSUME OneClient PROVE Spec => []ListenerServed
<1>1. Types /\ IndInv => ListenerServed
  <2> SUFFICES ASSUME Types, IndInv, listener, ~Reconfiguring, ~cut
               PROVE  /\ IsAlive(monThread) /\ ~closing[monThread]
                      /\ \A m \in Monitor : IsAlive(m) => m = monThread
    BY DEF ListenerServed
  <2>1. pc[client] \notin InAdd \union InRemove \union InClose
    BY ClientIs DEF Reconfiguring
  <2>2. MonitorThreadAlive
    BY <2>1 DEF IndInv, AliveInv, ClientAt, InAdd
  <2>3. IsAlive(monThread) /\ ~monThreadisInterrupted
    BY <2>1, <2>2 DEF IndInv, AliveInv, ClientAt, InRemove
  <2>4. loop[monThread] \in Listed
    BY <2>1, <2>3 DEF IndInv, StartInv, ClientAt, InAdd, IsAlive, Listed, Types
  <2>5. ~closing[monThread]
    BY <2>3, <2>4 DEF IndInv, ClosingInv, IsAlive, Types
  <2> QED BY <2>3, <2>5 DEF IndInv, LoopInv
<1> QED BY <1>1, TypesAlways, Invariance, PTL

-----------------------------------------------------------------------------
(***************************************************************************)
(* close() calls nativeClose once: a second close(2) would hit whatever    *)
(* file has been given the number since.  Any thread may close, remove, or *)
(* be interrupted, in a listener as well.                                  *)
(***************************************************************************)
ClosedOnce == \A t \in Thread : pc[t] = "closeNative" => descriptor = "open"

(* Between closeLock and the end of close() *)
Closing(t) == pc[t] \in {"closeTest", "closeNative", "closeSuper"} \/ after[t] = "closeNative"

CloseInv ==
  /\ \A t \in Thread : after[t] = "closeNative" => pc[t] \in InRemove
  /\ \A s, t \in Thread : Closing(s) /\ Closing(t) => s = t
  /\ \A t \in Thread : Closing(t) => closeLock /\ (pc[t] # "closeTest" => fd = "open")
  /\ descriptor = "closed" <=> fd = "zero" \/ \E t \in Thread : pc[t] = "closeSuper"

(* Nobody closes at the start. *)
LEMMA CloseInit == Init => CloseInv
BY DEF Init, CloseInv, Closing, InRemove

(* A step that begins no close and moves none beyond its remove keeps the invariant. *)
LEMMA NoCloseBegins ==
  ASSUME CloseInv, UNCHANGED <<fd, descriptor, closeLock>>,
         \A t \in Thread : after'[t] = "closeNative" => pc'[t] \in InRemove,
         \A t \in Thread : Closing(t)' => Closing(t) /\ (pc[t] = "closeTest" => pc'[t] = "closeTest"),
         \A t \in Thread : pc'[t] = "closeSuper" <=> pc[t] = "closeSuper"
  PROVE  CloseInv'
BY DEF CloseInv

(* A thread outside close() and removeEventListener moves and stays outside. *)
Outside == PC \ (InRemove \union {"closeTest", "closeNative", "closeSuper"})

(* Such a step keeps the invariant. *)
LEMMA OutsideStep ==
  ASSUME Types, CloseInv, UNCHANGED <<fd, descriptor, closeLock, after>>, NEW t \in Thread,
         pc[t] \in Outside, pc'[t] \in Outside \union {"removeWait"},
         \A s \in Thread \ {t} : pc'[s] = pc[s]
  PROVE  CloseInv'
<1>1. ~Closing(t) /\ ~Closing(t)' /\ after[t] # "closeNative"
  BY DEF CloseInv, Closing, Outside, InRemove
<1>2. \A s \in Thread : Closing(s)' => Closing(s) /\ pc'[s] = pc[s]
  BY <1>1 DEF Closing
<1>3. \A s \in Thread : after'[s] = "closeNative" => pc'[s] \in InRemove
  BY <1>1 DEF CloseInv
<1>4. \A s \in Thread : pc'[s] = "closeSuper" <=> pc[s] = "closeSuper"
  BY DEF Outside
<1> QED BY <1>2, <1>3, <1>4, NoCloseBegins

(* CloseInv is kept by every step. *)
LEMMA CloseNext == Types /\ CloseInv /\ [Next]_vars => CloseInv'
<1> SUFFICES ASSUME Types, CloseInv, [Next]_vars PROVE CloseInv'
  OBVIOUS
<1> USE DEF ioVars, fdVars, lockVars, monVars, loopVars, threadVars, vars, At, Goto
<1>1. ASSUME NEW t \in Thread, IOStep(t) \/ SpinStep(t)
      PROVE  CloseInv'
  <2>1. CASE Peek(t) \/ Enter(t) \/ Leave(t)
    BY <2>1, OutsideStep, Places DEF Peek, Enter, Leave, Types, Outside, InRemove
  <2>2. CASE NativeReturns(t) \/ NativeDrain(t) \/ FlushListenerReturns(t)
    BY <2>2, OutsideStep, Places
    DEF NativeReturns, NativeDrain, FlushListenerReturns, Types, Outside, InRemove
  <2>3. CASE Spin(t) \/ AddWait(t) \/ NotifyWait(t)
    BY <2>3, OutsideStep, Places DEF Spin, AddWait, NotifyWait, Types, Outside, InRemove
  <2>4. CASE RemoveWait(t)
    BY <2>4, NoCloseBegins DEF RemoveWait, Types, CloseInv, Closing, InRemove
  <2> QED BY <1>1, <2>1, <2>2, <2>3, <2>4 DEF IOStep, CountStep, SpinStep
<1>2. ASSUME NEW t \in Thread, ClientCall(t)
      PROVE  CloseInv'
  <2>1. ASSUME NEW k \in Kind, BeginIO(t, k)
        PROVE  CloseInv'
    BY <2>1, OutsideStep, Places DEF BeginIO, Calls, Types, Outside, InRemove
  <2>2. CASE Close(t) \/ AddEventListener(t) \/ RemoveEventListener(t) \/ Notify(t)
    BY <2>2, OutsideStep, Places
    DEF Close, AddEventListener, RemoveEventListener, Notify, Calls, Types, Outside, InRemove
  <2> QED BY <1>2, <2>1, <2>2 DEF ClientCall
<1>3. ASSUME NEW t \in Thread, CloseStep(t) \/ CloseInterrupted(t)
      PROVE  CloseInv'
  <2>1. CASE CloseInterrupted(t)
    BY <2>1, OutsideStep, Places DEF CloseInterrupted, Types, Outside, InRemove
  <2>2. CASE CloseWait(t)
    <3>1. CASE closeLock
      BY <2>2, <3>1, OutsideStep, Places DEF CloseWait, Types, Outside, InRemove
    <3>2. CASE ~closeLock
      <4>1. /\ pc[t] = "closeWait" /\ pc' = [pc EXCEPT ![t] = "closeTest"] /\ closeLock'
            /\ UNCHANGED <<fd, descriptor, after>>
        BY <2>2, <3>2 DEF CloseWait
      <4>2. \A s \in Thread : ~Closing(s)
        BY <3>2 DEF CloseInv
      <4>3. \A s \in Thread : Closing(s)' => s = t
        BY <4>1, <4>2 DEF Closing, Types
      <4>4. \A s \in Thread : after'[s] # "closeNative" /\ (pc'[s] = "closeSuper" <=> pc[s] = "closeSuper")
        BY <4>1, <4>2 DEF Closing, Types
      <4> QED BY <4>1, <4>3, <4>4 DEF CloseInv, Types
    <3> QED BY <3>1, <3>2
  <2>3. CASE CloseTest(t)
    <3>1. Closing(t) /\ pc[t] = "closeTest" /\ after[t] # "closeNative"
      BY <2>3 DEF CloseTest, Closing, CloseInv, InRemove
    <3>2. \A s \in Thread \ {t} : pc'[s] = pc[s] /\ after'[s] = after[s]
      BY <2>3 DEF CloseTest, Types
    <3>3. \A s \in Thread : Closing(s)' => Closing(s)
      BY <3>1, <3>2 DEF Closing
    <3>4. CASE fd = "zero"
      <4>1. pc' = [pc EXCEPT ![t] = "idle"] /\ UNCHANGED <<fd, descriptor, closeLock, after>>
        BY <2>3, <3>4 DEF CloseTest
      <4> QED BY <4>1, <3>1, <3>3, NoCloseBegins DEF Types, CloseInv, Closing, InRemove
    <3>5. CASE fd # "zero"
      <4>1. /\ fd' = "open" /\ UNCHANGED <<fd, descriptor, closeLock>>
            /\ pc'[t] \in {"closeNative", "removeWait"}
            /\ after'[t] = "closeNative" => pc'[t] \in InRemove
        BY <2>3, <3>1, <3>5 DEF CloseTest, Types, InRemove
      <4>2. \A s \in Thread : after'[s] = "closeNative" => pc'[s] \in InRemove
        BY <4>1, <3>2 DEF CloseInv
      <4>3. \A s \in Thread : pc'[s] = "closeSuper" <=> pc[s] = "closeSuper"
        BY <4>1, <3>1, <3>2
      <4> QED BY <4>1, <4>2, <4>3, <3>3 DEF CloseInv
    <3> QED BY <3>4, <3>5
  <2>4. CASE NativeClose(t)
    <3>1. Closing(t) /\ pc'[t] = "closeSuper" /\ descriptor' = "closed" /\ fd = "open"
      BY <2>4 DEF NativeClose, Closing, CloseInv, Types
    <3>2. \A s \in Thread : Closing(s)' => Closing(s)
      BY <2>4 DEF NativeClose, Closing, Types
    <3>3. UNCHANGED <<fd, closeLock>>
          /\ \A s \in Thread : after'[s] = "closeNative" => pc'[s] \in InRemove
      BY <2>4 DEF NativeClose, CloseInv, Types, InRemove
    <3> QED BY <3>1, <3>2, <3>3 DEF CloseInv
  <2>5. CASE CloseSuper(t)
    <3>1. Closing(t) /\ after[t] # "closeNative" /\ fd' = "zero" /\ descriptor' = "closed"
      BY <2>5 DEF CloseSuper, Closing, CloseInv, InRemove
    <3>2. \A s \in Thread : ~Closing(s)'
      BY <2>5, <3>1 DEF CloseSuper, Closing, CloseInv, Types
    <3>3. \A s \in Thread : after'[s] # "closeNative"
      BY <3>2 DEF Closing
    <3> QED BY <3>1, <3>2, <3>3 DEF CloseInv
  <2> QED BY <1>3, <2>1, <2>2, <2>3, <2>4, <2>5 DEF CloseStep
<1>4. ASSUME NEW t \in Thread, ControlStep(t) \/ JoinInterrupted(t)
      PROVE  CloseInv'
  <2>1. CASE AddSet(t) \/ AddStart(t) \/ NotifyLock(t) \/ NotifySet(t) \/ NotifyUnlock(t)
    BY <2>1, OutsideStep, Places
    DEF AddSet, AddStart, NotifyLock, NotifySet, NotifyUnlock, Types, Outside, InRemove
  <2>2. CASE RemoveTest(t) \/ InterruptEventLoop(t) \/ Join(t) \/ Reset(t) \/ JoinInterrupted(t)
    <3>1. /\ UNCHANGED <<fd, descriptor, closeLock>> /\ pc[t] \in InRemove
          /\ \/ pc'[t] \in InRemove /\ after'[t] = after[t]
             \/ pc'[t] = after[t] /\ after'[t] = "idle"
             \/ pc'[t] = "idle" /\ after'[t] = "idle"
          /\ \A s \in Thread \ {t} : pc'[s] = pc[s] /\ after'[s] = after[s]
      <4>1. CASE RemoveTest(t)
        BY <4>1 DEF RemoveTest, Return, Types, InRemove
      <4>2. CASE InterruptEventLoop(t)
        BY <4>2 DEF InterruptEventLoop, Types, InRemove
      <4>3. CASE Join(t)
        BY <4>3 DEF Join, Throw, Types, InRemove
      <4>4. CASE Reset(t) \/ JoinInterrupted(t)
        BY <4>4 DEF Reset, JoinInterrupted, Return, Types, InRemove
      <4> QED BY <2>2, <4>1, <4>2, <4>3, <4>4
    <3>2. \A s \in Thread : Closing(s)' => Closing(s) /\ (pc[s] = "closeTest" => pc'[s] = "closeTest")
      BY <3>1 DEF Closing, Types, InRemove
    <3>3. \A s \in Thread : pc'[s] = "closeSuper" <=> pc[s] = "closeSuper"
      BY <3>1 DEF Types, InRemove
    <3>4. \A s \in Thread : after'[s] = "closeNative" => pc'[s] \in InRemove
      BY <3>1 DEF CloseInv
    <3> QED BY <3>1, <3>2, <3>3, <3>4, NoCloseBegins
  <2> QED BY <1>4, <2>1, <2>2 DEF ControlStep
<1>5. ASSUME NEW m \in Monitor, MonitorStep(m) \/ SendEvent(m)
      PROVE  CloseInv'
  <2>1. UNCHANGED <<fd, descriptor, closeLock, pc, after>>
    BY <1>5 DEF MonitorStep, MonitorRuns, LoopBegins, unlock_monitor_thread, ListenerReturns,
         LoopEnds, SendEvent
  <2> QED BY <2>1 DEF CloseInv, Closing
<1>6. CASE UNCHANGED vars
  BY <1>6 DEF CloseInv, Closing
<1> QED BY <1>1, <1>2, <1>3, <1>4, <1>5, <1>6 DEF Next

(* nativeClose never meets a descriptor that is closed. *)
THEOREM DescriptorIsClosedOnce == Spec => []ClosedOnce
<1>1. Types /\ CloseInv => ClosedOnce
  BY DEF Types, CloseInv, ClosedOnce, Closing
<1>2. Types /\ CloseInv /\ [Next]_vars => CloseInv'
  BY CloseNext
<1> QED BY <1>1, <1>2, CloseInit, TypesAlways, PTL DEF Spec

-----------------------------------------------------------------------------
(***************************************************************************)
(* Whoever polls MonitorThreadLock waits for a monitor thread that starts, *)
(* or for a call that is about to clear it: the safety half of             *)
(* PollingEnds.                                                            *)
(***************************************************************************)
Starts(m) == loop[m] \in {"started", "entering", "listed"}
LockIsOwed ==
  MonitorThreadLock =>
    \/ \E m \in Monitor : Starts(m)
    \/ \E t \in Thread : pc[t] \in {"notifySet", "notifyUnlock"}

(***************************************************************************)
(* A close() that has taken closeLock goes on to the end: later ones,      *)
(* which return at once, leave no open port behind.  The safety half of    *)
(* CloseEnds.                                                              *)
(***************************************************************************)
CloseIsUnderWay == closeLock => fd = "zero" \/ \E t \in Thread : Closing(t)

(* The client that notifies has a monitor thread to tell. *)
LockInv ==
  /\ MonitorThreadLock =>
       (\E m \in Monitor : Starts(m)) \/ ClientAt({"notifySet", "notifyUnlock"})
  /\ ClientAt(InNotify) => monThread # None
  /\ closeLock => fd = "zero" \/ Closing(client)

(* LockInv holds at the start. *)
LEMMA LockInit == OneClient /\ Init => LockInv
BY ClientIs DEF Init, LockInv, ClientAt, InNotify

(* LockInv is kept by every step. *)
LEMMA LockNext ==
  ASSUME OneClient, CarefulNotify, Types, IndInv, CloseInv, LockInv, [Next]_vars
  PROVE  LockInv'
<1> USE DEF ioVars, fdVars, lockVars, monVars, loopVars, threadVars, vars, At, Goto
<1>c. /\ Control = {client} /\ client \in Thread /\ client \notin Monitor
      /\ ListenerCalls \subseteq {"io"}
  BY ClientIs
<1>i. CallInv
  BY DEF IndInv
<1>1. ASSUME NEW t \in Thread, IOStep(t) \/ Spin(t) \/ (\E k \in Kind : BeginIO(t, k))
      PROVE  LockInv'
  <2>1. /\ UNCHANGED <<fdVars, closeLock, cut, lockVars, monVars, loopVars, after>>
        /\ pc[t] \in Streams /\ pc'[t] \in Streams
        /\ \A s \in Thread \ {t} : pc'[s] = pc[s]
    BY <1>1, StreamStep
  <2> QED BY <2>1, <1>c DEF LockInv, Starts, Closing, ClientAt, Streams, InIO, InNotify
<1>2. ASSUME NEW t \in Thread,
             \/ Close(t) \/ AddEventListener(t) \/ RemoveEventListener(t) \/ Notify(t)
             \/ CloseInterrupted(t) \/ AddWait(t) \/ RemoveWait(t) \/ NotifyWait(t)
             \/ CloseStep(t)
      PROVE  LockInv'
  <2>1. t = client
    BY <1>2, <1>i, ClientSteps
  <2> USE <1>c, <2>1 DEF Types, ClientAt, Starts, Closing, InNotify
  <2>2. CASE Close(t) \/ AddEventListener(t) \/ RemoveEventListener(t) \/ Notify(t)
    BY <2>2 DEF Close, AddEventListener, RemoveEventListener, Notify, Calls, LockInv, CloseInv
  <2>3. CASE CloseInterrupted(t) \/ AddWait(t) \/ RemoveWait(t) \/ NotifyWait(t)
    BY <2>3 DEF CloseInterrupted, AddWait, RemoveWait, NotifyWait, LockInv
  <2>4. CASE CloseWait(t) \/ CloseTest(t)
    BY <2>4 DEF CloseWait, CloseTest, LockInv
  <2>5. CASE NativeClose(t) \/ CloseSuper(t)
    BY <2>5 DEF NativeClose, CloseSuper, LockInv
  <2> QED BY <1>2, <2>2, <2>3, <2>4, <2>5 DEF CloseStep
<1>3. ASSUME NEW t \in Thread, ControlStep(t) \/ JoinInterrupted(t)
      PROVE  LockInv'
  <2>1. t = client
    BY <1>3, <1>i, ClientSteps
  <2> USE <1>c, <2>1 DEF Types, ClientAt, Starts, Closing, InNotify
  <2>2. CASE AddSet(t)
    BY <2>2 DEF AddSet, LockInv
  <2>3. CASE AddStart(t)
    BY <2>3 DEF AddStart, LockInv, CloseInv, InRemove
  <2>4. CASE RemoveTest(t)
    BY <2>4 DEF RemoveTest, Return, LockInv
  <2>5. CASE InterruptEventLoop(t)
    BY <2>5 DEF InterruptEventLoop, LockInv
  <2>6. CASE Join(t)
    <3>1. monThread # None
      BY <2>6 DEF Join, IndInv, RemoveInv
    <3> QED BY <2>6, <3>1 DEF Join, LockInv
  <2>7. CASE Reset(t) \/ JoinInterrupted(t)
    BY <2>7 DEF Reset, JoinInterrupted, Return, LockInv
  <2>8. CASE NotifyLock(t) \/ NotifySet(t) \/ NotifyUnlock(t)
    BY <2>8 DEF NotifyLock, NotifySet, NotifyUnlock, LockInv
  <2> QED BY <1>3, <2>2, <2>3, <2>4, <2>5, <2>6, <2>7, <2>8 DEF ControlStep
<1>4. ASSUME NEW m \in Monitor, MonitorStep(m) \/ SendEvent(m)
      PROVE  LockInv'
  <2>1. UNCHANGED <<fd, closeLock, monThread, pc, after>>
    BY <1>4 DEF MonitorStep, MonitorRuns, LoopBegins, unlock_monitor_thread, ListenerReturns,
         LoopEnds, SendEvent
  <2>2. MonitorThreadLock' => MonitorThreadLock /\ \A n \in Monitor : Starts(n) => Starts(n)'
    BY <1>4 DEF MonitorStep, MonitorRuns, LoopBegins, unlock_monitor_thread, ListenerReturns,
         LoopEnds, SendEvent, Starts, Types
  <2> QED BY <2>1, <2>2 DEF LockInv, ClientAt, Closing
<1>5. CASE UNCHANGED vars
  BY <1>5 DEF LockInv, ClientAt, Closing, Starts
<1> QED BY <1>1, <1>2, <1>3, <1>4, <1>5 DEF Next, SpinStep, ClientCall

(* LockInv holds in every reachable state. *)
LEMMA LockAlways == ASSUME OneClient, CarefulNotify PROVE Spec => []LockInv
<1>1. Init => LockInv
  BY LockInit
<1>2. Types /\ IndInv /\ CloseInv /\ LockInv /\ [Next]_vars => LockInv'
  BY LockNext
<1>3. Types /\ CloseInv /\ [Next]_vars => CloseInv'
  BY CloseNext
<1> QED BY <1>1, <1>2, <1>3, CloseInit, TypesAlways, Invariance, PTL DEF Spec

(***************************************************************************)
(* Nobody polls for a lock that nobody clears.  A notifyOn... without a    *)
(* monitor thread would throw and leave it set: CarefulNotify.             *)
(***************************************************************************)
THEOREM LockIsGivenBack == ASSUME OneClient, CarefulNotify PROVE Spec => []LockIsOwed
<1>1. LockInv => LockIsOwed
  BY ClientIs DEF LockInv, LockIsOwed, ClientAt
<1> QED BY <1>1, LockAlways, PTL

(***************************************************************************)
(* closeLock on an open port belongs to a close() that still has to close  *)
(* it, also when the client has been interrupted.                          *)
(***************************************************************************)
THEOREM CloseIsNotLost == ASSUME OneClient, CarefulNotify PROVE Spec => []CloseIsUnderWay
<1>1. LockInv => CloseIsUnderWay
  BY ClientIs DEF LockInv, CloseIsUnderWay
<1> QED BY <1>1, LockAlways, PTL

=============================================================================
