-------------------------- MODULE EventLoop_proofs --------------------------
(***************************************************************************)
(* What EventLoop guarantees for every set of lines and counters, every    *)
(* length and threshold, and any number of waiting bytes: reads restore    *)
(* the flags, keep within their buffer, reach their threshold, stay below  *)
(* their limit and come to an end, and the listener has been told what the *)
(* loop has polled.                                                        *)
(***************************************************************************)
EXTENDS EventLoop, TLAPS

(***************************************************************************)
(* How far a read has come: before the flag is restored there is room for  *)
(* what is still wanted, and every round has read a byte, unless READ has  *)
(* come back with nothing.                                                 *)
(***************************************************************************)
ReadInv ==
  /\ read.limit <= read.length /\ read.bytes <= read.want
  /\ read.kind = "terminated" => read.want <= 1
  /\ read.pc = "idle" => read = NoRead
  /\ read.pc \in {"save", "select", "restore"} => read.total + read.want <= read.length
  /\ read.pc = "done" => read.total <= read.length
  /\ read.pc \in {"save", "select"} => read.want >= 1
  /\ read.pc = "save" => read.bytes = 0
  /\ read.pc = "select" => read.bytes < read.want /\ read.count >= 1
  /\ read.pc = "select" /\ ~read.empty => read.count <= read.bytes + 1

IndInv == TypeOK /\ ReadInv

(* The types, with those of a read and of what has been told apart *)
ReadType ==
  [pc : {"idle", "save", "select", "restore", "done"}, kind : {"array", "terminated"},
   length : 0 .. MaxLength, limit : 0 .. MaxLength, want : 0 .. MaxLength,
   bytes : 0 .. MaxLength, total : 0 .. MaxLength, count : 0 .. Iterations,
   flag : BOOLEAN, expired : BOOLEAN, failed : BOOLEAN, empty : BOOLEAN]

DeviceType ==
  /\ fifo \in 0 .. MaxFifo
  /\ line \in [Line -> BOOLEAN] /\ omflags \in [Line -> BOOLEAN]
  /\ icount \in serial_icounter_struct /\ osis \in serial_icounter_struct
  /\ answers \subseteq Request /\ has_tiocgicount \in BOOLEAN

FlagType ==
  /\ eventflags \in [{"data", "output"} -> BOOLEAN]
  /\ wanted \in [Event -> BOOLEAN]
  /\ loop \in {"select", "cgi", "tiocmget", "fionread", "listener"}
  /\ notify \in [pc : {"idle", "flag", "java"}, event : Event, enable : BOOLEAN]

ToldType ==
  /\ DOMAIN told = Line \union ErrorKind
  /\ \A l \in Line : told[l] \in {Unknown} \union {<<on>> : on \in BOOLEAN}
  /\ \A k \in ErrorKind : told[k] \in {Unknown} \union {<<n>> : n \in 0 .. Wrap - 1}

(***************************************************************************)
(* A read that wants no more bytes than it makes rounds, and whose rounds  *)
(* have all read a byte, has what it wants when they are over.             *)
(***************************************************************************)
WantedInv ==
  /\ read.pc \in {"restore", "done"} /\ ~read.failed /\ ~read.expired /\ ~read.empty
  /\ read.want <= Iterations
  => read.bytes = read.want

(***************************************************************************)
(* Where the flag of an event is to be found: in the read that has cleared *)
(* it, in the call that is setting it, or in both structures.              *)
(***************************************************************************)
FlagInv ==
  /\ notify.pc # "idle" /\ notify.event = "data" => read.pc = "idle"
  /\ \A e \in {"data", "output"} :
       IF e = "data" /\ read.pc \in {"select", "restore"} THEN read.flag = wanted[e]
       ELSE IF notify.pc = "java" /\ notify.event = e THEN eventflags[e] = notify.enable
       ELSE eventflags[e] = wanted[e]

(***************************************************************************)
(* Whatever the listener has been told of a line or a counter is its value *)
(* at the last poll (check_tiocmget_changes, check_cgi_count): the only    *)
(* news it can lack is what the next poll brings.                          *)
(***************************************************************************)
ToldIsPolled ==
  /\ \A l \in Line : told[l] \in {Unknown, <<omflags[l]>>}
  /\ \A k \in ErrorKind : told[k] \in {Unknown, <<osis[k]>>}

-----------------------------------------------------------------------------
(* The types of the constants, one by one *)
LEMMA ConstantTypes ==
  /\ MaxFifo \in Nat /\ Threshold \in Nat /\ Lengths \subseteq 1 .. MaxLength
  /\ Wrap \in Nat \ {0} /\ MaxLength \in Nat \ {0} /\ Iterations \in Nat \ {0}
  /\ "data" \notin Line \union ErrorKind /\ "output" \notin Line \union ErrorKind
BY EventLoopAssumption

(* An error counter stays below Wrap. *)
LEMMA CounterType ==
  ASSUME NEW n \in Nat
  PROVE  n % Wrap \in 0 .. Wrap - 1
BY EventLoopAssumption

(* What a read may ask for: at least a byte, and no more than its length. *)
LEMMA MinimumBounds ==
  ASSUME fifo \in Nat, NEW length \in 1 .. MaxLength
  PROVE  Minimum(length) \in 1 .. length
BY EventLoopAssumption DEF Minimum, Least, nativeavailable

(* The type invariant is the types of the parts. *)
LEMMA TypeParts == TypeOK <=> DeviceType /\ FlagType /\ ToldType /\ read \in ReadType
BY DEF TypeOK, DeviceType, FlagType, ToldType, ReadType

(* A read with these fields *)
Read(at, kind, length, limit, want, bytes, total, count, flag, expired, failed, empty) ==
  [pc |-> at, kind |-> kind, length |-> length, limit |-> limit, want |-> want,
   bytes |-> bytes, total |-> total, count |-> count,
   flag |-> flag, expired |-> expired, failed |-> failed, empty |-> empty]

(* The fields of such a record, and its type *)
LEMMA ReadFields ==
  ASSUME read \in ReadType
  PROVE  /\ read = Read(read.pc, read.kind, read.length, read.limit, read.want, read.bytes,
                        read.total, read.count, read.flag, read.expired, read.failed, read.empty)
         /\ read.pc \in {"idle", "save", "select", "restore", "done"}
         /\ read.kind \in {"array", "terminated"}
         /\ read.length \in 0 .. MaxLength /\ read.limit \in 0 .. MaxLength
         /\ read.want \in 0 .. MaxLength /\ read.bytes \in 0 .. MaxLength
         /\ read.total \in 0 .. MaxLength /\ read.count \in 0 .. Iterations
         /\ read.flag \in BOOLEAN /\ read.expired \in BOOLEAN /\ read.failed \in BOOLEAN
         /\ read.empty \in BOOLEAN
BY DEF ReadType, Read

(* The invariant holds before the loop begins. *)
LEMMA InitInv == Init => IndInv
<1> SUFFICES ASSUME Init PROVE IndInv
  OBVIOUS
<1> USE EventLoopAssumption
<1>1. NoRead.pc = "idle" /\ NoRead.kind = "array" /\ NoRead.bytes = 0 /\ NoRead.want = 0
        /\ NoRead.limit = 0 /\ NoRead.length = 0
  BY DEF NoRead
<1>2. TypeOK
  BY DEF Init, TypeOK, NoRead, NoNotify, serial_icounter_struct, driver_has_tiocgicount, Event, Unknown
<1>3. ReadInv
  BY <1>1 DEF Init, ReadInv
<1>4. QED
  BY <1>2, <1>3 DEF IndInv

(* A poll tells the listener values of the right type, or what it knew before. *)
LEMMA ToldAfterPoll ==
  ASSUME DeviceType, ToldType, DOMAIN told' = DOMAIN told,
         \A l \in Line : told'[l] \in {told[l], Unknown, <<line[l]>>},
         \A k \in ErrorKind : told'[k] \in {told[k], Unknown, <<icount[k]>>}
  PROVE  ToldType'
<1>1. \A l \in Line : told'[l] \in {Unknown} \union {<<on>> : on \in BOOLEAN}
  <2> SUFFICES ASSUME NEW l \in Line
               PROVE  told'[l] \in {Unknown} \union {<<on>> : on \in BOOLEAN}
    OBVIOUS
  <2>1. line[l] \in BOOLEAN
    BY DEF DeviceType
  <2>2. told[l] \in {Unknown} \union {<<on>> : on \in BOOLEAN}
    BY DEF ToldType
  <2> QED BY <2>1, <2>2
<1>2. \A k \in ErrorKind : told'[k] \in {Unknown} \union {<<n>> : n \in 0 .. Wrap - 1}
  <2> SUFFICES ASSUME NEW k \in ErrorKind
               PROVE  told'[k] \in {Unknown} \union {<<n>> : n \in 0 .. Wrap - 1}
    OBVIOUS
  <2>1. icount[k] \in 0 .. Wrap - 1
    BY DEF DeviceType, serial_icounter_struct
  <2>2. told[k] \in {Unknown} \union {<<n>> : n \in 0 .. Wrap - 1}
    BY DEF ToldType
  <2> QED BY <2>1, <2>2
<1> QED BY <1>1, <1>2 DEF ToldType

(* Every step of the loop, of a read, of the client and of the line keeps it. *)
LEMMA NextInv == IndInv /\ [Next]_vars => IndInv'
<1> SUFFICES ASSUME DeviceType, FlagType, ToldType, read \in ReadType, ReadInv
             PROVE  [Next]_vars => IndInv'
  BY TypeParts DEF IndInv
<1>a. SUFFICES [Next]_vars =>
                 DeviceType' /\ FlagType' /\ ToldType' /\ (read \in ReadType)' /\ ReadInv'
  BY TypeParts, PTL DEF IndInv
<1>0. DeviceType /\ FlagType /\ ToldType /\ read \in ReadType /\ ReadInv
  OBVIOUS
<1> USE DEF deviceVars, pollVars, vars, LoopGoto
<1>1. CASE Receive \/ Unplug \/ (\E l \in Line : Toggle(l)) \/ ClearCommInput
  <2>1. DeviceType'
    <3>1. CASE Receive
      BY <3>1, ConstantTypes DEF Receive, DeviceType
    <3>2. ASSUME NEW l \in Line, Toggle(l) PROVE DeviceType'
      BY <3>2 DEF Toggle, DeviceType
    <3>3. CASE ClearCommInput
      BY <3>3, ConstantTypes DEF ClearCommInput, DeviceType
    <3>4. CASE Unplug
      BY <3>4 DEF Unplug, DeviceType
    <3> QED BY <1>1, <3>1, <3>2, <3>3, <3>4
  <2> QED BY <1>1, <2>1 DEF Receive, Unplug, Toggle, ClearCommInput, FlagType, ToldType, ReadInv
<1>2. ASSUME NEW k \in ErrorKind, CountError(k)
      PROVE  DeviceType' /\ FlagType' /\ ToldType' /\ (read \in ReadType)' /\ ReadInv'
  <2>1. icount[k] \in Nat
    BY DEF DeviceType, serial_icounter_struct
  <2>2. (icount[k] + 1) % Wrap \in 0 .. Wrap - 1
    BY <2>1, CounterType
  <2>3. icount' \in serial_icounter_struct
    BY <1>2, <2>2 DEF CountError, DeviceType, serial_icounter_struct
  <2>4. DeviceType'
    BY <1>2, <2>3 DEF CountError, DeviceType
  <2> QED BY <1>2, <2>4 DEF CountError, FlagType, ToldType, ReadInv
<1>3. CASE LoopStep
  <2> USE <1>3 DEF LoopStep, CheckLineStatusRegister, CheckCgiCount, CheckTiocmgetChanges, TiocmgetFails,
                   ReportData, ListenerReturns
  <2>1. DeviceType' /\ FlagType'
    BY DEF DeviceType, FlagType
  <2>2. ToldType'
    <3>1. DOMAIN told' = DOMAIN told
      BY DEF ToldType
    <3>2. \A l \in Line : told'[l] \in {told[l], Unknown, <<line[l]>>}
      BY EventLoopAssumption DEF ToldType, Sent
    <3>3. \A k \in ErrorKind : told'[k] \in {told[k], Unknown, <<icount[k]>>}
      BY EventLoopAssumption DEF ToldType, Sent
    <3> QED BY <3>1, <3>2, <3>3, ToldAfterPoll
  <2>3. (read \in ReadType)' /\ ReadInv'
    BY DEF ReadInv
  <2> QED BY <2>1, <2>2, <2>3
<1>4. CASE NotifyStep \/ \E e \in Switched, enable \in BOOLEAN : NotifyOn(e, enable)
  <2>1. FlagType'
    <3>1. CASE NativeSetEventFlag
      BY <3>1 DEF NativeSetEventFlag, FlagType
    <3>2. CASE NotifyReturns
      BY <3>2 DEF NotifyReturns, NoNotify, FlagType, Event
    <3>3. ASSUME NEW e \in Switched, NEW enable \in BOOLEAN, NotifyOn(e, enable)
          PROVE  FlagType'
      BY <3>3, EventLoopAssumption DEF NotifyOn, FlagType
    <3> QED BY <1>4, <3>1, <3>2, <3>3 DEF NotifyStep
  <2> QED BY <1>4, <2>1 DEF NotifyStep, NativeSetEventFlag, NotifyReturns, NotifyOn,
                            DeviceType, ToldType, ReadInv
<1>5. ASSUME NEW length \in Lengths, ReadBegins(length) \/ TerminatedReadBegins(length)
      PROVE  DeviceType' /\ FlagType' /\ ToldType' /\ (read \in ReadType)' /\ ReadInv'
  <2>0. length \in 1 .. MaxLength
    BY ConstantTypes
  <2>1. Minimum(length) \in 1 .. length
    BY <2>0, MinimumBounds DEF DeviceType
  <2>2. PICK kind \in {"array", "terminated"}, want \in 1 .. length :
          /\ Begins(kind, length, want)
          /\ kind = "terminated" => want = 1
    <3>1. CASE ReadBegins(length)
      BY <2>1, <3>1 DEF ReadBegins
    <3>2. CASE TerminatedReadBegins(length)
      BY <2>0, <3>2 DEF TerminatedReadBegins
    <3> QED BY <1>5, <3>1, <3>2
  <2>3. read' = Read("save", kind, length, Minimum(length), want, 0, 0, 0, FALSE, FALSE, FALSE, FALSE)
    BY <2>2 DEF Begins, NoRead, Read
  <2>4. read' \in ReadType
    BY <2>0, <2>1, <2>3, ConstantTypes DEF ReadType, Read
  <2>5. ReadInv'
    BY <2>0, <2>1, <2>2, <2>3 DEF ReadInv, Read
  <2> QED BY <2>2, <2>4, <2>5 DEF Begins, DeviceType, FlagType, ToldType
<1>6. CASE SaveFlag
  <2>1. FlagType' /\ eventflags["data"] \in BOOLEAN
    BY <1>6 DEF SaveFlag, FlagType
  <2>2. read' = Read("select", read.kind, read.length, read.limit, read.want, read.bytes,
                     read.total, 1, eventflags["data"], read.expired, read.failed, read.empty)
    BY <1>6 DEF SaveFlag, ReadType, Read
  <2>3. read' \in ReadType
    BY <2>1, <2>2, ReadFields, ConstantTypes DEF ReadType, Read
  <2>4. ReadInv'
    BY <1>6, <2>2, ReadFields DEF SaveFlag, ReadInv, Read
  <2> QED BY <1>6, <2>1, <2>3, <2>4 DEF SaveFlag, DeviceType, ToldType
<1>7. CASE ReadBytes
  <2>1. PICK n \in 1 .. read.want :
          /\ n >= read.bytes + 1
          /\ fifo' \in 0 .. fifo
          /\ read' = AfterRound(n)
    <3>1. Least(read.want - read.bytes, fifo) \in 1 .. fifo
            /\ Least(read.want - read.bytes, fifo) <= read.want - read.bytes
      BY <1>7, ReadFields DEF ReadBytes, ReadInv, DeviceType, Least
    <3> QED BY <1>7, <3>1, ReadFields DEF ReadBytes, DeviceType
  <2>2. read' \in ReadType /\ ReadInv'
    <3>1. CASE n < read.want /\ read.count < Iterations
      <4>1. read' = Read(read.pc, read.kind, read.length, read.limit, read.want, n,
                         read.total, read.count + 1, read.flag, read.expired, read.failed, read.empty)
        BY <2>1, <3>1 DEF AfterRound, ReadType, Read
      <4>2. read' \in ReadType
        BY <3>1, <4>1, ReadFields, ConstantTypes DEF ReadType, Read
      <4>3. ReadInv'
        BY <1>7, <2>1, <3>1, <4>1, ReadFields DEF ReadBytes, ReadInv, Read
      <4> QED BY <4>2, <4>3
    <3>2. CASE ~(n < read.want /\ read.count < Iterations)
      <4>1. read' = Read("restore", read.kind, read.length, read.limit, read.want, n,
                         read.total, 0, read.flag, read.expired, read.failed, read.empty)
        BY <2>1, <3>2 DEF AfterRound, ReadType, Read
      <4>2. read' \in ReadType
        BY <4>1, ReadFields, ConstantTypes DEF ReadType, Read
      <4>3. ReadInv'
        BY <1>7, <4>1, ReadFields DEF ReadBytes, ReadInv, Read
      <4> QED BY <4>2, <4>3
    <3> QED BY <3>1, <3>2
  <2>3. DeviceType'
    BY <1>7, <2>1, ConstantTypes DEF ReadBytes, DeviceType
  <2> QED BY <1>7, <2>2, <2>3 DEF ReadBytes, FlagType, ToldType
<1>8. CASE ReadFails \/ ReadExpires
  <2>1. PICK expired \in BOOLEAN, failed \in BOOLEAN :
          read' = Read("restore", read.kind, read.length, read.limit, read.want, read.bytes,
                       read.total, 0, read.flag, expired, failed, read.empty)
    BY <1>8, ReadFields DEF ReadFails, ReadExpires, ReadType, Read
  <2>2. read' \in ReadType
    BY <2>1, ReadFields, ConstantTypes DEF ReadType, Read
  <2>3. ReadInv'
    BY <1>8, <2>1, ReadFields DEF ReadFails, ReadExpires, ReadInv, Read
  <2> QED BY <1>8, <2>2, <2>3 DEF ReadFails, ReadExpires, DeviceType, FlagType, ToldType
<1>9. CASE RestoreFlag
  <2>1. FlagType'
    BY <1>9, ReadFields DEF RestoreFlag, FlagType
  <2>2. PICK n \in 0 .. read.length : n = read.total + read.bytes
    BY <1>9, ReadFields DEF RestoreFlag, ReadInv
  <2>3. read' = Read("done", read.kind, read.length, read.limit, read.want, read.bytes,
                     n, read.count, FALSE, read.expired, read.failed, read.empty)
    BY <1>9, <2>2 DEF RestoreFlag, ReadType, Read
  <2>4. read' \in ReadType
    BY <2>3, ReadFields, ConstantTypes DEF ReadType, Read
  <2>5. ReadInv'
    BY <1>9, <2>2, <2>3, ReadFields DEF RestoreFlag, ReadInv, Read
  <2> QED BY <1>9, <2>1, <2>4, <2>5 DEF RestoreFlag, DeviceType, ToldType
<1>10. CASE NextByte
  <2>1. read' = Read("save", read.kind, read.length, read.limit, read.want, 0, read.total,
                     read.count, read.flag, FALSE, read.failed, FALSE)
    BY <1>10 DEF NextByte, ReadType, Read
  <2>2. read' \in ReadType
    BY <2>1, ReadFields, ConstantTypes DEF ReadType, Read
  <2>3. ReadInv'
    BY <1>10, <2>1, ReadFields DEF NextByte, GoesOn, ReadInv, Read
  <2> QED BY <1>10, <2>2, <2>3 DEF NextByte, DeviceType, FlagType, ToldType
<1>11. CASE ReadReturns
  <2>1. read' \in ReadType /\ ReadInv'
    BY <1>11, ConstantTypes DEF ReadReturns, NoRead, ReadType, ReadInv
  <2> QED BY <1>11, <2>1 DEF ReadReturns, DeviceType, FlagType, ToldType
<1>12. CASE ReadsNothing
  <2>1. CASE read.count < Iterations
    <3>1. read' = Read(read.pc, read.kind, read.length, read.limit, read.want, read.bytes,
                       read.total, read.count + 1, read.flag, read.expired, read.failed, TRUE)
      BY <1>12, <2>1, ReadFields DEF ReadsNothing, AfterRound, ReadInv, ReadType, Read
    <3>2. read' \in ReadType
      BY <2>1, <3>1, ReadFields, ConstantTypes DEF ReadType, Read
    <3>3. ReadInv'
      BY <1>12, <2>1, <3>1, ReadFields DEF ReadsNothing, ReadInv, Read
    <3> QED BY <1>12, <3>2, <3>3 DEF ReadsNothing, DeviceType, FlagType, ToldType
  <2>2. CASE ~(read.count < Iterations)
    <3>1. read' = Read("restore", read.kind, read.length, read.limit, read.want, read.bytes,
                       read.total, 0, read.flag, read.expired, read.failed, TRUE)
      BY <1>12, <2>2, ReadFields DEF ReadsNothing, AfterRound, ReadType, Read
    <3>2. read' \in ReadType
      BY <3>1, ReadFields, ConstantTypes DEF ReadType, Read
    <3>3. ReadInv'
      BY <1>12, <3>1, ReadFields DEF ReadsNothing, ReadInv, Read
    <3> QED BY <1>12, <3>2, <3>3 DEF ReadsNothing, DeviceType, FlagType, ToldType
  <2> QED BY <2>1, <2>2
<1>13. CASE UNCHANGED vars
  BY <1>13 DEF DeviceType, FlagType, ToldType, ReadInv
<1> QED
  BY <1>1, <1>2, <1>3, <1>4, <1>5, <1>6, <1>7, <1>8, <1>9, <1>10, <1>11, <1>12, <1>13
  DEF Next, ReadStep, Device, Client

(* The invariant, for every instance of the constants *)
LEMMA Invariance == Spec => []IndInv
BY InitInv, NextInv, PTL DEF Spec

-----------------------------------------------------------------------------
(***************************************************************************)
(* A read that is over has what it wants, if there were rounds enough and  *)
(* each has read a byte.                                                   *)
(***************************************************************************)
LEMMA WantedInit == Init => WantedInv
BY DEF Init, WantedInv, NoRead

(* With rounds enough, no read gives up for want of a round. *)
LEMMA WantedNext == IndInv /\ WantedInv /\ [Next]_vars => WantedInv'
<1> SUFFICES ASSUME read \in ReadType, ReadInv, fifo \in 0 .. MaxFifo, WantedInv, [Next]_vars
             PROVE  WantedInv'
  BY TypeParts DEF IndInv, DeviceType
<1>1. CASE UNCHANGED read
  BY <1>1 DEF WantedInv
<1>2. ASSUME NEW length \in Lengths, ReadBegins(length) \/ TerminatedReadBegins(length)
      PROVE  WantedInv'
  BY <1>2 DEF ReadBegins, TerminatedReadBegins, Begins, NoRead, WantedInv
<1>3. CASE SaveFlag
  BY <1>3, ReadFields DEF SaveFlag, ReadType, WantedInv
<1>4. CASE ReadBytes
  <2>1. PICK n \in read.bytes + 1 .. read.want : read' = AfterRound(n)
    <3>1. Least(read.want - read.bytes, fifo) \in 1 .. read.want - read.bytes
      BY <1>4, ReadFields, ConstantTypes DEF ReadBytes, ReadInv, Least
    <3> QED BY <1>4, <3>1, ReadFields DEF ReadBytes
  <2>2. read'.want = read.want /\ read'.bytes = n /\ read'.empty = read.empty
    BY <2>1 DEF AfterRound, ReadType
  <2>3. ~read.empty /\ read.want <= Iterations /\ read'.pc \in {"restore", "done"} => n = read.want
    <3>1. SUFFICES ASSUME n < read.want, ~read.empty, read.want <= Iterations
                   PROVE  read'.pc = "select"
      BY <2>1, ReadFields
    <3>2. read.count < Iterations
      BY <1>4, <2>1, <3>1, ReadFields, ConstantTypes DEF ReadBytes, ReadInv
    <3> QED BY <1>4, <2>1, <3>1, <3>2 DEF ReadBytes, AfterRound, ReadType
  <2> QED BY <2>2, <2>3 DEF WantedInv
<1>5. CASE ReadFails \/ ReadExpires
  BY <1>5 DEF ReadFails, ReadExpires, ReadType, WantedInv
<1>6. CASE RestoreFlag
  BY <1>6 DEF RestoreFlag, ReadType, WantedInv
<1>7. CASE NextByte
  BY <1>7 DEF NextByte, ReadType, WantedInv
<1>8. CASE ReadReturns
  BY <1>8, ConstantTypes DEF ReadReturns, NoRead, WantedInv
<1>9. CASE ReadsNothing
  BY <1>9 DEF ReadsNothing, AfterRound, ReadType, WantedInv
<1> QED
  BY <1>1, <1>2, <1>3, <1>4, <1>5, <1>6, <1>7, <1>8, <1>9
  DEF Next, vars, LoopStep, NotifyStep, ReadStep, Device, Client, CheckLineStatusRegister,
      CheckCgiCount, CheckTiocmgetChanges, TiocmgetFails, ReportData, ListenerReturns, NotifyOn,
      NativeSetEventFlag, NotifyReturns, Receive, Unplug, Toggle, CountError, ClearCommInput

-----------------------------------------------------------------------------
(***************************************************************************)
(* The flag that a read has cleared is in the read until it is put back.   *)
(***************************************************************************)
LEMMA FlagInit == Init => FlagInv
BY DEF Init, FlagInv, NoRead, NoNotify, Event

(* A flag is restored, handed on or left alone by every step. *)
LEMMA FlagNext == ~Overlap /\ FlagType /\ read \in ReadType /\ FlagInv /\ [Next]_vars => FlagInv'
<1> SUFFICES ASSUME ~Overlap, FlagType, read \in ReadType, FlagInv, [Next]_vars
             PROVE  FlagInv'
  OBVIOUS
<1>1. CASE UNCHANGED <<eventflags, wanted, notify, read>>
  BY <1>1 DEF FlagInv
<1>2. ASSUME NEW e \in Switched, NEW enable \in BOOLEAN, NotifyOn(e, enable)
      PROVE  FlagInv'
  BY <1>2 DEF NotifyOn, FlagInv
<1>3. CASE NativeSetEventFlag
  BY <1>3 DEF NativeSetEventFlag, FlagInv, FlagType
<1>4. CASE NotifyReturns
  BY <1>4 DEF NotifyReturns, NoNotify, FlagInv, FlagType, Event
<1>5. ASSUME NEW length \in Lengths, ReadBegins(length) \/ TerminatedReadBegins(length)
      PROVE  FlagInv'
  BY <1>5 DEF ReadBegins, TerminatedReadBegins, Begins, NoRead, FlagInv
<1>6. CASE SaveFlag
  BY <1>6 DEF SaveFlag, FlagInv, FlagType, ReadType
<1>7. CASE ReadBytes \/ ReadsNothing
  <2>1. read'.pc \in {"select", "restore"} /\ read'.flag = read.flag
    BY <1>7 DEF ReadBytes, ReadsNothing, AfterRound, ReadType
  <2> QED BY <1>7, <2>1 DEF ReadBytes, ReadsNothing, FlagInv
<1>8. CASE ReadFails \/ ReadExpires
  BY <1>8 DEF ReadFails, ReadExpires, FlagInv, ReadType
<1>9. CASE RestoreFlag
  BY <1>9 DEF RestoreFlag, FlagInv, FlagType, ReadType
<1>10. CASE NextByte
  BY <1>10 DEF NextByte, FlagInv, ReadType
<1>11. CASE ReadReturns
  BY <1>11 DEF ReadReturns, NoRead, FlagInv
<1> QED
  BY <1>1, <1>2, <1>3, <1>4, <1>5, <1>6, <1>7, <1>8, <1>9, <1>10, <1>11
  DEF Next, vars, LoopStep, NotifyStep, ReadStep, Device, Client, CheckLineStatusRegister,
      CheckCgiCount, CheckTiocmgetChanges, TiocmgetFails, ReportData, ListenerReturns,
      Receive, Unplug, Toggle, CountError, ClearCommInput

-----------------------------------------------------------------------------
(* What has been told is what the loop has polled, and polls change both. *)
LEMMA ToldInit == Init => ToldIsPolled
BY DEF Init, ToldIsPolled

(* What is told is what was polled, after every step. *)
LEMMA ToldNext == ToldType /\ ToldIsPolled /\ [Next]_vars => ToldIsPolled'
<1> SUFFICES ASSUME ToldType, ToldIsPolled, [Next]_vars
             PROVE  ToldIsPolled'
  OBVIOUS
<1>1. CASE UNCHANGED <<told, omflags, osis>>
  BY <1>1 DEF ToldIsPolled
<1>2. CASE CheckCgiCount
  <2>1. CASE has_tiocgicount
    BY <1>2, <2>1, EventLoopAssumption DEF CheckCgiCount, Sent, ToldType, ToldIsPolled
  <2>2. CASE ~has_tiocgicount
    BY <1>2, <2>2 DEF CheckCgiCount, ToldIsPolled
  <2> QED BY <2>1, <2>2
<1>3. CASE CheckTiocmgetChanges
  BY <1>3, EventLoopAssumption DEF CheckTiocmgetChanges, Sent, ToldType, ToldIsPolled
<1> QED
  BY <1>1, <1>2, <1>3
  DEF Next, vars, deviceVars, pollVars, LoopStep, NotifyStep, ReadStep, Device, Client,
      CheckLineStatusRegister, TiocmgetFails, ReportData, ListenerReturns, NotifyOn,
      NativeSetEventFlag, NotifyReturns, ReadBegins, TerminatedReadBegins, Begins, SaveFlag, ReadBytes, ReadsNothing, ReadFails,
      ReadExpires, RestoreFlag, NextByte, ReadReturns, Receive, Unplug, Toggle, CountError, ClearCommInput

-----------------------------------------------------------------------------
(* Every variable has its type, in the loop and in every read beside it. *)
THEOREM TypeCorrect == Spec => []TypeOK
BY Invariance, PTL DEF IndInv

(* No read stores more than its length, however it is cut into rounds. *)
THEOREM BufferIsKept == Spec => []BufferKept
<1>1. IndInv => BufferKept
  <2> SUFFICES ASSUME read \in ReadType, ReadInv PROVE BufferKept
    BY TypeParts DEF IndInv
  <2>1. CASE read.pc = "idle"
    BY <2>1 DEF ReadInv, BufferKept, NoRead
  <2>2. CASE read.pc # "idle"
    BY <2>2, ReadFields DEF ReadInv, BufferKept
  <2> QED BY <2>1, <2>2
<1> QED BY <1>1, Invariance, PTL

(***************************************************************************)
(* However the bytes come, a read that neither fails nor times out has all *)
(* that it wants, if that is at most as many bytes as it makes rounds (20) *)
(* and READ has never come back with nothing: so far read_byte_array keeps *)
(* to the table at SerialImp.c:3397-3409, and no farther.                  *)
(***************************************************************************)
THEOREM ThresholdIsReached == Spec => []ThresholdKept
<1>1. WantedInv => ThresholdKept
  BY DEF WantedInv, ThresholdKept
<1> QED BY <1>1, WantedInit, WantedNext, Invariance, PTL DEF Spec

(***************************************************************************)
(* When notifyOnDataAvailable is not called beside a read, both structures *)
(* have the flag of the last call, whatever became of the reads.           *)
(***************************************************************************)
THEOREM FlagsAreRestored == ~Overlap /\ Spec => []FlagsAgree
<1> SUFFICES ASSUME ~Overlap PROVE Spec => []FlagsAgree
  OBVIOUS
<1>1. FlagType /\ FlagInv => FlagsAgree
  BY DEF FlagType, FlagInv, FlagsAgree
<1>2. IndInv => FlagType /\ read \in ReadType
  BY TypeParts DEF IndInv
<1>3. FlagType /\ read \in ReadType /\ FlagInv /\ [Next]_vars => FlagInv'
  BY FlagNext
<1> QED BY <1>1, <1>2, <1>3, Invariance, FlagInit, PTL DEF Spec

(***************************************************************************)
(* The listener never has a value that the loop has not polled since: with *)
(* fair polls, what it has been told comes to be current (ToldIsCurrent).  *)
(***************************************************************************)
THEOREM ToldWhatWasPolled == Spec => []ToldIsPolled
<1>1. IndInv => ToldType
  BY TypeParts DEF IndInv
<1> QED BY <1>1, Invariance, ToldInit, ToldNext, PTL DEF Spec

-----------------------------------------------------------------------------
(***************************************************************************)
(* readTerminatedArray returns at most as many bytes as the least number   *)
(* it has found at its beginning: the threshold, or what was available.    *)
(***************************************************************************)
LimitKept ==
  read.kind = "terminated" =>
    (IF read.pc = "done" THEN read.total ELSE read.total + read.bytes) <= read.limit

(* It reads one byte at a time, and only while there is room for it. *)
LimitInv ==
  read.kind = "terminated" =>
    /\ read.want = 1 /\ read.total <= read.limit
    /\ read.pc \in {"save", "select", "restore"} => read.total < read.limit

(***************************************************************************)
(* How many bytes a terminated read may still begin to read, and how many  *)
(* steps are left of the byte or of the array that is being read.          *)
(***************************************************************************)
BytesLeft ==
  IF read.kind = "array" THEN 0
  ELSE IF read.pc \in {"save", "select", "restore"} THEN read.limit - read.total - 1
  ELSE IF GoesOn THEN read.limit - read.total ELSE 0

StepsLeft ==
  CASE read.pc = "save"    -> Iterations + 3
    [] read.pc = "select"  -> Iterations - read.count + 3
    [] read.pc = "restore" -> 2
    [] read.pc = "done"    -> 1
    [] read.pc = "idle"    -> 0

(***************************************************************************)
(* No step turns a read back: whatever changes a read that is under way    *)
(* lowers the bytes that are left, or keeps them and lowers the steps.     *)
(***************************************************************************)
Advances ==
  /\ BytesLeft' \in Nat /\ StepsLeft' \in Nat
  /\ BytesLeft' < BytesLeft \/ (BytesLeft' = BytesLeft /\ StepsLeft' < StepsLeft)
ReadAdvances == [][read.pc # "idle" /\ read' # read => Advances]_vars

(* No read is under way at the start. *)
LEMMA LimitInit == Init => LimitInv
BY DEF Init, NoRead, LimitInv

(* What changes a read that is under way *)
LEMMA ReadChanges ==
  ASSUME [Next]_vars, read.pc # "idle", read' # read
  PROVE  \/ SaveFlag \/ ReadBytes \/ ReadsNothing \/ ReadFails \/ ReadExpires
         \/ RestoreFlag \/ NextByte \/ ReadReturns
BY DEF Next, vars, LoopStep, NotifyStep, ReadStep, Device, Client, CheckLineStatusRegister,
    CheckCgiCount, CheckTiocmgetChanges, TiocmgetFails, ReportData, ListenerReturns, NotifyOn,
    NativeSetEventFlag, NotifyReturns, Receive, Unplug, Toggle, CountError, ClearCommInput,
    ReadBegins, TerminatedReadBegins, Begins

(* A round of a read counts itself, or is the last one. *)
LEMMA Round ==
  ASSUME read \in ReadType, ReadInv, fifo \in Nat, ReadBytes \/ ReadsNothing
  PROVE  /\ read'.kind = read.kind /\ read'.limit = read.limit /\ read'.want = read.want
         /\ read'.total = read.total /\ read.pc = "select"
         /\ read'.bytes \in read.bytes .. read.want
         /\ \/ read'.pc = "restore"
            \/ read'.pc = "select" /\ read.count < Iterations /\ read'.count = read.count + 1
<1>1. CASE ReadBytes
  <2>1. Least(read.want - read.bytes, fifo) \in 1 .. read.want - read.bytes
    BY <1>1, ReadFields, ConstantTypes DEF ReadBytes, ReadInv, Least
  <2>2. PICK n \in read.bytes + 1 .. read.want : read' = AfterRound(n)
    BY <1>1, <2>1, ReadFields DEF ReadBytes
  <2>3. /\ read'.kind = read.kind /\ read'.limit = read.limit /\ read'.want = read.want
        /\ read'.total = read.total /\ read'.bytes = n /\ read.pc = "select"
    BY <1>1, <2>2 DEF ReadBytes, AfterRound, ReadType
  <2>4. \/ read'.pc = "restore"
        \/ read'.pc = "select" /\ read.count < Iterations /\ read'.count = read.count + 1
    BY <1>1, <2>2 DEF ReadBytes, AfterRound, ReadType
  <2> QED BY <2>3, <2>4, ReadFields
<1>2. CASE ReadsNothing
  BY <1>2, ReadFields DEF ReadsNothing, AfterRound, ReadInv, ReadType
<1> QED BY <1>1, <1>2

(* A step keeps LimitInv, and lowers what is left of the read that it moves. *)
LEMMA ReadMoves ==
  ASSUME read \in ReadType, ReadInv, fifo \in Nat, LimitInv, [Next]_vars,
         read.pc # "idle", read' # read
  PROVE  LimitInv' /\ Advances
<1> USE ReadFields, ConstantTypes
<1>1. CASE SaveFlag
  <2>1. /\ read.pc = "save" /\ read'.pc = "select" /\ read'.count = 1
        /\ read'.kind = read.kind /\ read'.limit = read.limit /\ read'.want = read.want
        /\ read'.total = read.total
    BY <1>1 DEF SaveFlag, ReadType
  <2>2. StepsLeft = Iterations + 3 /\ StepsLeft' = Iterations + 2
    BY <2>1 DEF StepsLeft
  <2> QED BY <2>1, <2>2 DEF LimitInv, Advances, BytesLeft
<1>2. CASE ReadBytes \/ ReadsNothing
  <2>1. StepsLeft = Iterations - read.count + 3
        /\ StepsLeft' = IF read'.pc = "restore" THEN 2 ELSE Iterations - read'.count + 3
    BY <1>2, Round DEF StepsLeft
  <2>2. StepsLeft' \in Nat /\ StepsLeft' < StepsLeft
    BY <1>2, <2>1, Round
  <2>3. LimitInv' /\ BytesLeft' \in Nat /\ BytesLeft' = BytesLeft
    BY <1>2, Round DEF LimitInv, BytesLeft
  <2> QED BY <2>2, <2>3 DEF Advances
<1>3. CASE ReadFails \/ ReadExpires
  <2>1. /\ read.pc = "select" /\ read'.pc = "restore"
        /\ read'.kind = read.kind /\ read'.limit = read.limit /\ read'.want = read.want
        /\ read'.total = read.total
    BY <1>3 DEF ReadFails, ReadExpires, ReadType
  <2>2. StepsLeft = Iterations - read.count + 3 /\ StepsLeft' = 2
    BY <2>1 DEF StepsLeft
  <2> QED BY <2>1, <2>2 DEF LimitInv, Advances, BytesLeft
<1>4. CASE RestoreFlag
  <2>1. /\ read.pc = "restore" /\ read'.pc = "done" /\ read'.failed = read.failed
        /\ read'.kind = read.kind /\ read'.limit = read.limit /\ read'.want = read.want
        /\ read'.total = read.total + read.bytes /\ read'.bytes = read.bytes
    BY <1>4 DEF RestoreFlag, ReadType
  <2>2. StepsLeft = 2 /\ StepsLeft' = 1
    BY <2>1 DEF StepsLeft
  <2>3. read.kind = "terminated" => read.bytes \in {0, 1} /\ read.total < read.limit
    BY <2>1 DEF LimitInv, ReadInv
  <2>4. LimitInv'
    BY <2>1, <2>3 DEF LimitInv
  <2>5. BytesLeft' \in Nat /\ BytesLeft' <= BytesLeft
    BY <2>1, <2>3 DEF BytesLeft, GoesOn
  <2> QED BY <2>2, <2>4, <2>5 DEF Advances, BytesLeft
<1>5. CASE NextByte
  <2>1. /\ read.pc = "done" /\ GoesOn /\ read'.pc = "save"
        /\ read'.kind = read.kind /\ read'.limit = read.limit /\ read'.want = read.want
        /\ read'.total = read.total
    BY <1>5 DEF NextByte, ReadType
  <2>2. StepsLeft' = Iterations + 3
    BY <2>1 DEF StepsLeft
  <2>3. BytesLeft = read.limit - read.total /\ BytesLeft' = read.limit - read.total - 1
          /\ read.total < read.limit
    BY <2>1 DEF BytesLeft, GoesOn
  <2> QED BY <2>1, <2>2, <2>3 DEF LimitInv, Advances
<1>6. CASE ReadReturns
  <2>1. read.pc = "done" /\ read'.pc = "idle" /\ read'.kind = "array"
    BY <1>6 DEF ReadReturns, NoRead
  <2>2. StepsLeft = 1 /\ StepsLeft' = 0 /\ BytesLeft' = 0
    BY <2>1 DEF StepsLeft, BytesLeft
  <2>3. BytesLeft \in Nat
    BY <2>1 DEF BytesLeft, GoesOn
  <2> QED BY <2>1, <2>2, <2>3 DEF LimitInv, Advances
<1> QED BY <1>1, <1>2, <1>3, <1>4, <1>5, <1>6, ReadChanges

(* LimitInv is kept by every step, the beginning of a read as well. *)
LEMMA LimitNext ==
  ASSUME read \in ReadType, ReadInv, fifo \in Nat, LimitInv, [Next]_vars
  PROVE  LimitInv'
<1>1. CASE read' = read
  BY <1>1 DEF LimitInv
<1>2. CASE read.pc # "idle" /\ read' # read
  BY <1>2, ReadMoves
<1>3. CASE read.pc = "idle" /\ read' # read
  <2>1. PICK length \in Lengths : ReadBegins(length) \/ TerminatedReadBegins(length)
    BY <1>3 DEF Next, vars, LoopStep, NotifyStep, ReadStep, Device, Client,
      CheckLineStatusRegister, CheckCgiCount, CheckTiocmgetChanges, TiocmgetFails, ReportData, ListenerReturns,
      NotifyOn, NativeSetEventFlag, NotifyReturns, Receive, Unplug, Toggle, CountError, ClearCommInput,
      SaveFlag, ReadBytes, ReadsNothing, ReadFails, ReadExpires, RestoreFlag, NextByte, ReadReturns
  <2>2. Minimum(length) \in 1 .. length
    BY MinimumBounds, ConstantTypes
  <2>3. CASE ReadBegins(length)
    BY <2>3 DEF ReadBegins, Begins, NoRead, LimitInv
  <2>4. CASE TerminatedReadBegins(length)
    <3>1. read'.want = 1 /\ read'.total = 0 /\ read'.limit = Minimum(length)
      BY <2>4 DEF TerminatedReadBegins, Begins, NoRead
    <3> QED BY <2>2, <3>1 DEF LimitInv
  <2> QED BY <2>1, <2>3, <2>4
<1> QED BY <1>1, <1>2, <1>3

(* LimitInv holds in every reachable state. *)
LEMMA LimitAlways == Spec => []LimitInv
<1>1. IndInv => read \in ReadType /\ ReadInv /\ fifo \in Nat
  BY TypeParts DEF IndInv, DeviceType
<1>2. IndInv /\ LimitInv /\ [Next]_vars => LimitInv'
  BY <1>1, LimitNext
<1> QED BY <1>2, LimitInit, Invariance, PTL DEF Spec

(* A terminated read returns no more bytes than it has found to be the least number. *)
THEOREM LimitIsKept == Spec => []LimitKept
<1>1. IndInv /\ LimitInv => LimitKept
  <2> SUFFICES ASSUME read \in ReadType, ReadInv, LimitInv, read.kind = "terminated" PROVE LimitKept
    BY TypeParts DEF IndInv, LimitKept
  <2>1. read.bytes <= 1 /\ (read.pc = "idle" => FALSE)
    BY ReadFields DEF ReadInv, LimitInv, NoRead
  <2> QED BY <2>1, ReadFields DEF LimitInv, LimitKept
<1> QED BY <1>1, Invariance, LimitAlways, PTL

(***************************************************************************)
(* A read that takes steps comes to its end, whatever the line, the loop   *)
(* and other calls do meanwhile: it has Iterations + 3 of them at most for *)
(* an array or a byte.  The safety half of ReadEnds.                       *)
(***************************************************************************)
THEOREM ReadsAdvance == Spec => ReadAdvances
<1>1. IndInv /\ LimitInv /\ [Next]_vars => [read.pc # "idle" /\ read' # read => Advances]_vars
  <2> SUFFICES ASSUME IndInv, LimitInv, [Next]_vars, read.pc # "idle", read' # read
               PROVE  Advances
    OBVIOUS
  <2>1. read \in ReadType /\ ReadInv /\ fifo \in Nat
    BY TypeParts DEF IndInv, DeviceType
  <2> QED BY <2>1, ReadMoves
<1> QED BY <1>1, Invariance, LimitAlways, PTL DEF Spec, ReadAdvances

=============================================================================
