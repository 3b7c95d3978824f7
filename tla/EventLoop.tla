----------------------------- MODULE EventLoop -----------------------------
(***************************************************************************)
(* The event loop of one port and a read beside it (SerialImp.c): the loop *)
(* polls the line, counts errors and looks for data; a read switches the   *)
(* DATA_AVAILABLE flag of the loop off for its duration and restores it;   *)
(* notifyOn... sets the flag in the C structure and in monThread.          *)
(***************************************************************************)
EXTENDS Naturals, FiniteSets

CONSTANTS
  Line,         \* the modem lines that may change
  ErrorKind,    \* the error counters: frame, overrun, parity, break
  Switched,     \* the events that notifyOn... switches on and off
  Beginning,    \* what a driver answers, and what a listener has asked for on it
  MaxFifo,      \* bound: bytes that wait to be read
  Wrap,         \* bound: an error counter counts modulo Wrap
  MaxLength,    \* bound: the length of a read
  Lengths,      \* the lengths that reads are made with
  Threshold,    \* the receive threshold, 0 when disabled
  HasTimeout,   \* the receive timeout is enabled
  Iterations,   \* rounds of the loop in read_byte_array: 20 in the code
  Kind,         \* readArray and readTerminatedArray
  Overlap       \* notifyOnDataAvailable may be called while a read is made

(* What the loop and the reads ask the driver *)
Request == {"TIOCSERGETLSR", "TIOCGICOUNT", "TIOCMGET", "FIONREAD"}

Event == Line \union ErrorKind \union {"data", "output"}

ASSUME EventLoopAssumption ==
  /\ Switched \subseteq Event
  /\ {"data", "output"} \intersect (Line \union ErrorKind) = {}
  /\ Line \intersect ErrorKind = {}
  /\ Beginning \subseteq [answers : SUBSET Request, asked : SUBSET Event]
  /\ {HasTimeout, Overlap} \subseteq BOOLEAN
  /\ {MaxFifo, Threshold} \subseteq Nat
  /\ {Wrap, MaxLength, Iterations} \subseteq Nat \ {0} /\ Lengths \subseteq 1 .. MaxLength
  /\ Kind \subseteq {"array", "terminated"}

VARIABLES
  fifo,        \* the number of bytes FIONREAD reports
  line,        \* the modem lines, as TIOCMGET reports them
  icount,      \* the error counters, as TIOCGICOUNT reports them
  answers,     \* the requests that do not fail
  eventflags,  \* the flags of the event_info_struct that the loop looks at
  wanted,      \* the flags of monThread, by event
  omflags,     \* the lines at the last poll
  osis,        \* the error counters at the last poll
  has_tiocgicount,   \* the driver has the error counters
  loop,        \* where the loop is
  notify,      \* the notifyOn... call that is being made
  read,        \* the read that is being made
  told         \* history: what the listener has been told

deviceVars == <<fifo, line, icount, answers>>
pollVars   == <<omflags, osis, has_tiocgicount>>
vars == <<deviceVars, eventflags, wanted, pollVars, loop, notify, read, told>>

(* The error counters of a device *)
serial_icounter_struct == [ErrorKind -> 0 .. Wrap - 1]

(* What the listener knows of a line or a counter: nothing, or one value *)
Unknown == <<>>

NoNotify == [pc |-> "idle", event |-> "data", enable |-> FALSE]
NoRead == [pc |-> "idle", kind |-> "array", length |-> 0, limit |-> 0, want |-> 0,
           bytes |-> 0, total |-> 0, count |-> 0, flag |-> FALSE, expired |-> FALSE, failed |-> FALSE,
           empty |-> FALSE]

TypeOK ==
  /\ fifo \in 0 .. MaxFifo
  /\ line \in [Line -> BOOLEAN] /\ omflags \in [Line -> BOOLEAN]
  /\ {icount, osis} \subseteq serial_icounter_struct
  /\ eventflags \in [{"data", "output"} -> BOOLEAN]
  /\ answers \subseteq Request /\ has_tiocgicount \in BOOLEAN
  /\ wanted \in [Event -> BOOLEAN]
  /\ loop \in {"select", "cgi", "tiocmget", "fionread", "listener"}
  /\ notify \in [pc : {"idle", "flag", "java"}, event : Event, enable : BOOLEAN]
  /\ read \in [pc : {"idle", "save", "select", "restore", "done"},
               kind : {"array", "terminated"},
               length : 0 .. MaxLength, limit : 0 .. MaxLength, want : 0 .. MaxLength,
               bytes : 0 .. MaxLength, total : 0 .. MaxLength, count : 0 .. Iterations,
               flag : BOOLEAN, expired : BOOLEAN, failed : BOOLEAN, empty : BOOLEAN]
  /\ DOMAIN told = Line \union ErrorKind
  /\ \A l \in Line : told[l] \in {Unknown} \union {<<on>> : on \in BOOLEAN}
  /\ \A k \in ErrorKind : told[k] \in {Unknown} \union {<<n>> : n \in 0 .. Wrap - 1}

(* Some drivers do not implement TIOCGICOUNT; the first counters are kept. *)
driver_has_tiocgicount ==
  /\ has_tiocgicount = ("TIOCGICOUNT" \in answers)
  /\ osis = icount

(***************************************************************************)
(* initialise_event_info_struct clears the flags; the listener has asked   *)
(* for some events since, and has been told of none yet.                   *)
(***************************************************************************)
Init ==
  /\ \E beginning \in Beginning :
       /\ answers = beginning.answers
       /\ eventflags = [e \in {"data", "output"} |-> e \in beginning.asked]
       /\ wanted = [e \in Event |-> e \in beginning.asked]
  /\ fifo \in 0 .. MaxFifo
  /\ line \in [Line -> BOOLEAN] /\ omflags = line
  /\ icount = [k \in ErrorKind |-> 0] /\ driver_has_tiocgicount
  /\ loop = "select"
  /\ notify = NoNotify
  /\ read = NoRead
  /\ told = [e \in Line \union ErrorKind |-> Unknown]

-----------------------------------------------------------------------------
(* The device *)

Receive ==
  /\ "FIONREAD" \in answers /\ fifo < MaxFifo
  /\ fifo' = fifo + 1
  /\ UNCHANGED <<line, icount, answers, eventflags, wanted, pollVars, loop, notify, read, told>>

Toggle(l) ==
  /\ "TIOCMGET" \in answers
  /\ line' = [line EXCEPT ![l] = ~@]
  /\ UNCHANGED <<fifo, icount, answers, eventflags, wanted, pollVars, loop, notify, read, told>>

(* Bound: fewer than Wrap errors between two polls *)
CountError(k) ==
  /\ "TIOCGICOUNT" \in answers /\ (icount[k] + 1) % Wrap # osis[k]
  /\ icount' = [icount EXCEPT ![k] = (@ + 1) % Wrap]
  /\ UNCHANGED <<fifo, line, answers, eventflags, wanted, pollVars, loop, notify, read, told>>

(* The device is unplugged: from now on every request fails. *)
Unplug ==
  /\ answers # {} /\ answers' = {}
  /\ UNCHANGED <<fifo, line, icount, eventflags, wanted, pollVars, loop, notify, read, told>>

-----------------------------------------------------------------------------
(***************************************************************************)
(* The loop.  An event that the listener has not asked for is dropped by   *)
(* sendEvent, and what the listener knows of it is out of date from then.  *)
(***************************************************************************)
LoopGoto(label) == loop' = label

(* What TIOCSERGETLSR answers: the loop asks at its beginning, keeps the *)
(* answer and does not use it, and asks again in each round. *)
has_line_status_register_access == "TIOCSERGETLSR" \in answers

(***************************************************************************)
(* select, and check_line_status_register: an error there ends             *)
(* report_serial_events.                                                   *)
(***************************************************************************)
CheckLineStatusRegister ==
  /\ loop = "select"
  /\ ~(eventflags["output"] /\ ~has_line_status_register_access)
  /\ LoopGoto("cgi")
  /\ UNCHANGED <<deviceVars, eventflags, wanted, pollVars, notify, read, told>>

(* What the listener knows of event e once the present value has been sent *)
Sent(e, value) == IF wanted[e] THEN <<value>> ELSE Unknown

(***************************************************************************)
(* check_cgi_count, if there are counters: one event for each error        *)
(* counted.  When TIOCGICOUNT fails, the round goes on without it.         *)
(***************************************************************************)
CheckCgiCount ==
  /\ loop = "cgi"
  /\ IF has_tiocgicount /\ "TIOCGICOUNT" \in answers
       THEN /\ told' = [e \in DOMAIN told |->
                         IF e \in ErrorKind /\ icount[e] # osis[e]
                           THEN Sent(e, icount[e]) ELSE told[e]]
            /\ osis' = icount
       ELSE UNCHANGED <<told, osis>>
  /\ LoopGoto("tiocmget")
  /\ UNCHANGED <<deviceVars, eventflags, wanted, omflags, has_tiocgicount, notify, read>>

(* Mutant: only a rising line is an event. *)
CheckTiocmgetRising ==
  /\ loop = "tiocmget"
  /\ "TIOCMGET" \in answers
  /\ told' = [e \in DOMAIN told |->
                IF e \in Line /\ line[e] /\ ~omflags[e] THEN Sent(e, line[e]) ELSE told[e]]
  /\ omflags' = line
  /\ LoopGoto("fionread")
  /\ UNCHANGED <<deviceVars, eventflags, wanted, osis, has_tiocgicount, notify, read>>

(* check_tiocmget_changes: one event for each line that differs ... *)
CheckTiocmgetChanges ==
  /\ loop = "tiocmget"
  /\ "TIOCMGET" \in answers
  /\ told' = [e \in DOMAIN told |->
                IF e \in Line /\ line[e] # omflags[e] THEN Sent(e, line[e]) ELSE told[e]]
  /\ omflags' = line
  /\ LoopGoto("fionread")
  /\ UNCHANGED <<deviceVars, eventflags, wanted, osis, has_tiocgicount, notify, read>>

(* ... or TIOCMGET fails, and the lines are left as they were. *)
TiocmgetFails ==
  /\ loop = "tiocmget" /\ "TIOCMGET" \notin answers
  /\ LoopGoto("fionread")
  /\ UNCHANGED <<deviceVars, eventflags, wanted, pollVars, notify, read, told>>

(* What FIONREAD answers, to the loop and to available() *)
nativeavailable == fifo

(* When FIONREAD fails, the loop looks at a variable that nobody has set. *)
port_has_changed_fionread ==
  IF "FIONREAD" \in answers THEN {nativeavailable # 0} ELSE BOOLEAN

(* The end of report_serial_events *)
ReportData ==
  /\ loop = "fionread"
  /\ \E changed \in port_has_changed_fionread :
       LoopGoto(IF changed /\ eventflags["data"] /\ wanted["data"] THEN "listener" ELSE "select")
  /\ UNCHANGED <<deviceVars, eventflags, wanted, pollVars, notify, read, told>>

(* The listener has been told of data; it may read, or leave that to others. *)
ListenerReturns ==
  /\ loop = "listener"
  /\ LoopGoto("select")
  /\ UNCHANGED <<deviceVars, eventflags, wanted, pollVars, notify, read, told>>

-----------------------------------------------------------------------------
(* notifyOn...(enable), which holds MonitorThreadLock *)

NotifyOn(e, enable) ==
  /\ notify.pc = "idle"
  /\ read.pc = "idle" \/ e # "data" \/ Overlap
  /\ notify' = [pc |-> "flag", event |-> e, enable |-> enable]
  /\ UNCHANGED <<deviceVars, eventflags, wanted, pollVars, loop, read, told>>

(* nativeSetEventFlag: the flag of the C structure *)
NativeSetEventFlag ==
  /\ notify.pc = "flag"
  /\ eventflags' = [e \in DOMAIN eventflags |->
                      IF e = notify.event THEN notify.enable ELSE eventflags[e]]
  /\ notify' = [notify EXCEPT !.pc = "java"]
  /\ UNCHANGED <<deviceVars, wanted, pollVars, loop, read, told>>

(* The flag of monThread follows, before MonitorThreadLock is given back. *)
NotifyReturns ==
  /\ notify.pc = "java"
  /\ wanted' = [wanted EXCEPT ![notify.event] = notify.enable]
  /\ notify' = NoNotify
  /\ UNCHANGED <<deviceVars, eventflags, pollVars, loop, read, told>>

-----------------------------------------------------------------------------
(***************************************************************************)
(* A read.  RXTXPort.read asks for as many bytes as there are, or for the  *)
(* threshold; readTerminatedArray reads byte by byte.                      *)
(***************************************************************************)
Least(a, b) == IF a < b THEN a ELSE b

(* Mutant: with a threshold, the length is ignored. *)
MinimumUncapped(length) ==
  IF Threshold # 0 THEN Threshold
  ELSE IF nativeavailable = 0 THEN 1 ELSE Least(length, nativeavailable)

Minimum(length) ==
  IF Threshold # 0 THEN Least(length, Threshold)
  ELSE IF nativeavailable = 0 THEN 1 ELSE Least(length, nativeavailable)

(* Without a threshold it asks for what is available, and fails if that fails. *)
Begins(kind, length, want) ==
  /\ read.pc = "idle" /\ notify.pc = "idle" /\ kind \in Kind
  /\ Threshold # 0 \/ "FIONREAD" \in answers
  /\ read' = [NoRead EXCEPT !.pc = "save", !.kind = kind, !.length = length,
                            !.limit = Minimum(length), !.want = want]
  /\ UNCHANGED <<deviceVars, eventflags, wanted, pollVars, loop, notify, told>>

ReadBegins(length) == Begins("array", length, Minimum(length))

(* The same least number of bytes is the most that a terminated read returns. *)
TerminatedReadBegins(length) == Begins("terminated", length, 1)

(* read_byte_array saves the flag and clears it. *)
SaveFlag ==
  /\ read.pc = "save"
  /\ eventflags' = [eventflags EXCEPT !["data"] = FALSE]
  /\ read' = [read EXCEPT !.pc = "select", !.count = 1, !.flag = eventflags["data"]]
  /\ UNCHANGED <<deviceVars, wanted, pollVars, loop, notify, told>>

(* Mutant: any data ends the read, whatever the threshold. *)
AfterRoundAnyData(bytes) ==
  IF bytes = 0 /\ read.count < Iterations
    THEN [read EXCEPT !.bytes = bytes, !.count = @ + 1]
    ELSE [read EXCEPT !.bytes = bytes, !.pc = "restore", !.count = 0]

(* The head of the loop: all that is wanted, or 20 rounds *)
AfterRound(bytes) ==
  IF bytes < read.want /\ read.count < Iterations
    THEN [read EXCEPT !.bytes = bytes, !.count = @ + 1]
    ELSE [read EXCEPT !.bytes = bytes, !.pc = "restore", !.count = 0]

(* select says that there is data, and READ takes it *)
ReadBytes ==
  /\ read.pc = "select" /\ fifo > 0
  /\ LET ret == Least(read.want - read.bytes, fifo) IN
       /\ fifo' = fifo - ret
       /\ read' = AfterRound(read.bytes + ret)
  /\ UNCHANGED <<line, icount, answers, eventflags, wanted, pollVars, loop, notify, told>>

(* READ may return nothing all the same, and uses up a round. *)
ReadsNothing ==
  /\ read.pc = "select"
  /\ read' = [AfterRound(read.bytes) EXCEPT !.empty = TRUE]
  /\ UNCHANGED <<deviceVars, eventflags, wanted, pollVars, loop, notify, told>>

(* select or READ fails *)
ReadFails ==
  /\ read.pc = "select"
  /\ read' = [read EXCEPT !.pc = "restore", !.count = 0, !.failed = TRUE]
  /\ UNCHANGED <<deviceVars, eventflags, wanted, pollVars, loop, notify, told>>

(* The time is up: select returns 0, and the next look at the clock ends the read. *)
ReadExpires ==
  /\ HasTimeout /\ read.pc = "select"
  /\ read' = [read EXCEPT !.pc = "restore", !.count = 0, !.expired = TRUE]
  /\ UNCHANGED <<deviceVars, eventflags, wanted, pollVars, loop, notify, told>>

(* Mutant: a read that fails does not restore the flag. *)
RestoreFlagOnSuccess ==
  /\ read.pc = "restore"
  /\ eventflags' = IF read.failed THEN eventflags
                   ELSE [eventflags EXCEPT !["data"] = read.flag]
  /\ read' = [read EXCEPT !.pc = "done", !.flag = FALSE, !.total = @ + read.bytes]
  /\ UNCHANGED <<deviceVars, wanted, pollVars, loop, notify, told>>

(* Every return of read_byte_array restores the flag. *)
RestoreFlag ==
  /\ read.pc = "restore"
  /\ eventflags' = [eventflags EXCEPT !["data"] = read.flag]
  /\ read' = [read EXCEPT !.pc = "done", !.flag = FALSE, !.total = @ + read.bytes]
  /\ UNCHANGED <<deviceVars, wanted, pollVars, loop, notify, told>>

(***************************************************************************)
(* readTerminatedArray goes on until the terminator, the length, an error  *)
(* or a timeout.  The mutant forgets the timeout.                          *)
(***************************************************************************)
GoesOnAfterTimeout == read.kind = "terminated" /\ read.total < read.limit /\ ~read.failed
GoesOn == read.kind = "terminated" /\ read.bytes > 0 /\ read.total < read.limit /\ ~read.failed
NextByte ==
  /\ read.pc = "done" /\ GoesOn
  /\ read' = [read EXCEPT !.pc = "save", !.bytes = 0, !.expired = FALSE, !.empty = FALSE]
  /\ UNCHANGED <<deviceVars, eventflags, wanted, pollVars, loop, notify, told>>

(* The read returns; a terminated one may have met its terminator. *)
ReadReturns ==
  /\ read.pc = "done" /\ (GoesOn => read.total > 1)
  /\ read' = NoRead
  /\ UNCHANGED <<deviceVars, eventflags, wanted, pollVars, loop, notify, told>>

(* nativeClearCommInput, when tcflush succeeds *)
ClearCommInput ==
  /\ fifo' = 0
  /\ UNCHANGED <<line, icount, answers, eventflags, wanted, pollVars, loop, notify, read, told>>

-----------------------------------------------------------------------------
LoopStep ==
  \/ CheckLineStatusRegister \/ CheckCgiCount \/ CheckTiocmgetChanges \/ TiocmgetFails
  \/ ReportData \/ ListenerReturns

NotifyStep == NativeSetEventFlag \/ NotifyReturns
ReadStep == SaveFlag \/ ReadBytes \/ ReadExpires \/ RestoreFlag
              \/ NextByte \/ ReadReturns

Device == Receive \/ Unplug \/ (\E l \in Line : Toggle(l)) \/ (\E k \in ErrorKind : CountError(k))
Client ==
  \/ \E e \in Switched, enable \in BOOLEAN : NotifyOn(e, enable)
  \/ \E length \in Lengths : ReadBegins(length) \/ TerminatedReadBegins(length)
  \/ ClearCommInput

Next == LoopStep \/ NotifyStep \/ ReadStep \/ ReadsNothing \/ ReadFails \/ Device \/ Client

Spec == Init /\ [][Next]_vars

(***************************************************************************)
(* The threads are scheduled, listeners return and timeouts pass.  The     *)
(* device need not send anything and clients need not call anything.       *)
(***************************************************************************)
FairSpec == Spec /\ WF_vars(LoopStep) /\ WF_vars(NotifyStep) /\ WF_vars(ReadStep)

-----------------------------------------------------------------------------
(***************************************************************************)
(* The C flag and the Java flag of an event agree whenever no read and no  *)
(* notifyOn... is under way, however the read ended: a read never leaves   *)
(* the notifications off (SerialImp.c:3022) or turns them on again.        *)
(***************************************************************************)
FlagsAgree ==
  notify.pc = "idle" /\ read.pc \in {"idle", "save", "done"} =>
    \A e \in DOMAIN eventflags : eventflags[e] = wanted[e]

(* A read never stores more bytes than it was asked for. *)
BufferKept ==
  (IF read.pc = "done" THEN read.total ELSE read.total + read.bytes) <= read.length

(***************************************************************************)
(* The table of getInputStream() quoted at SerialImp.c:3397-3409 says that *)
(* a read that neither fails nor times out blocks until the threshold or   *)
(* its length is reached, or, without a threshold, until there is data.    *)
(* The code keeps this promise when it asks for no more bytes than it      *)
(* makes rounds, and READ never comes back with nothing.  It breaks it for *)
(* a threshold above 20 that is reached byte by byte.                      *)
(***************************************************************************)
ThresholdKept ==
  read.pc = "done" /\ ~read.failed /\ ~read.expired /\ ~read.empty /\ read.want <= Iterations
    => read.bytes = read.want

(* isDSR, isCD, isCTS and isRI ask the device *)
isLine(l) == line[l]
Current(e) == IF e \in Line THEN isLine(e) ELSE icount[e]

(***************************************************************************)
(* The loop gets an answer to this request: the driver answers it, and the *)
(* round does not end before, as it does when the listener has asked for   *)
(* OUTPUT_BUFFER_EMPTY and the driver does not know TIOCSERGETLSR.         *)
(***************************************************************************)
Polls(request) ==
  request \in answers /\ (eventflags["output"] => has_line_status_register_access)

(***************************************************************************)
(* Whatever the listener has been told of a line or an error counter that  *)
(* the loop polls does not stay out of date: a later value is told, or was *)
(* refused (check_tiocmget_changes, check_cgi_count).                      *)
(***************************************************************************)
ToldIsCurrent ==
  \A e \in Line \union ErrorKind :
    <>[]Polls(IF e \in Line THEN "TIOCMGET" ELSE "TIOCGICOUNT")
      => []<>(told[e] \in {Unknown, <<Current(e)>>})

(***************************************************************************)
(* Data that stays unread is announced, again and again, to a listener     *)
(* that has asked for it, on a driver without TIOCSERGETLSR too, unless    *)
(* OUTPUT_BUFFER_EMPTY has been asked for there: then report_serial_events *)
(* ends before it looks for data (SerialImp.c:3994-3996).                  *)
(***************************************************************************)
DataIsAnnounced ==
  <>[](Polls("FIONREAD") /\ wanted["data"] /\ fifo > 0 /\ read.pc = "idle" /\ notify.pc = "idle")
    => []<>(loop = "listener")

(* With a receive timeout, every read ends. *)
ReadEnds == HasTimeout => (read.pc # "idle" ~> read.pc = "idle")

=============================================================================
