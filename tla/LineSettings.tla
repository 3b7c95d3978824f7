---------------------------- MODULE LineSettings ----------------------------
(***************************************************************************)
(* The settings of one open port: what the client asked for, as the fields *)
(* of RXTXPort.java keep it, and what the device has, as SerialImp.c puts  *)
(* it there.  The device keeps speed, data bits, stop bits, parity, flow   *)
(* control, threshold, timeout and the end-of-input character in one       *)
(* termios structure, its output lines in one word and the divisor of      *)
(* custom speeds in one serial_struct.  Every setter reads the whole of    *)
(* one of them, changes its part and writes the whole back.                *)
(***************************************************************************)
EXTENDS Integers, FiniteSets, Sequences

CONSTANTS
  Thread,
  Params,      \* what setSerialPortParams is called with
  FlowModes,   \* what setFlowControlMode is called with, as sets of bits
  Times,       \* what enableReceiveTimeout is called with
  Thresholds,  \* what enableReceiveThreshold is called with
  EndChars,    \* what setEndOfInputChar is called with
  BaudBases,   \* what setBaudBase is called with
  Together,    \* the pairs of kinds of calls that clients let overlap
  FirstSerial  \* the serial_structs that a device may begin with

(* The settings as SerialPort.java and SerialImp.h number them *)
DataBits == 5 .. 8
STOPBITS_1 == 1
STOPBITS_2 == 2
STOPBITS_1_5 == 3
StopBits == {STOPBITS_1, STOPBITS_2, STOPBITS_1_5}
Parity == {"NONE", "ODD", "EVEN", "MARK", "SPACE"}
FlowControl == {"RTSCTS_IN", "RTSCTS_OUT", "XONXOFF_IN", "XONXOFF_OUT"}

(* What the model keeps of struct serial_struct *)
serial_struct ==
  [supported : BOOLEAN, baud_base : Nat, custom_divisor : Nat, spd_cust : BOOLEAN]

Kind == {"params", "flow", "limits", "eof", "line", "serial"}

ASSUME SettingsAssumption ==
  /\ Params \subseteq [speed : Int, dataBits : Int, stopBits : Int, parity : STRING]
  /\ FlowModes \subseteq SUBSET FlowControl
  /\ Times \subseteq Nat /\ Thresholds \subseteq Nat
  /\ BaudBases \subseteq Int
  /\ FirstSerial \subseteq serial_struct
  /\ Together \subseteq SUBSET Kind

VARIABLES
  fields,  \* speed, dataBits, stopBits, parity, flowmode, timeout, threshold
  monThreadisInterrupted,
  tty,     \* the termios structure of the device
  serial,  \* its serial_struct, if it supports one
  lines,   \* its output lines that are on
  pc, arg, \* per thread: where it is, and the arguments of its call
  image,   \* per thread: the termios it has read and changed
  word,    \* per thread: the output lines or serial_struct it has read and changed
  asked    \* history: the output lines and end-of-input character last asked for

javaVars   == <<fields, monThreadisInterrupted>>
callVars   == <<arg, image, word>>
vars == <<javaVars, tty, serial, lines, pc, callVars, asked>>

-----------------------------------------------------------------------------
(* Speeds.  The index of a speed is its B... code; those above 38400 begin *)
(* at 4097, and B0 hangs up. *)

SlowRates == <<50, 75, 110, 134, 150, 200, 300, 600, 1200, 1800, 2400, 4800,
               9600, 19200, 38400>>
FastRates == <<57600, 115200, 230400, 460800, 500000, 576000, 921600, 1000000,
               1152000, 1500000, 2000000, 2500000, 3000000, 3500000, 4000000>>
Code == 0 .. 15 \union 4097 .. 4111
B38400 == 15

BaudOf == [c \in Code |-> IF c = 0 THEN 0
                          ELSE IF c < 16 THEN SlowRates[c] ELSE FastRates[c - 4096]]

Predefined == {BaudOf[c] : c \in Code}

get_java_baudrate(native) == IF native \in Code THEN BaudOf[native] ELSE -1

(* A speed without a code stands for itself; a negative one is refused. *)
translate_speed(speed) ==
  IF speed \in Predefined THEN CHOOSE c \in Code : BaudOf[c] = speed
  ELSE IF speed >= 0 THEN speed ELSE -1

(* What cfsetispeed and cfsetospeed of the C library accept: a code *)
CanSet(cspeed) == cspeed \in Code

-----------------------------------------------------------------------------
(* The bits of a termios structure *)

ParityBits == [NONE |-> {}, EVEN |-> {"PARENB"}, ODD |-> {"PARENB", "PARODD"},
               MARK |-> {"PARENB", "PARODD", "CMSPAR"}, SPACE |-> {"PARENB", "CMSPAR"}]

translate_data_bits(t, dataBits) == [t EXCEPT !.csize = dataBits]

(* 1.5 stop bits are two stop bits with five data bits. *)
translate_stop_bits(t, stopBits) ==
  CASE stopBits = STOPBITS_1 -> [t EXCEPT !.cflag = @ \ {"CSTOPB"}]
    [] stopBits = STOPBITS_2 -> [t EXCEPT !.cflag = @ \union {"CSTOPB"}]
    [] stopBits = STOPBITS_1_5 ->
         translate_data_bits([t EXCEPT !.cflag = @ \union {"CSTOPB"}], 5)

translate_parity(t, parity) ==
  [t EXCEPT !.cflag = (@ \ {"PARENB", "PARODD", "CMSPAR"}) \union ParityBits[parity]]

(* A call with anything else is refused before the device is touched. *)
Supported(p) ==
  /\ translate_speed(p.speed) >= 0
  /\ p.dataBits \in DataBits
  /\ p.stopBits \in StopBits
  /\ p.parity \in Parity

(* What set_port_params makes of the settings it has read *)
Parameterised(t, p) ==
  LET framed == translate_parity(
        translate_stop_bits(translate_data_bits(t, p.dataBits), p.stopBits), p.parity)
      code == translate_speed(p.speed)
  IN [framed EXCEPT !.baud = IF CanSet(code) THEN code ELSE B38400]

(* The settings that a preopened port hands to the Java object *)
set_java_vars(t) ==
  [speed    |-> get_java_baudrate(t.baud),
   dataBits |-> t.csize,
   stopBits |-> IF "CSTOPB" \notin t.cflag THEN STOPBITS_1
                ELSE IF t.csize = 5 THEN STOPBITS_1_5 ELSE STOPBITS_2,
   parity   |-> CHOOSE p \in Parity :
                  ParityBits[p] = t.cflag \intersect {"PARENB", "PARODD", "CMSPAR"}]

(* What the static queries make of the settings of a port that is set up: *)
(* CS5 is 0, so that they never see 1.5 stop bits. *)
nativeStaticGetBaudRate(t) == get_java_baudrate(t.baud)
nativeStaticGetDataBits(t) == t.csize
nativeStaticGetParity(t) ==
  CHOOSE p \in Parity :
    ParityBits[p] = t.cflag \intersect {"PARENB", "PARODD", "CMSPAR"}
nativeStaticGetStopBits(t) == IF "CSTOPB" \in t.cflag THEN STOPBITS_2 ELSE STOPBITS_1

(* Parity as the library's own query would report it: space parity is *)
(* recognised by the lowest bit of the speed. *)
nativeGetParity(t) ==
  CASE {"PARENB", "PARODD", "CMSPAR"} \subseteq t.cflag -> "MARK"
    [] "PARODD" \notin t.cflag /\ "CMSPAR" \in t.cflag /\ t.baud % 2 = 1 -> "SPACE"
    [] {"PARENB", "PARODD"} \subseteq t.cflag /\ "CMSPAR" \notin t.cflag -> "ODD"
    [] "PARENB" \in t.cflag /\ "PARODD" \notin t.cflag
         /\ ("CMSPAR" \in t.cflag => t.baud % 2 = 0) -> "EVEN"
    [] OTHER -> "NONE"

(* RTS and CTS are one bit: it stands for input and output. *)
nativeGetFlowControlMode(t) ==
  (IF "CRTSCTS" \in t.cflag THEN {"RTSCTS_IN", "RTSCTS_OUT"} ELSE {})
    \union (IF "IXOFF" \in t.iflag THEN {"XONXOFF_IN"} ELSE {})
    \union (IF "IXON" \in t.iflag THEN {"XONXOFF_OUT"} ELSE {})

NativegetReceiveTimeout(t) == t.vtime * 100
NativeisReceiveTimeoutEnabled(t) == t.vtime > 0
nativeGetEndOfInputChar(t) == t.veof

isDTR == "DTR" \in lines
isRTS == "RTS" \in lines

(* What setDTR and setRTS make of the lines they have read *)
setDTR(on) == IF on THEN lines \union {"DTR"} ELSE lines \ {"DTR"}
setRTS(on) == IF on THEN lines \union {"RTS"} ELSE lines \ {"RTS"}

(* DSR is an input: the word is written back, and the device ignores the bit. *)
setDSR == lines

(* What a device with a serial_struct answers *)
nativeGetBaudBase == IF serial.supported THEN serial.baud_base ELSE -1
nativeGetDivisor == IF serial.supported THEN serial.custom_divisor ELSE -1

(* What the getters of the Java object answer *)
getBaudRate == fields.speed
getDataBits == fields.dataBits
getStopBits == fields.stopBits
getParity == fields.parity
getFlowControlMode == fields.flowmode
getReceiveThreshold == fields.threshold
isReceiveThresholdEnabled == fields.threshold > 0
getReceiveTimeout == NativegetReceiveTimeout(tty)
isReceiveTimeoutEnabled == NativeisReceiveTimeoutEnabled(tty)
getEndOfInputChar == nativeGetEndOfInputChar(tty)

(* The settings of every port that the library has opened *)
configure_port ==
  [csize |-> 8, cflag |-> {}, iflag |-> {"INPCK"}, baud |-> 13,
   vmin |-> 0, vtime |-> 0, veof |-> "default"]

-----------------------------------------------------------------------------
Nothing == [kind |-> "none"]

PC == {"idle", "hangup", "hungup", "divisor", "setserial", "limits", "setattr",
       "assign", "setlines", "putserial"}

TypeOK ==
  /\ fields \in [speed : Int, dataBits : DataBits, stopBits : StopBits,
                 parity : Parity, flowmode : SUBSET UNION FlowModes,
                 timeout : Times \union {-1}, threshold : Thresholds \union {0}]
  /\ monThreadisInterrupted \in BOOLEAN
  /\ tty \in [csize : DataBits, cflag : SUBSET {"CSTOPB", "PARENB", "PARODD", "CMSPAR", "CRTSCTS"},
              iflag : SUBSET {"INPCK", "IXON", "IXOFF"}, baud : Code,
              vmin : 0 .. 255, vtime : 0 .. 255, veof : EndChars \union {"default"}]
  /\ lines \subseteq {"DTR", "RTS"}
  /\ asked \in [lines : SUBSET {"DTR", "RTS"}, veof : EndChars \union {"default"}]
  /\ pc \in [Thread -> PC]

(***************************************************************************)
(* The port has just been opened: by open(), or before it by a static call *)
(* that has set its parameters, which set_java_vars has read back.         *)
(***************************************************************************)
Init ==
  /\ \E v \in {[speed |-> 9600, dataBits |-> 8, stopBits |-> STOPBITS_1, parity |-> "NONE"]}
            \union {p \in Params : Supported(p) /\ p.speed \in Predefined} :
       /\ tty = Parameterised(configure_port, v)
       /\ LET j == set_java_vars(tty)
          IN fields = [speed |-> j.speed, dataBits |-> j.dataBits, stopBits |-> j.stopBits,
                       parity |-> j.parity, flowmode |-> {}, timeout |-> -1, threshold |-> 0]
  /\ monThreadisInterrupted = FALSE
  /\ serial \in FirstSerial
  /\ lines = {"DTR", "RTS"}
  /\ asked = [lines |-> lines, veof |-> tty.veof]
  /\ pc = [t \in Thread |-> "idle"]
  /\ arg = [t \in Thread |-> Nothing]
  /\ image = [t \in Thread |-> Nothing]
  /\ word = [t \in Thread |-> Nothing]

Goto(t, label) == pc' = [pc EXCEPT ![t] = label]

(* A call that returns leaves its locals behind. *)
Return(t) ==
  /\ Goto(t, "idle")
  /\ arg' = [arg EXCEPT ![t] = Nothing]
  /\ image' = [image EXCEPT ![t] = Nothing]
  /\ word' = [word EXCEPT ![t] = Nothing]

Busy(t) == pc[t] # "idle"

(* Thread t begins a call of this kind; the clients decide what may overlap. *)
Begins(t, call) ==
  /\ ~Busy(t)
  /\ \A s \in Thread : Busy(s) => {call.kind, arg[s].kind} \in Together
  /\ arg' = [arg EXCEPT ![t] = call]

Reads(t, new) == image' = [image EXCEPT ![t] = new] /\ UNCHANGED word

ReadsWord(t, new) == word' = [word EXCEPT ![t] = new] /\ UNCHANGED image

-----------------------------------------------------------------------------
(* setSerialPortParams *)

(* Mutant: setSerialPortParams is not synchronized. *)
NoMonitor(t) == t \in Thread

(* It is synchronized: one such call at a time. *)
Monitor(t) == \A s \in Thread \ {t} : Busy(s) => arg[s].kind # "params"

SetSerialPortParams(t, p) ==
  /\ Begins(t, [kind |-> "params", p |-> p]) /\ Monitor(t)
  /\ Supported(p)
  /\ Reads(t, Parameterised(tty, p))
  /\ Goto(t, IF p.speed = 0 THEN "hangup"
             ELSE IF CanSet(translate_speed(p.speed)) THEN "setattr" ELSE "divisor")
  /\ UNCHANGED <<javaVars, tty, serial, lines, asked>>

(* Speed 0 lowers DTR at once: the lines are read, then written. *)
HangUpGet(t) ==
  /\ pc[t] = "hangup" /\ Goto(t, "hungup")
  /\ ReadsWord(t, lines \ {"DTR"})
  /\ UNCHANGED <<javaVars, tty, serial, lines, arg, asked>>

HangUpSet(t) ==
  /\ pc[t] = "hungup" /\ Goto(t, "setattr")
  /\ lines' = word[t] /\ asked' = [asked EXCEPT !.lines = @ \ {"DTR"}]
  /\ UNCHANGED <<javaVars, tty, serial, callVars>>

(* Another speed is 38400 with a divisor, if the device has one. *)
GetDivisor(t) ==
  /\ pc[t] = "divisor" /\ serial.supported
  /\ ReadsWord(t, [serial EXCEPT !.custom_divisor = serial.baud_base \div arg[t].p.speed])
  /\ Goto(t, "setserial")
  /\ UNCHANGED <<javaVars, tty, serial, lines, arg, asked>>

SetDivisor(t) ==
  /\ pc[t] = "setserial" /\ word[t].baud_base >= 1
  /\ serial' = word[t]
  /\ Goto(t, "setattr")
  /\ UNCHANGED <<javaVars, tty, lines, callVars, asked>>

(* The call is given up: the settings stay as they were. *)
NoDivisor(t) ==
  /\ \/ pc[t] = "divisor" /\ ~serial.supported
     \/ pc[t] = "setserial" /\ word[t].baud_base < 1
  /\ Return(t)
  /\ UNCHANGED <<javaVars, tty, serial, lines, asked>>

(* tcsetattr writes all the settings; the fields follow.  What a driver    *)
(* itself does to DTR and RTS when B0 or CRTSCTS is set is left out.       *)
SetAttr(t) ==
  /\ pc[t] = "setattr"
  /\ tty' = image[t]
  /\ IF arg[t].kind \in {"params", "flow"} THEN Goto(t, "assign") /\ UNCHANGED callVars
     ELSE Return(t)
  /\ asked' = IF arg[t].kind = "eof" THEN [asked EXCEPT !.veof = arg[t].char] ELSE asked
  /\ UNCHANGED <<javaVars, serial, lines>>

AssignParams(t) ==
  /\ pc[t] = "assign" /\ arg[t].kind = "params" /\ Return(t)
  /\ LET p == arg[t].p
     IN fields' = [fields EXCEPT !.speed = p.speed, !.stopBits = p.stopBits, !.parity = p.parity,
                     !.dataBits = IF p.stopBits = STOPBITS_1_5 THEN 5 ELSE p.dataBits]
  /\ UNCHANGED <<monThreadisInterrupted, tty, serial, lines, asked>>

-----------------------------------------------------------------------------
(* setFlowControlMode; nothing happens while the port has no listener *)

FlowBits(t, mode) ==
  [t EXCEPT !.cflag = (@ \ {"CRTSCTS"}) \union
                         (IF mode \intersect {"RTSCTS_IN", "RTSCTS_OUT"} # {} THEN {"CRTSCTS"} ELSE {}),
            !.iflag = (@ \ {"IXOFF", "IXON"})
                         \union (IF "XONXOFF_IN" \in mode THEN {"IXOFF"} ELSE {})
                         \union (IF "XONXOFF_OUT" \in mode THEN {"IXON"} ELSE {})]

SetFlowControlMode(t, mode) ==
  /\ Begins(t, [kind |-> "flow", mode |-> mode])
  /\ ~monThreadisInterrupted
  /\ Reads(t, FlowBits(tty, mode))
  /\ Goto(t, "setattr")
  /\ UNCHANGED <<javaVars, tty, serial, lines, asked>>

AssignFlowMode(t) ==
  /\ pc[t] = "assign" /\ arg[t].kind = "flow" /\ Return(t)
  /\ fields' = [fields EXCEPT !.flowmode = arg[t].mode]
  /\ UNCHANGED <<monThreadisInterrupted, tty, serial, lines, asked>>

-----------------------------------------------------------------------------
(* Threshold and timeout: the fields first, then both at once in the device *)

(* Also disableReceiveTimeout, with -1 *)
EnableReceiveTimeout(t, time) ==
  /\ Begins(t, [kind |-> "limits", time |-> time, threshold |-> fields.threshold])
  /\ fields' = [fields EXCEPT !.timeout = time]
  /\ Goto(t, "limits")
  /\ UNCHANGED <<monThreadisInterrupted, tty, serial, lines, image, word, asked>>

(* Mutant: setting the threshold disables the timeout. *)
ThresholdAlone(t, thresh) ==
  /\ Begins(t, [kind |-> "limits", time |-> -1, threshold |-> thresh])
  /\ fields' = [fields EXCEPT !.threshold = thresh]
  /\ Goto(t, "limits")
  /\ UNCHANGED <<monThreadisInterrupted, tty, serial, lines, image, word, asked>>

EnableReceiveThreshold(t, thresh) ==
  /\ Begins(t, [kind |-> "limits", time |-> fields.timeout, threshold |-> thresh])
  /\ fields' = [fields EXCEPT !.threshold = thresh]
  /\ Goto(t, "limits")
  /\ UNCHANGED <<monThreadisInterrupted, tty, serial, lines, image, word, asked>>

(* Tenths of a second, in a byte *)
NativeEnableReceiveTimeoutThreshold(t) ==
  /\ pc[t] = "limits" /\ Goto(t, "setattr")
  /\ LET timeout == CASE arg[t].time < 0 -> 0 [] arg[t].time = 0 -> 1 [] OTHER -> arg[t].time
     IN Reads(t, [tty EXCEPT !.vmin = arg[t].threshold % 256,
                             !.vtime = (timeout \div 100) % 256])
  /\ UNCHANGED <<javaVars, tty, serial, lines, arg, asked>>

SetEndOfInputChar(t, char) ==
  /\ Begins(t, [kind |-> "eof", char |-> char])
  /\ Reads(t, [tty EXCEPT !.veof = char])
  /\ Goto(t, "setattr")
  /\ UNCHANGED <<javaVars, tty, serial, lines, asked>>

-----------------------------------------------------------------------------
(* Output lines, and the divisor itself *)

(* Mutant: the other lines are not read first. *)
OneLine(t, l, on) ==
  /\ Begins(t, [kind |-> "line", line |-> l, on |-> on])
  /\ ReadsWord(t, IF on THEN {l} ELSE {})
  /\ Goto(t, "setlines")
  /\ UNCHANGED <<javaVars, tty, serial, lines, asked>>

GetLines(t, l, on) ==
  /\ Begins(t, [kind |-> "line", line |-> l, on |-> on])
  /\ ReadsWord(t, CASE l = "DTR" -> setDTR(on) [] l = "RTS" -> setRTS(on) [] l = "DSR" -> setDSR)
  /\ Goto(t, "setlines")
  /\ UNCHANGED <<javaVars, tty, serial, lines, asked>>

SetLines(t) ==
  /\ pc[t] = "setlines" /\ Return(t)
  /\ lines' = word[t]
  /\ asked' = [asked EXCEPT !.lines = IF arg[t].on THEN @ \union {arg[t].line}
                                      ELSE @ \ {arg[t].line}]
  /\ UNCHANGED <<javaVars, tty, serial>>

(* A base below 1, or a device without a serial_struct, is refused. *)
NativeSetBaudBase(t, base) ==
  /\ Begins(t, [kind |-> "serial"])
  /\ serial.supported /\ base >= 1
  /\ ReadsWord(t, [serial EXCEPT !.baud_base = base])
  /\ Goto(t, "putserial")
  /\ UNCHANGED <<javaVars, tty, serial, lines, asked>>

(* The divisor it is given is never stored: what was there is written back. *)
NativeSetDivisor(t) ==
  /\ Begins(t, [kind |-> "serial"])
  /\ serial.supported /\ serial.custom_divisor >= 1
  /\ ReadsWord(t, serial)
  /\ Goto(t, "putserial")
  /\ UNCHANGED <<javaVars, tty, serial, lines, asked>>

PutSerial(t) ==
  /\ pc[t] = "putserial" /\ Return(t)
  /\ serial' = word[t]
  /\ UNCHANGED <<javaVars, tty, lines, asked>>

(* removeEventListener sets it, the monitor thread of the next listener clears it. *)
Listener ==
  /\ monThreadisInterrupted' = ~monThreadisInterrupted
  /\ UNCHANGED <<fields, tty, serial, lines, pc, callVars, asked>>

-----------------------------------------------------------------------------
Calls(t) ==
  \/ \E p \in Params : SetSerialPortParams(t, p)
  \/ \E mode \in FlowModes : SetFlowControlMode(t, mode)
  \/ \E time \in Times \union {-1} : EnableReceiveTimeout(t, time)
  \/ \E thresh \in Thresholds : EnableReceiveThreshold(t, thresh)
  \/ \E char \in EndChars : SetEndOfInputChar(t, char)
  \/ \E l \in {"DTR", "RTS"}, on \in BOOLEAN : GetLines(t, l, on)
  \/ GetLines(t, "DSR", FALSE)                          \* close() only
  \/ \E base \in BaudBases : NativeSetBaudBase(t, base)
  \/ NativeSetDivisor(t)

Steps(t) ==
  \/ HangUpGet(t) \/ HangUpSet(t)
  \/ GetDivisor(t) \/ SetDivisor(t) \/ NoDivisor(t)
  \/ SetAttr(t) \/ AssignParams(t) \/ AssignFlowMode(t)
  \/ NativeEnableReceiveTimeoutThreshold(t)
  \/ SetLines(t) \/ PutSerial(t)

Next == Listener \/ \E t \in Thread : Calls(t) \/ Steps(t)

Spec == Init /\ [][Next]_vars

-----------------------------------------------------------------------------
InCall(kinds) == \E t \in Thread : Busy(t) /\ arg[t].kind \in kinds

(***************************************************************************)
(* Between calls, what getBaudRate, getDataBits, getStopBits, getParity    *)
(* and getFlowControlMode answer is what the device has, although each     *)
(* setter rewrites the settings of the others.  Two stop bits with five    *)
(* data bits are 1.5, a custom speed is not kept by the device, and flow   *)
(* control by RTS and CTS goes both ways (RXTXPort.java, setSerialPort-    *)
(* Params and setFlowControlMode; set_port_params, setflowcontrol).  The   *)
(* end-of-input character is the one last set, and the static queries      *)
(* would answer the same, 1.5 stop bits aside.                             *)
(***************************************************************************)
SettingsAgree ==
  ~InCall({"params", "flow", "limits", "eof"}) =>
    LET j == set_java_vars(tty)
    IN /\ getBaudRate \in Predefined => j.speed = getBaudRate
       /\ j.dataBits = getDataBits
       /\ j.stopBits = getStopBits \/ (getDataBits = 5 /\ {j.stopBits, getStopBits} = {2, 3})
       /\ j.parity = getParity
       /\ j.parity # "SPACE" => nativeGetParity(tty) = j.parity
       /\ nativeStaticGetBaudRate(tty) = j.speed
       /\ nativeStaticGetDataBits(tty) = j.dataBits
       /\ nativeStaticGetParity(tty) = j.parity
       /\ j.stopBits # STOPBITS_1_5 => nativeStaticGetStopBits(tty) = j.stopBits
       /\ nativeGetFlowControlMode(tty) = getFlowControlMode
            \union (IF getFlowControlMode \intersect {"RTSCTS_IN", "RTSCTS_OUT"} = {} THEN {}
                    ELSE {"RTSCTS_IN", "RTSCTS_OUT"})
       /\ getEndOfInputChar = asked.veof

(***************************************************************************)
(* Between calls the device waits for as many bytes and as long as the     *)
(* client asked, in tenths of a second, whichever of the two was set last  *)
(* and whatever was set since, and the queries answer so: "true if receive *)
(* timeout is enabled" (RXTXPort.java:418; enableReceiveTimeout,           *)
(* enableReceiveThreshold).  It says nothing of what does not fit in the   *)
(* bytes VMIN and VTIME: a timeout below 100 ms is stored as none, so that *)
(* isReceiveTimeoutEnabled denies it, one from 25600 ms on and a threshold *)
(* from 256 on are cut off.                                                *)
(***************************************************************************)
NoTimeout == -1
Fitting == 100 .. 25599
LimitsAgree ==
  ~InCall({"params", "flow", "limits", "eof"}) =>
    /\ fields.threshold <= 255 =>
         tty.vmin = getReceiveThreshold /\ (tty.vmin > 0 <=> isReceiveThresholdEnabled)
    /\ fields.timeout = NoTimeout => ~isReceiveTimeoutEnabled /\ getReceiveTimeout = 0
    /\ fields.timeout \in Fitting =>
         isReceiveTimeoutEnabled /\ getReceiveTimeout = fields.timeout - (fields.timeout % 100)

(***************************************************************************)
(* Between calls DTR and RTS are what was last asked of them, a hang-up by *)
(* speed 0 included (setDTR, setRTS and set_port_params share one word).   *)
(***************************************************************************)
LinesAsAsked ==
  ~InCall({"params", "line"}) => (isDTR <=> "DTR" \in asked.lines) /\ (isRTS <=> "RTS" \in asked.lines)

(* What the driver makes of code and divisor *)
LineSpeed ==
  IF tty.baud = B38400 /\ serial.spd_cust /\ nativeGetDivisor > 0
  THEN nativeGetBaudBase \div nativeGetDivisor
  ELSE BaudOf[tty.baud]

(***************************************************************************)
(* Between calls the line runs at the speed that was asked for: "select    *)
(* baud rates 38400 then 28800 then 38400" gives 38400 again               *)
(* (SerialImp.c:874-876; RXTXPort.java:197).                               *)
(***************************************************************************)
SpeedAsAsked == ~InCall({"params", "serial"}) => LineSpeed = getBaudRate
=============================================================================
