------------------------- MODULE LineSettings_proofs -------------------------
(***************************************************************************)
(* What the setters and getters of a port guarantee for any number of      *)
(* client threads, any arguments and any device: between calls, the fields *)
(* of the Java object, the termios structure and the output lines agree.   *)
(***************************************************************************)
EXTENDS LineSettings, TLAPS

(* The calls that rewrite the termios structure, and the output lines *)
Termios == {"params", "flow", "limits", "eof"}
Lines   == {"params", "line"}

(***************************************************************************)
(* Calls that rewrite the same word take turns: clients see to it, except  *)
(* for setSerialPortParams, which is synchronized.                         *)
(***************************************************************************)
TakeTurns ==
  \A j, k \in Kind :
    {j, k} \in Together /\ ({j, k} \subseteq Termios \/ {j, k} \subseteq Lines)
      => j = "params" /\ k = "params"

Byte == 0 .. 255

Doing(t, kinds) == Busy(t) /\ arg[t].kind \in kinds

(* A termios structure has these parameters. *)
ParamsMatch(tio, speed, dataBits, stopBits, parity) ==
  /\ speed \in Predefined => BaudOf[tio.baud] = speed
  /\ tio.csize = dataBits
  /\ "CSTOPB" \in tio.cflag <=> stopBits # STOPBITS_1
  /\ stopBits = STOPBITS_1_5 => dataBits = 5
  /\ \A bit \in {"PARENB", "PARODD", "CMSPAR"} : bit \in tio.cflag <=> bit \in ParityBits[parity]

(* The data bits that go with the stop bits *)
DataBitsOf(p) == IF p.stopBits = STOPBITS_1_5 THEN 5 ELSE p.dataBits

FlowMatch(tio, mode) ==
  /\ "CRTSCTS" \in tio.cflag <=> mode \intersect {"RTSCTS_IN", "RTSCTS_OUT"} # {}
  /\ "IXOFF" \in tio.iflag <=> "XONXOFF_IN" \in mode
  /\ "IXON" \in tio.iflag <=> "XONXOFF_OUT" \in mode

(* What becomes of a timeout: none, and one below a tenth of a second, are zero. *)
Tenths(time) ==
  LET timeout == CASE time < 0 -> 0 [] time = 0 -> 1 [] OTHER -> time
  IN (timeout \div 100) % 256

LimitsMatch(tio, time, threshold) ==
  tio.vmin = threshold % 256 /\ tio.vtime = Tenths(time)

(* A termios structure with other limits, or another end-of-input character *)
WithLimits(tio, vmin, vtime) == [tio EXCEPT !.vmin = vmin, !.vtime = vtime]
WithEnd(tio, char) == [tio EXCEPT !.veof = char]

TermiosType ==
  [csize : DataBits, cflag : SUBSET {"CSTOPB", "PARENB", "PARODD", "CMSPAR", "CRTSCTS"},
   iflag : SUBSET {"INPCK", "IXON", "IXOFF"}, baud : Code,
   vmin : Byte, vtime : Byte, veof : EndChars \union {"default"}]

FieldsType ==
  [speed : Int, dataBits : DataBits, stopBits : StopBits,
   parity : Parity, flowmode : SUBSET UNION FlowModes,
   timeout : Times \union {-1}, threshold : Thresholds \union {0}]

AskedType == [lines : SUBSET {"DTR", "RTS"}, veof : EndChars \union {"default"}]

(* Where a call may be, and what it has been called with *)
CallOf(t) ==
  /\ Doing(t, {"params"}) =>
       /\ pc[t] \in {"hangup", "hungup", "divisor", "setserial", "setattr", "assign"}
       /\ arg[t].p \in Params /\ Supported(arg[t].p)
  /\ Doing(t, {"flow"}) => pc[t] \in {"setattr", "assign"} /\ arg[t].mode \in FlowModes
  /\ Doing(t, {"limits"}) =>
       pc[t] \in {"limits", "setattr"} /\ arg[t].time \in Times \union {-1}
         /\ arg[t].threshold \in Thresholds \union {0}
  /\ Doing(t, {"eof"}) => pc[t] = "setattr" /\ arg[t].char \in EndChars
  /\ Doing(t, {"line"}) =>
       pc[t] = "setlines" /\ arg[t].line \in {"DTR", "RTS", "DSR"}
         /\ (arg[t].line = "DSR" => ~arg[t].on)
  /\ Doing(t, {"serial"}) => pc[t] = "putserial"

CallInv ==
  /\ pc \in [Thread -> PC]
  /\ DOMAIN arg = Thread /\ DOMAIN image = Thread /\ DOMAIN word = Thread
  /\ \A t \in Thread : Busy(t) => arg[t].kind \in Kind
  /\ \A t \in Thread : CallOf(t)

(* Calls that rewrite the same word are made one at a time. *)
TurnInv ==
  /\ \A s, t \in Thread : Doing(s, Termios) /\ Doing(t, Termios) => s = t
  /\ \A s, t \in Thread : Doing(s, Lines) /\ Doing(t, Lines) => s = t

(* What a call has read is still so, and it has changed its part only. *)
ParamsImage(t) ==
  /\ pc[t] = "assign" =>
       ParamsMatch(tty, arg[t].p.speed, DataBitsOf(arg[t].p), arg[t].p.stopBits, arg[t].p.parity)
  /\ pc[t] # "assign" => image[t] = Parameterised(tty, arg[t].p)

FlowImage(t) ==
  /\ pc[t] = "assign" => FlowMatch(tty, arg[t].mode)
  /\ pc[t] # "assign" => image[t] = FlowBits(tty, arg[t].mode)

LimitsImage(t) ==
  /\ arg[t].time = fields.timeout /\ arg[t].threshold = fields.threshold
  /\ pc[t] = "setattr" =>
       \E vmin, vtime \in Byte :
         /\ image[t] = WithLimits(tty, vmin, vtime)
         /\ vmin = fields.threshold % 256 /\ vtime = Tenths(fields.timeout)

EndImage(t) == image[t] = WithEnd(tty, arg[t].char)

ImageOf(t) ==
  /\ Doing(t, {"params"}) => ParamsImage(t)
  /\ Doing(t, {"flow"}) => FlowImage(t)
  /\ Doing(t, {"limits"}) => LimitsImage(t)
  /\ Doing(t, {"eof"}) => EndImage(t)

ImageInv == \A t \in Thread : ImageOf(t)

(* The fields agree with the device but for the call that is being made. *)
FieldsInv ==
  /\ (\A t \in Thread : ~(Doing(t, {"params"}) /\ pc[t] = "assign")) =>
       ParamsMatch(tty, fields.speed, fields.dataBits, fields.stopBits, fields.parity)
  /\ (\A t \in Thread : ~(Doing(t, {"flow"}) /\ pc[t] = "assign")) => FlowMatch(tty, fields.flowmode)
  /\ (\A t \in Thread : ~Doing(t, {"limits"})) =>
       LimitsMatch(tty, fields.timeout, fields.threshold)
  /\ tty.veof = asked.veof

(* The output lines are those asked for, and so are those about to be written. *)
LinesOf(t) ==
  /\ pc[t] = "hungup" => word[t] = lines \ {"DTR"}
  /\ pc[t] = "setlines" =>
       word[t] = IF arg[t].on THEN lines \union {arg[t].line} ELSE lines \ {arg[t].line}

LinesInv == lines = asked.lines /\ \A t \in Thread : LinesOf(t)

TypeInv ==
  /\ fields \in FieldsType /\ tty \in TermiosType /\ asked \in AskedType
  /\ monThreadisInterrupted \in BOOLEAN

IndInv == TypeInv /\ CallInv /\ TurnInv /\ ImageInv /\ FieldsInv /\ LinesInv

-----------------------------------------------------------------------------
(* A speed with a code is translated to it, and back. *)
LEMMA SpeedHasCode ==
  ASSUME NEW speed \in Predefined
  PROVE  translate_speed(speed) \in Code /\ BaudOf[translate_speed(speed)] = speed
<1>1. \E c \in Code : BaudOf[c] = speed
  BY DEF Predefined
<1> QED BY <1>1 DEF translate_speed

(* Each parity has bits of its own. *)
LEMMA ParityOfBits ==
  ASSUME NEW p \in Parity, NEW bits,
         \A bit \in {"PARENB", "PARODD", "CMSPAR"} : bit \in bits <=> bit \in ParityBits[p]
  PROVE  (CHOOSE q \in Parity :
            ParityBits[q] = bits \intersect {"PARENB", "PARODD", "CMSPAR"}) = p
<1>1. ParityBits[p] = bits \intersect {"PARENB", "PARODD", "CMSPAR"}
  BY DEF Parity, ParityBits
<1>2. \A q \in Parity : ParityBits[q] = ParityBits[p] => q = p
  BY DEF Parity, ParityBits
<1> QED BY <1>1, <1>2

(* What the parameters leave alone *)
SameElsewhere(r, tio) ==
  /\ r.iflag = tio.iflag /\ r.vmin = tio.vmin /\ r.vtime = tio.vtime /\ r.veof = tio.veof
  /\ "CRTSCTS" \in r.cflag <=> "CRTSCTS" \in tio.cflag

(* translate_data_bits sets the character size alone. *)
LEMMA DataBitsAre ==
  ASSUME NEW tio \in TermiosType, NEW dataBits \in DataBits
  PROVE  LET r == translate_data_bits(tio, dataBits)
         IN /\ r \in TermiosType /\ SameElsewhere(r, tio)
            /\ r.csize = dataBits /\ r.cflag = tio.cflag
BY DEF translate_data_bits, TermiosType, SameElsewhere

(* The character size becomes 5 with 1.5 stop bits. *)
LEMMA StopBitsAre ==
  ASSUME NEW tio \in TermiosType, NEW stopBits \in StopBits
  PROVE  LET r == translate_stop_bits(tio, stopBits)
         IN /\ r \in TermiosType /\ SameElsewhere(r, tio)
            /\ r.csize = IF stopBits = STOPBITS_1_5 THEN 5 ELSE tio.csize
            /\ "CSTOPB" \in r.cflag <=> stopBits # STOPBITS_1
<1> DEFINE clear == [tio EXCEPT !.cflag = @ \ {"CSTOPB"}]
           set   == [tio EXCEPT !.cflag = @ \union {"CSTOPB"}]
<1>1. clear \in TermiosType /\ SameElsewhere(clear, tio) /\ clear.csize = tio.csize
        /\ clear.cflag = tio.cflag \ {"CSTOPB"}
  BY DEF TermiosType, SameElsewhere
<1>2. set \in TermiosType /\ SameElsewhere(set, tio) /\ set.csize = tio.csize
        /\ set.cflag = tio.cflag \union {"CSTOPB"}
  BY DEF TermiosType, SameElsewhere
<1>3. translate_stop_bits(tio, stopBits)
        = IF stopBits = STOPBITS_1 THEN clear
          ELSE IF stopBits = STOPBITS_2 THEN set ELSE translate_data_bits(set, 5)
  BY DEF translate_stop_bits, StopBits, STOPBITS_1, STOPBITS_2, STOPBITS_1_5
<1> HIDE DEF clear, set
<1>4. LET r == translate_data_bits(set, 5)
      IN r \in TermiosType /\ SameElsewhere(r, set) /\ r.csize = 5 /\ r.cflag = set.cflag
  BY <1>2, DataBitsAre DEF DataBits
<1> QED
  BY <1>1, <1>2, <1>3, <1>4 DEF SameElsewhere, StopBits, STOPBITS_1, STOPBITS_2, STOPBITS_1_5

(* translate_parity sets the bits of that parity, and clears the others. *)
LEMMA ParityIs ==
  ASSUME NEW tio \in TermiosType, NEW parity \in Parity
  PROVE  LET r == translate_parity(tio, parity)
         IN /\ r \in TermiosType /\ SameElsewhere(r, tio) /\ r.csize = tio.csize
            /\ "CSTOPB" \in r.cflag <=> "CSTOPB" \in tio.cflag
            /\ \A bit \in {"PARENB", "PARODD", "CMSPAR"} : bit \in r.cflag <=> bit \in ParityBits[parity]
<1>1. ParityBits[parity] \subseteq {"PARENB", "PARODD", "CMSPAR"}
  BY DEF Parity, ParityBits
<1> QED BY <1>1 DEF translate_parity, TermiosType, SameElsewhere

(* cfsetospeed leaves everything else of the structure alone. *)
LEMMA BaudIs ==
  ASSUME NEW tio \in TermiosType, NEW code \in Code
  PROVE  LET r == [tio EXCEPT !.baud = code]
         IN /\ r \in TermiosType /\ SameElsewhere(r, tio) /\ r.csize = tio.csize
            /\ r.cflag = tio.cflag /\ r.baud = code
BY DEF TermiosType, SameElsewhere

(* set_port_params changes the parameters as it is told to, and no more. *)
LEMMA ParameterisedIs ==
  ASSUME NEW tio \in TermiosType, NEW p, p.dataBits \in DataBits, p.stopBits \in StopBits,
         p.parity \in Parity
  PROVE  LET r == Parameterised(tio, p)
         IN /\ r \in TermiosType /\ SameElsewhere(r, tio)
            /\ ParamsMatch(r, p.speed, DataBitsOf(p), p.stopBits, p.parity)
<1> DEFINE sized   == translate_data_bits(tio, p.dataBits)
           stopped == translate_stop_bits(sized, p.stopBits)
           framed  == translate_parity(stopped, p.parity)
           code    == translate_speed(p.speed)
           baud    == IF CanSet(code) THEN code ELSE B38400
<1>1. sized \in TermiosType /\ SameElsewhere(sized, tio) /\ sized.csize = p.dataBits
  BY DataBitsAre
<1>2. /\ stopped \in TermiosType /\ SameElsewhere(stopped, sized)
      /\ stopped.csize = DataBitsOf(p)
      /\ "CSTOPB" \in stopped.cflag <=> p.stopBits # STOPBITS_1
  <2> HIDE DEF sized
  <2> QED BY <1>1, StopBitsAre DEF DataBitsOf
<1>3. /\ framed \in TermiosType /\ SameElsewhere(framed, stopped) /\ framed.csize = stopped.csize
      /\ "CSTOPB" \in framed.cflag <=> "CSTOPB" \in stopped.cflag
      /\ \A bit \in {"PARENB", "PARODD", "CMSPAR"} : bit \in framed.cflag <=> bit \in ParityBits[p.parity]
  <2> HIDE DEF stopped
  <2> QED BY <1>2, ParityIs
<1>4. baud \in Code /\ (p.speed \in Predefined => BaudOf[baud] = p.speed)
  BY SpeedHasCode DEF CanSet, B38400, Code
<1>5. LET r == [framed EXCEPT !.baud = baud]
      IN /\ r \in TermiosType /\ SameElsewhere(r, framed) /\ r.csize = framed.csize
         /\ r.cflag = framed.cflag /\ r.baud = baud
  <2> HIDE DEF framed, baud
  <2> QED BY <1>3, <1>4, BaudIs
<1>6. Parameterised(tio, p) = [framed EXCEPT !.baud = baud]
  BY DEF Parameterised
<1>7. p.stopBits = STOPBITS_1_5 => DataBitsOf(p) = 5
  BY DEF DataBitsOf
<1> HIDE DEF sized, stopped, framed, baud
<1> QED BY <1>1, <1>2, <1>3, <1>4, <1>5, <1>6, <1>7 DEF ParamsMatch, SameElsewhere

(* setflowcontrol changes the flow control and no more. *)
LEMMA FlowBitsAre ==
  ASSUME NEW tio \in TermiosType, NEW mode
  PROVE  LET r == FlowBits(tio, mode)
         IN /\ r \in TermiosType
            /\ FlowMatch(r, mode)
            /\ r.csize = tio.csize /\ r.baud = tio.baud
            /\ r.vmin = tio.vmin /\ r.vtime = tio.vtime /\ r.veof = tio.veof
            /\ \A bit \in {"CSTOPB", "PARENB", "PARODD", "CMSPAR"} :
                 bit \in r.cflag <=> bit \in tio.cflag
<1> DEFINE cflag == (tio.cflag \ {"CRTSCTS"}) \union
                      (IF mode \intersect {"RTSCTS_IN", "RTSCTS_OUT"} # {} THEN {"CRTSCTS"} ELSE {})
           iflag == (tio.iflag \ {"IXOFF", "IXON"})
                      \union (IF "XONXOFF_IN" \in mode THEN {"IXOFF"} ELSE {})
                      \union (IF "XONXOFF_OUT" \in mode THEN {"IXON"} ELSE {})
<1>1. /\ cflag \subseteq {"CSTOPB", "PARENB", "PARODD", "CMSPAR", "CRTSCTS"}
      /\ iflag \subseteq {"INPCK", "IXON", "IXOFF"}
  BY DEF TermiosType
<1>2. /\ "CRTSCTS" \in cflag <=> mode \intersect {"RTSCTS_IN", "RTSCTS_OUT"} # {}
      /\ "IXOFF" \in iflag <=> "XONXOFF_IN" \in mode
      /\ "IXON" \in iflag <=> "XONXOFF_OUT" \in mode
      /\ \A bit \in {"CSTOPB", "PARENB", "PARODD", "CMSPAR"} : bit \in cflag <=> bit \in tio.cflag
  OBVIOUS
<1>3. FlowBits(tio, mode) = [tio EXCEPT !.cflag = cflag, !.iflag = iflag]
  BY DEF FlowBits, TermiosType
<1> HIDE DEF cflag, iflag
<1>4. LET r == [tio EXCEPT !.cflag = cflag, !.iflag = iflag]
      IN /\ r \in TermiosType /\ r.cflag = cflag /\ r.iflag = iflag
         /\ r.csize = tio.csize /\ r.baud = tio.baud
         /\ r.vmin = tio.vmin /\ r.vtime = tio.vtime /\ r.veof = tio.veof
  BY <1>1 DEF TermiosType
<1> QED BY <1>2, <1>3, <1>4 DEF FlowMatch

(* Other limits leave everything else of the structure alone. *)
LEMMA WithLimitsIs ==
  ASSUME NEW tio \in TermiosType, NEW vmin \in Byte, NEW vtime \in Byte
  PROVE  LET r == WithLimits(tio, vmin, vtime)
         IN /\ r \in TermiosType /\ r.csize = tio.csize /\ r.baud = tio.baud
            /\ r.cflag = tio.cflag /\ r.iflag = tio.iflag /\ r.veof = tio.veof
            /\ r.vmin = vmin /\ r.vtime = vtime
<1> DEFINE one == [tio EXCEPT !.vmin = vmin]
           two == [one EXCEPT !.vtime = vtime]
<1>1. /\ one \in TermiosType /\ one.csize = tio.csize /\ one.baud = tio.baud
      /\ one.cflag = tio.cflag /\ one.iflag = tio.iflag /\ one.veof = tio.veof
      /\ one.vmin = vmin
  BY DEF TermiosType
<1>2. WithLimits(tio, vmin, vtime) = two
  BY DEF WithLimits
<1> HIDE DEF one
<1>3. /\ two \in TermiosType /\ two.csize = one.csize /\ two.baud = one.baud
      /\ two.cflag = one.cflag /\ two.iflag = one.iflag /\ two.veof = one.veof
      /\ two.vmin = one.vmin /\ two.vtime = vtime
  BY <1>1 DEF TermiosType
<1> QED BY <1>1, <1>2, <1>3

(* A byte is what it was. *)
LEMMA ByteModulo ==
  ASSUME NEW n \in 0 .. 255
  PROVE  n % 256 = n
OBVIOUS

(* What is left of a number fits in a byte. *)
LEMMA InByte ==
  ASSUME NEW n \in Nat
  PROVE  n % 256 \in Byte
BY DEF Byte

(* So do the tenths of any timeout. *)
LEMMA TenthsInByte ==
  ASSUME NEW time \in Nat \union {-1}
  PROVE  Tenths(time) \in Byte
<1> DEFINE timeout == CASE time < 0 -> 0 [] time = 0 -> 1 [] OTHER -> time
<1>1. timeout = IF time < 0 THEN 0 ELSE IF time = 0 THEN 1 ELSE time
  OBVIOUS
<1>2. timeout \in Nat
  BY <1>1
<1>3. Tenths(time) = (timeout \div 100) % 256
  BY DEF Tenths
<1> HIDE DEF timeout
<1>4. timeout \div 100 \in Nat
  BY <1>2
<1> QED BY <1>3, <1>4, InByte

(* A timeout that fits is a number of tenths of a second in a byte. *)
LEMMA TimeoutInTenths ==
  ASSUME NEW time \in Int, -1 <= time, time <= 25599
  PROVE  Tenths(time) \in 0 .. 255 /\ Tenths(time) = IF time < 0 THEN 0 ELSE time \div 100
<1> DEFINE timeout == CASE time < 0 -> 0 [] time = 0 -> 1 [] OTHER -> time
<1>1. timeout = IF time < 0 THEN 0 ELSE IF time = 0 THEN 1 ELSE time
  OBVIOUS
<1>2. timeout \in Int /\ 0 <= timeout /\ timeout <= 25599
  BY <1>1
<1>3. timeout \div 100 = IF time < 0 THEN 0 ELSE time \div 100
  <2>1. CASE time = 0
    BY <1>1, <2>1
  <2>2. CASE time # 0
    BY <1>1, <2>2
  <2> QED BY <2>1, <2>2
<1>4. Tenths(time) = (timeout \div 100) % 256
  BY DEF Tenths
<1> HIDE DEF timeout
<1> DEFINE byte == timeout \div 100
<1>5. byte \in 0 .. 255
  BY <1>2
<1>6. byte % 256 = byte
  <2> HIDE DEF byte
  <2> QED BY <1>5, ByteModulo
<1> QED BY <1>3, <1>4, <1>5, <1>6

-----------------------------------------------------------------------------
(* A step of thread t does not touch what the others have. *)
Others(t) ==
  /\ \A s \in Thread \ {t} :
       pc'[s] = pc[s] /\ arg'[s] = arg[s] /\ image'[s] = image[s] /\ word'[s] = word[s]
  /\ DOMAIN arg' = Thread /\ DOMAIN image' = Thread /\ DOMAIN word' = Thread
  /\ pc' = [pc EXCEPT ![t] = pc'[t]]

(* A step of one thread leaves the calls of the others where they are. *)
LEMMA ThreadStep ==
  ASSUME CallInv, NEW t \in Thread, Calls(t) \/ Steps(t)
  PROVE  Others(t)
<1> USE DEF CallInv, Others, Goto, Return, Reads, ReadsWord, Begins, callVars, javaVars
<1>1. ASSUME NEW p \in Params, SetSerialPortParams(t, p) PROVE Others(t)
  BY <1>1 DEF SetSerialPortParams
<1>2. ASSUME NEW mode \in FlowModes, SetFlowControlMode(t, mode) PROVE Others(t)
  BY <1>2 DEF SetFlowControlMode
<1>3. ASSUME NEW time \in Times \union {-1}, EnableReceiveTimeout(t, time) PROVE Others(t)
  BY <1>3 DEF EnableReceiveTimeout
<1>4. ASSUME NEW thresh \in Thresholds, EnableReceiveThreshold(t, thresh) PROVE Others(t)
  BY <1>4 DEF EnableReceiveThreshold
<1>5. ASSUME NEW char \in EndChars, SetEndOfInputChar(t, char) PROVE Others(t)
  BY <1>5 DEF SetEndOfInputChar
<1>6. ASSUME NEW l \in {"DTR", "RTS", "DSR"}, NEW on \in BOOLEAN, GetLines(t, l, on) PROVE Others(t)
  BY <1>6 DEF GetLines
<1>7. ASSUME NEW base \in BaudBases, NativeSetBaudBase(t, base) PROVE Others(t)
  BY <1>7 DEF NativeSetBaudBase
<1>8. CASE NativeSetDivisor(t)
  BY <1>8 DEF NativeSetDivisor
<1>9. CASE HangUpGet(t) \/ HangUpSet(t) \/ GetDivisor(t) \/ SetDivisor(t) \/ NoDivisor(t)
  BY <1>9 DEF HangUpGet, HangUpSet, GetDivisor, SetDivisor, NoDivisor
<1>10. CASE SetAttr(t) \/ AssignParams(t) \/ AssignFlowMode(t)
  BY <1>10 DEF SetAttr, AssignParams, AssignFlowMode
<1>11. CASE NativeEnableReceiveTimeoutThreshold(t) \/ SetLines(t) \/ PutSerial(t)
  BY <1>11 DEF NativeEnableReceiveTimeoutThreshold, SetLines, PutSerial
<1> QED
  BY <1>1, <1>2, <1>3, <1>4, <1>5, <1>6, <1>7, <1>8, <1>9, <1>10, <1>11 DEF Calls, Steps

(* Whoever begins a call is alone with the words it rewrites. *)
LEMMA TurnBegins ==
  ASSUME TakeTurns, CallInv, TurnInv, NEW t \in Thread, NEW call, call.kind \in Kind,
         Begins(t, call), call.kind = "params" => Monitor(t), Others(t)
  PROVE  TurnInv'
<1> USE DEF Doing, Busy
<1>1. \A s \in Thread : Busy(s) => {call.kind, arg[s].kind} \in Together /\ arg[s].kind \in Kind
  BY DEF Begins, CallInv
<1>2. \A s \in Thread : ~Doing(s, Termios) \/ call.kind \notin Termios
  BY <1>1 DEF TakeTurns, Monitor, Termios, Begins
<1>3. \A s \in Thread : ~Doing(s, Lines) \/ call.kind \notin Lines
  BY <1>1 DEF TakeTurns, Monitor, Lines, Begins
<1>4. arg'[t] = call
  BY DEF Begins, CallInv
<1>5. \A s \in Thread \ {t} : pc'[s] = pc[s] /\ arg'[s] = arg[s]
  BY DEF Others
<1> QED BY <1>2, <1>3, <1>4, <1>5 DEF TurnInv

(* Whoever goes on, or returns, does not disturb the turns. *)
LEMMA TurnGoesOn ==
  ASSUME TurnInv, NEW t \in Thread, Others(t), Busy(t), arg'[t] = arg[t] \/ ~Busy(t)'
  PROVE  TurnInv'
BY DEF TurnInv, Doing, Busy, Others

(* What a step of t leaves to prove about the calls: that of t. *)
LEMMA CallsGoOn ==
  ASSUME CallInv, NEW t \in Thread, Others(t), pc'[t] \in PC,
         Busy(t)' => arg'[t].kind \in Kind, CallOf(t)'
  PROVE  CallInv'
<1>1. \A s \in Thread \ {t} : CallOf(s)' /\ (Busy(s)' => arg'[s].kind \in Kind)
  BY DEF CallInv, CallOf, Doing, Busy, Others
<1>2. pc' \in [Thread -> PC]
  BY DEF CallInv, Others
<1> QED BY <1>1, <1>2 DEF CallInv, Others

(* The others have read nothing that t changes. *)
LEMMA ImagesGoOn ==
  ASSUME TurnInv, TurnInv', ImageInv, NEW t \in Thread, Others(t),
         UNCHANGED <<tty, fields>> \/ Doing(t, Termios) \/ Doing(t, Termios)', ImageOf(t)'
  PROVE  ImageInv'
<1> SUFFICES ASSUME NEW s \in Thread \ {t} PROVE ImageOf(s)'
  BY DEF ImageInv
<1>1. pc'[s] = pc[s] /\ arg'[s] = arg[s] /\ image'[s] = image[s]
  BY DEF Others
<1>2. \A kinds : Doing(s, kinds)' = Doing(s, kinds)
  BY <1>1 DEF Doing, Busy
<1>3. CASE UNCHANGED <<tty, fields>>
  <2>1. ParamsImage(s) => ParamsImage(s)'
    BY <1>1, <1>3 DEF ParamsImage
  <2>2. FlowImage(s) => FlowImage(s)'
    BY <1>1, <1>3 DEF FlowImage
  <2>3. LimitsImage(s) => LimitsImage(s)'
    BY <1>1, <1>3 DEF LimitsImage
  <2>4. EndImage(s) => EndImage(s)'
    BY <1>1, <1>3 DEF EndImage
  <2> QED BY <1>2, <2>1, <2>2, <2>3, <2>4 DEF ImageInv, ImageOf
<1>4. CASE Doing(t, Termios) \/ Doing(t, Termios)'
  <2>1. ~Doing(s, Termios)
    BY <1>2, <1>4 DEF TurnInv
  <2>2. ~Doing(s, {"params"}) /\ ~Doing(s, {"flow"}) /\ ~Doing(s, {"limits"}) /\ ~Doing(s, {"eof"})
    BY <2>1 DEF Doing, Termios
  <2> QED BY <1>2, <2>2 DEF ImageOf
<1> QED BY <1>3, <1>4

(* The lines are as asked after a step that touches neither them nor a call on them. *)
LEMMA LinesGoOn ==
  ASSUME CallInv, TurnInv, LinesInv, NEW t \in Thread, Others(t),
         lines' = lines \/ Doing(t, Lines), lines' = asked'.lines, LinesOf(t)'
  PROVE  LinesInv'
<1> SUFFICES ASSUME NEW s \in Thread \ {t} PROVE LinesOf(s)'
  BY DEF LinesInv
<1>1. pc'[s] = pc[s] /\ arg'[s] = arg[s] /\ word'[s] = word[s]
  BY DEF Others
<1>2. CASE lines' = lines
  BY <1>1, <1>2 DEF LinesInv, LinesOf
<1>3. CASE Doing(t, Lines)
  <2>1. ~Doing(s, Lines)
    BY <1>3 DEF TurnInv
  <2>2. pc[s] \notin {"hungup", "setlines"}
    BY <2>1 DEF CallInv, CallOf, Doing, Busy, Kind, Lines
  <2> QED BY <1>1, <2>2 DEF LinesOf
<1> QED BY <1>2, <1>3

(* A step between the first and the last of a call *)
LEMMA StepGoesOn ==
  ASSUME IndInv, NEW t \in Thread, Others(t), Busy(t), arg'[t] = arg[t] \/ ~Busy(t)',
         pc'[t] \in PC, CallOf(t)',
         UNCHANGED <<tty, fields>> \/ Doing(t, Termios), ImageOf(t)',
         lines' = lines \/ Doing(t, Lines), lines' = asked'.lines, LinesOf(t)',
         TypeInv', FieldsInv'
  PROVE  IndInv'
<1>1. TurnInv'
  BY TurnGoesOn DEF IndInv
<1>2. Busy(t)' => arg'[t].kind \in Kind
  BY DEF IndInv, CallInv
<1>3. CallInv'
  BY <1>2, CallsGoOn DEF IndInv
<1>4. ImageInv'
  BY <1>1, ImagesGoOn DEF IndInv
<1>5. LinesInv'
  BY LinesGoOn DEF IndInv
<1> QED BY <1>1, <1>3, <1>4, <1>5 DEF IndInv

(* The step that begins a call *)
LEMMA StepBegins ==
  ASSUME TakeTurns, IndInv, NEW t \in Thread, NEW call, call.kind \in Kind,
         Begins(t, call), call.kind = "params" => Monitor(t), Others(t),
         pc'[t] \in PC \ {"idle", "assign"}, CallOf(t)', ImageOf(t)', LinesOf(t)',
         UNCHANGED <<tty, lines, asked, monThreadisInterrupted>>,
         \/ fields' = fields
         \/ /\ call.kind = "limits" /\ fields' \in FieldsType
            /\ \A f \in {"speed", "dataBits", "stopBits", "parity", "flowmode"} :
                 fields'[f] = fields[f]
  PROVE  IndInv'
<1>1. ~Busy(t) /\ Busy(t)' /\ arg'[t] = call
  BY DEF Begins, Busy, IndInv, CallInv
<1>2. TurnInv'
  BY TurnBegins DEF IndInv
<1>3. CallInv'
  BY <1>1, CallsGoOn DEF IndInv
<1>4. UNCHANGED <<tty, fields>> \/ Doing(t, Termios)'
  BY <1>1 DEF Doing, Termios
<1>5. ImageInv'
  BY <1>2, <1>4, ImagesGoOn DEF IndInv
<1>6. LinesInv'
  <2>1. lines' = asked'.lines
    BY DEF IndInv, LinesInv
  <2> QED BY <2>1, LinesGoOn DEF IndInv
<1>7. TypeInv'
  BY DEF IndInv, TypeInv
<1>8. FieldsInv'
  <2>1. /\ fields'.speed = fields.speed /\ fields'.dataBits = fields.dataBits
        /\ fields'.stopBits = fields.stopBits /\ fields'.parity = fields.parity
        /\ fields'.flowmode = fields.flowmode
    OBVIOUS
  <2>2. ASSUME NEW kinds, \A s \in Thread : ~(Doing(s, kinds) /\ pc[s] = "assign")'
        PROVE  \A s \in Thread : ~(Doing(s, kinds) /\ pc[s] = "assign")
    BY <1>1, <2>2 DEF Others, Doing, Busy
  <2>3. ASSUME \A s \in Thread : ~Doing(s, {"limits"})'
        PROVE  fields' = fields /\ \A s \in Thread : ~Doing(s, {"limits"})
    BY <1>1, <2>3 DEF Others, Doing, Busy
  <2> QED BY <2>1, <2>2, <2>3 DEF IndInv, FieldsInv
<1> QED BY <1>2, <1>3, <1>5, <1>6, <1>7, <1>8 DEF IndInv

-----------------------------------------------------------------------------
(* Every code stands for a speed. *)
LEMMA RatesAreNumbers == \A c \in Code : BaudOf[c] \in Int
<1>1. \A c \in 1 .. 15 : SlowRates[c] \in Int /\ FastRates[c] \in Int
  BY DEF SlowRates, FastRates
<1>2. ASSUME NEW c \in Code
      PROVE  c \in Int /\ (c < 16 /\ c # 0 => c \in 1 .. 15) /\ (c >= 16 => c - 4096 \in 1 .. 15)
  BY DEF Code
<1> QED BY <1>1, <1>2 DEF BaudOf

(* A port that has been opened has what the fields say. *)
LEMMA IndInit == Init => IndInv
<1> SUFFICES ASSUME Init PROVE IndInv
  OBVIOUS
<1> DEFINE default == [speed |-> 9600, dataBits |-> 8, stopBits |-> STOPBITS_1, parity |-> "NONE"]
<1>1. PICK v \in {default} \union {p \in Params : Supported(p) /\ p.speed \in Predefined} :
        /\ tty = Parameterised(configure_port, v)
        /\ LET j == set_java_vars(tty)
           IN fields = [speed |-> j.speed, dataBits |-> j.dataBits, stopBits |-> j.stopBits,
                        parity |-> j.parity, flowmode |-> {}, timeout |-> -1, threshold |-> 0]
  BY DEF Init
<1>2. v.dataBits \in DataBits /\ v.stopBits \in StopBits /\ v.parity \in Parity
  <2>1. CASE v = default
    BY <2>1 DEF DataBits, StopBits, Parity
  <2>2. CASE v # default
    BY <2>2 DEF Supported
  <2> QED BY <2>1, <2>2
<1>3. /\ configure_port \in TermiosType
      /\ configure_port.vmin = 0 /\ configure_port.vtime = 0
      /\ configure_port.cflag = {} /\ configure_port.iflag = {"INPCK"}
  BY DEF configure_port, TermiosType, DataBits, Code, Byte
<1>4. /\ tty \in TermiosType /\ SameElsewhere(tty, configure_port)
      /\ ParamsMatch(tty, v.speed, DataBitsOf(v), v.stopBits, v.parity)
  BY <1>1, <1>2, <1>3, ParameterisedIs
<1>5. /\ tty.csize \in DataBits /\ tty.baud \in Code /\ BaudOf[tty.baud] \in Int
  BY <1>4, RatesAreNumbers DEF TermiosType
<1>6. /\ fields.speed = BaudOf[tty.baud] /\ fields.dataBits = tty.csize
      /\ fields.parity = v.parity /\ fields.flowmode = {} /\ fields.timeout = -1
      /\ fields.threshold = 0
      /\ fields.stopBits = IF "CSTOPB" \notin tty.cflag THEN STOPBITS_1
                           ELSE IF tty.csize = 5 THEN STOPBITS_1_5 ELSE STOPBITS_2
      /\ fields = [speed |-> fields.speed, dataBits |-> fields.dataBits,
                   stopBits |-> fields.stopBits, parity |-> fields.parity,
                   flowmode |-> fields.flowmode, timeout |-> fields.timeout,
                   threshold |-> fields.threshold]
  <2>1. set_java_vars(tty).parity = v.parity
    BY <1>2, <1>4, ParityOfBits DEF set_java_vars, ParamsMatch
  <2>2. /\ set_java_vars(tty).speed = BaudOf[tty.baud] /\ set_java_vars(tty).dataBits = tty.csize
        /\ set_java_vars(tty).stopBits = IF "CSTOPB" \notin tty.cflag THEN STOPBITS_1
                                         ELSE IF tty.csize = 5 THEN STOPBITS_1_5 ELSE STOPBITS_2
    BY <1>5 DEF set_java_vars, get_java_baudrate
  <2> QED BY <1>1, <2>1, <2>2
<1>7. fields.stopBits \in StopBits /\ fields \in FieldsType
  <2>1. fields.stopBits \in StopBits
    BY <1>6 DEF StopBits
  <2> QED BY <1>2, <1>5, <1>6, <2>1 DEF FieldsType
<1>8. /\ lines = {"DTR", "RTS"} /\ asked = [lines |-> lines, veof |-> tty.veof]
      /\ pc = [t \in Thread |-> "idle"] /\ DOMAIN arg = Thread /\ DOMAIN image = Thread
      /\ DOMAIN word = Thread
  BY DEF Init
<1>9. TypeInv
  <2>1. tty.veof \in EndChars \union {"default"}
    BY <1>4 DEF TermiosType
  <2>2. asked \in AskedType
    BY <1>8, <2>1 DEF AskedType
  <2>3. monThreadisInterrupted \in BOOLEAN
    <3> HIDE DEF default
    <3>1. monThreadisInterrupted = FALSE
      BY DEF Init
    <3> QED BY <3>1
  <2> QED BY <1>4, <1>7, <2>2, <2>3 DEF TypeInv
<1>10. \A t \in Thread : pc[t] = "idle" /\ ~Busy(t)
  BY <1>8 DEF Busy
<1>11. CallInv /\ TurnInv /\ ImageInv
  <2>1. CallInv
    BY <1>8, <1>10 DEF CallInv, CallOf, Doing, PC
  <2>2. TurnInv
    BY <1>10 DEF TurnInv, Doing
  <2>3. ImageInv
    <3> HIDE DEF default
    <3> QED BY <1>10 DEF ImageInv, ImageOf, Doing
  <2> QED BY <2>1, <2>2, <2>3
<1>12. FieldsInv
  <2>1. ParamsMatch(tty, fields.speed, fields.dataBits, fields.stopBits, fields.parity)
    BY <1>4, <1>6 DEF ParamsMatch, STOPBITS_1, STOPBITS_2, STOPBITS_1_5
  <2>2. FlowMatch(tty, fields.flowmode)
    BY <1>3, <1>4, <1>6 DEF FlowMatch, SameElsewhere
  <2>3. LimitsMatch(tty, fields.timeout, fields.threshold)
    <3>1. tty.vmin = 0 /\ tty.vtime = 0 /\ fields.threshold = 0 /\ fields.timeout = -1
      BY <1>3, <1>4, <1>6 DEF SameElsewhere
    <3>2. fields.threshold % 256 = 0
      BY <3>1, ByteModulo
    <3>3. Tenths(-1) = 0
      BY TimeoutInTenths
    <3> QED BY <3>1, <3>2, <3>3 DEF LimitsMatch
  <2> QED BY <1>8, <2>1, <2>2, <2>3 DEF FieldsInv
<1>13. LinesInv
  BY <1>8, <1>10 DEF LinesInv, LinesOf
<1> QED BY <1>9, <1>11, <1>12, <1>13 DEF IndInv

-----------------------------------------------------------------------------
(* The steps that begin calls *)
LEMMA ParamsBegin ==
  ASSUME TakeTurns, IndInv, NEW t \in Thread, NEW p \in Params, SetSerialPortParams(t, p)
  PROVE  IndInv'
<1> DEFINE call == [kind |-> "params", p |-> p]
<1>1. Others(t)
  BY ThreadStep DEF Calls, IndInv
<1>2. /\ pc'[t] \in {"hangup", "setattr", "divisor"} /\ Supported(p)
      /\ arg'[t] = call /\ image'[t] = Parameterised(tty, p)
      /\ UNCHANGED <<fields, tty, lines, asked, monThreadisInterrupted>>
      /\ Begins(t, call) /\ Monitor(t)
  BY DEF SetSerialPortParams, Begins, Reads, Goto, IndInv, CallInv, javaVars
<1>3. CallOf(t)'
  BY <1>2 DEF CallOf, Doing
<1>4. ImageOf(t)'
  BY <1>2 DEF ImageOf, Doing, ParamsImage
<1>5. LinesOf(t)'
  BY <1>2 DEF LinesOf
<1>6. pc'[t] \in PC \ {"idle", "assign"} /\ call.kind \in Kind
  BY <1>2 DEF PC, Kind
<1> HIDE DEF call
<1> QED BY <1>1, <1>2, <1>3, <1>4, <1>5, <1>6, StepBegins

(* setFlowControlMode begins. *)
LEMMA FlowBegins ==
  ASSUME TakeTurns, IndInv, NEW t \in Thread, NEW mode \in FlowModes, SetFlowControlMode(t, mode)
  PROVE  IndInv'
<1> DEFINE call == [kind |-> "flow", mode |-> mode]
<1>1. Others(t)
  BY ThreadStep DEF Calls, IndInv
<1>2. /\ pc'[t] = "setattr" /\ arg'[t] = call /\ image'[t] = FlowBits(tty, mode)
      /\ UNCHANGED <<fields, tty, lines, asked, monThreadisInterrupted>>
      /\ Begins(t, call)
  BY DEF SetFlowControlMode, Begins, Reads, Goto, IndInv, CallInv, javaVars
<1>3. CallOf(t)' /\ LinesOf(t)'
  BY <1>2 DEF CallOf, Doing, LinesOf
<1>4. ImageOf(t)'
  BY <1>2 DEF ImageOf, Doing, FlowImage
<1>5. pc'[t] \in PC \ {"idle", "assign"} /\ call.kind \in Kind /\ call.kind # "params"
  BY <1>2 DEF PC, Kind
<1> HIDE DEF call
<1> QED BY <1>1, <1>2, <1>3, <1>4, <1>5, StepBegins

(* enableReceiveTimeout begins. *)
LEMMA TimeoutBegins ==
  ASSUME TakeTurns, IndInv, NEW t \in Thread, NEW time \in Times \union {-1},
         EnableReceiveTimeout(t, time)
  PROVE  IndInv'
<1> DEFINE call == [kind |-> "limits", time |-> time, threshold |-> fields.threshold]
<1>1. Others(t)
  BY ThreadStep DEF Calls, IndInv
<1>2. /\ pc'[t] = "limits" /\ arg'[t] = call
      /\ UNCHANGED <<tty, lines, asked, monThreadisInterrupted>>
      /\ Begins(t, call) /\ fields' = [fields EXCEPT !.timeout = time]
  BY DEF EnableReceiveTimeout, Begins, Goto, IndInv, CallInv
<1>3. fields \in FieldsType
  BY DEF IndInv, TypeInv
<1>4. /\ fields' \in FieldsType /\ fields'.timeout = time /\ fields'.threshold = fields.threshold
      /\ fields.threshold \in Thresholds \union {0}
      /\ \A f \in {"speed", "dataBits", "stopBits", "parity", "flowmode"} : fields'[f] = fields[f]
  BY <1>2, <1>3 DEF FieldsType
<1>5. CallOf(t)' /\ LinesOf(t)'
  BY <1>2, <1>4 DEF CallOf, Doing, LinesOf
<1>6. ImageOf(t)'
  BY <1>2, <1>4 DEF ImageOf, Doing, LimitsImage
<1>7. /\ pc'[t] \in PC \ {"idle", "assign"}
      /\ call.kind \in Kind /\ call.kind # "params" /\ call.kind = "limits"
  BY <1>2 DEF PC, Kind
<1> HIDE DEF call
<1> QED BY <1>1, <1>2, <1>4, <1>5, <1>6, <1>7, StepBegins

(* enableReceiveThreshold begins. *)
LEMMA ThresholdBegins ==
  ASSUME TakeTurns, IndInv, NEW t \in Thread, NEW thresh \in Thresholds,
         EnableReceiveThreshold(t, thresh)
  PROVE  IndInv'
<1> DEFINE call == [kind |-> "limits", time |-> fields.timeout, threshold |-> thresh]
<1>1. Others(t)
  BY ThreadStep DEF Calls, IndInv
<1>2. /\ pc'[t] = "limits" /\ arg'[t] = call
      /\ UNCHANGED <<tty, lines, asked, monThreadisInterrupted>>
      /\ Begins(t, call) /\ fields' = [fields EXCEPT !.threshold = thresh]
  BY DEF EnableReceiveThreshold, Begins, Goto, IndInv, CallInv
<1>3. fields \in FieldsType
  BY DEF IndInv, TypeInv
<1>4. /\ fields' \in FieldsType /\ fields'.threshold = thresh /\ fields'.timeout = fields.timeout
      /\ fields.timeout \in Times \union {-1}
      /\ \A f \in {"speed", "dataBits", "stopBits", "parity", "flowmode"} : fields'[f] = fields[f]
  BY <1>2, <1>3 DEF FieldsType
<1>5. CallOf(t)' /\ LinesOf(t)'
  BY <1>2, <1>4 DEF CallOf, Doing, LinesOf
<1>6. ImageOf(t)'
  BY <1>2, <1>4 DEF ImageOf, Doing, LimitsImage
<1>7. /\ pc'[t] \in PC \ {"idle", "assign"}
      /\ call.kind \in Kind /\ call.kind # "params" /\ call.kind = "limits"
  BY <1>2 DEF PC, Kind
<1> HIDE DEF call
<1> QED BY <1>1, <1>2, <1>4, <1>5, <1>6, <1>7, StepBegins

(* setEndOfInputChar begins. *)
LEMMA EndCharBegins ==
  ASSUME TakeTurns, IndInv, NEW t \in Thread, NEW char \in EndChars, SetEndOfInputChar(t, char)
  PROVE  IndInv'
<1> DEFINE call == [kind |-> "eof", char |-> char]
<1>1. Others(t)
  BY ThreadStep DEF Calls, IndInv
<1>2. /\ pc'[t] = "setattr" /\ arg'[t] = call /\ image'[t] = WithEnd(tty, char)
      /\ UNCHANGED <<fields, tty, lines, asked, monThreadisInterrupted>>
      /\ Begins(t, call)
  BY DEF SetEndOfInputChar, Begins, Reads, Goto, IndInv, CallInv, javaVars, WithEnd
<1>3. CallOf(t)' /\ LinesOf(t)'
  BY <1>2 DEF CallOf, Doing, LinesOf
<1>4. ImageOf(t)'
  BY <1>2 DEF ImageOf, Doing, EndImage
<1>5. pc'[t] \in PC \ {"idle", "assign"} /\ call.kind \in Kind /\ call.kind # "params"
  BY <1>2 DEF PC, Kind
<1> HIDE DEF call
<1> QED BY <1>1, <1>2, <1>3, <1>4, <1>5, StepBegins

(* setDTR, setRTS or setDSR begins. *)
LEMMA LineBegins ==
  ASSUME TakeTurns, IndInv, NEW t \in Thread, NEW l \in {"DTR", "RTS", "DSR"}, NEW on \in BOOLEAN,
         l = "DSR" => ~on, GetLines(t, l, on), Others(t)
  PROVE  IndInv'
<1> DEFINE call == [kind |-> "line", line |-> l, on |-> on]
<1>1. /\ pc'[t] = "setlines" /\ arg'[t] = call
      /\ word'[t] = CASE l = "DTR" -> setDTR(on) [] l = "RTS" -> setRTS(on) [] l = "DSR" -> setDSR
      /\ UNCHANGED <<fields, tty, lines, asked, monThreadisInterrupted>>
      /\ Begins(t, call)
  BY DEF GetLines, Begins, ReadsWord, Goto, IndInv, CallInv, javaVars
<1>2. CallOf(t)' /\ ImageOf(t)'
  BY <1>1 DEF CallOf, ImageOf, Doing
<1>3. LinesOf(t)'
  <2>1. word'[t] = IF on THEN lines \union {l} ELSE lines \ {l}
    <3>1. lines \subseteq {"DTR", "RTS"}
      BY DEF IndInv, TypeInv, LinesInv, AskedType
    <3> QED BY <1>1, <3>1 DEF setDTR, setRTS, setDSR
  <2> QED BY <1>1, <2>1 DEF LinesOf
<1>4. pc'[t] \in PC \ {"idle", "assign"} /\ call.kind \in Kind /\ call.kind # "params"
  BY <1>1 DEF PC, Kind
<1> HIDE DEF call
<1> QED BY <1>1, <1>2, <1>3, <1>4, StepBegins

(* A call that rewrites the serial_struct begins. *)
LEMMA SerialBegins ==
  ASSUME TakeTurns, IndInv, NEW t \in Thread,
         NativeSetDivisor(t) \/ \E base \in BaudBases : NativeSetBaudBase(t, base)
  PROVE  IndInv'
<1> DEFINE call == [kind |-> "serial"]
<1>1. Others(t)
  BY ThreadStep DEF Calls, IndInv
<1>2. /\ pc'[t] = "putserial" /\ arg'[t] = call
      /\ UNCHANGED <<fields, tty, lines, asked, monThreadisInterrupted>>
      /\ Begins(t, call)
  BY DEF NativeSetDivisor, NativeSetBaudBase, Begins, Goto, IndInv, CallInv, javaVars
<1>3. CallOf(t)' /\ ImageOf(t)' /\ LinesOf(t)'
  BY <1>2 DEF CallOf, ImageOf, Doing, LinesOf
<1>4. pc'[t] \in PC \ {"idle", "assign"} /\ call.kind \in Kind /\ call.kind # "params"
  BY <1>2 DEF PC, Kind
<1> HIDE DEF call
<1> QED BY <1>1, <1>2, <1>3, <1>4, StepBegins

-----------------------------------------------------------------------------
(* The steps that leave the termios structure and the fields alone *)
LEMMA FieldsStay ==
  ASSUME FieldsInv, NEW t \in Thread, Others(t), UNCHANGED <<fields, tty>>,
         asked'.veof = asked.veof, pc[t] # "assign",
         Doing(t, {"limits"})' <=> Doing(t, {"limits"})
  PROVE  FieldsInv'
<1>1. ASSUME NEW kinds, \A s \in Thread : ~(Doing(s, kinds) /\ pc[s] = "assign")'
      PROVE  \A s \in Thread : ~(Doing(s, kinds) /\ pc[s] = "assign")
  BY <1>1 DEF Others, Doing, Busy
<1>2. ASSUME \A s \in Thread : ~Doing(s, {"limits"})'
      PROVE  \A s \in Thread : ~Doing(s, {"limits"})
  BY <1>2 DEF Others, Doing, Busy
<1> QED BY <1>1, <1>2 DEF FieldsInv

(* What is where a call to setSerialPortParams only can be *)
LEMMA OnlyParams ==
  ASSUME CallInv, NEW t \in Thread, pc[t] \in {"hangup", "hungup", "divisor", "setserial"}
  PROVE  Busy(t) /\ arg[t].kind = "params"
BY DEF CallInv, CallOf, Doing, Busy, Kind

(* Speed 0 reads the output lines in order to lower DTR. *)
LEMMA HangUpGetKeeps ==
  ASSUME IndInv, NEW t \in Thread, HangUpGet(t)
  PROVE  IndInv'
<1>1. Others(t)
  BY ThreadStep DEF Steps, IndInv
<1>2. /\ pc[t] = "hangup" /\ pc'[t] = "hungup" /\ word'[t] = lines \ {"DTR"}
      /\ arg'[t] = arg[t] /\ image'[t] = image[t]
      /\ UNCHANGED <<fields, tty, lines, asked, monThreadisInterrupted>>
  BY DEF HangUpGet, ReadsWord, Goto, IndInv, CallInv, javaVars
<1>3. Busy(t) /\ arg[t].kind = "params"
  BY <1>2, OnlyParams DEF IndInv
<1>4. CallOf(t)'
  BY <1>2, <1>3 DEF CallOf, Doing, Busy, IndInv, CallInv
<1>5. ImageOf(t)'
  BY <1>2, <1>3 DEF ImageOf, Doing, Busy, ParamsImage, IndInv, ImageInv
<1>6. LinesOf(t)'
  BY <1>2 DEF LinesOf
<1>7. TypeInv' /\ lines' = asked'.lines /\ pc'[t] \in PC
  BY <1>2 DEF TypeInv, IndInv, LinesInv, PC
<1>8. FieldsInv'
  BY <1>1, <1>2, <1>3, FieldsStay DEF Doing, IndInv
<1> QED BY <1>1, <1>2, <1>3, <1>4, <1>5, <1>6, <1>7, <1>8, StepGoesOn

(* Speed 0 has lowered DTR, which is what was asked. *)
LEMMA HangUpSetKeeps ==
  ASSUME IndInv, NEW t \in Thread, HangUpSet(t)
  PROVE  IndInv'
<1>1. Others(t)
  BY ThreadStep DEF Steps, IndInv
<1>2. /\ pc[t] = "hungup" /\ pc'[t] = "setattr"
      /\ arg'[t] = arg[t] /\ image'[t] = image[t]
      /\ lines' = word[t] /\ asked' = [asked EXCEPT !.lines = @ \ {"DTR"}]
      /\ UNCHANGED <<fields, tty, monThreadisInterrupted>>
  BY DEF HangUpSet, Goto, IndInv, CallInv, javaVars, callVars
<1>3. Busy(t) /\ arg[t].kind = "params"
  BY <1>2, OnlyParams DEF IndInv
<1>4. CallOf(t)'
  BY <1>2, <1>3 DEF CallOf, Doing, Busy, IndInv, CallInv
<1>5. ImageOf(t)'
  BY <1>2, <1>3 DEF ImageOf, Doing, Busy, ParamsImage, IndInv, ImageInv
<1>6. LinesOf(t)' /\ pc'[t] \in PC
  BY <1>2 DEF LinesOf, PC
<1>7. word[t] = lines \ {"DTR"} /\ lines = asked.lines
  BY <1>2 DEF IndInv, LinesInv, LinesOf
<1>8. /\ asked' \in AskedType /\ asked'.veof = asked.veof
      /\ asked'.lines = asked.lines \ {"DTR"}
  BY <1>2 DEF IndInv, TypeInv, AskedType
<1>9. TypeInv' /\ lines' = asked'.lines
  BY <1>2, <1>7, <1>8 DEF TypeInv, IndInv
<1>10. FieldsInv'
  BY <1>1, <1>2, <1>3, <1>8, FieldsStay DEF Doing, IndInv
<1>11. Doing(t, Lines)
  BY <1>3 DEF Doing, Lines
<1> QED BY <1>1, <1>2, <1>3, <1>4, <1>5, <1>6, <1>9, <1>10, <1>11, StepGoesOn

(* The way through the divisor leaves the termios structure alone. *)
LEMMA DivisorKeeps ==
  ASSUME IndInv, NEW t \in Thread, GetDivisor(t) \/ SetDivisor(t)
  PROVE  IndInv'
<1>1. Others(t)
  BY ThreadStep DEF Steps, IndInv
<1>2. /\ pc[t] \in {"divisor", "setserial"} /\ pc'[t] \in {"setserial", "setattr"}
      /\ arg'[t] = arg[t] /\ image'[t] = image[t]
      /\ UNCHANGED <<fields, tty, lines, asked, monThreadisInterrupted>>
  BY DEF GetDivisor, SetDivisor, ReadsWord, Goto, IndInv, CallInv, javaVars, callVars
<1>3. Busy(t) /\ arg[t].kind = "params"
  BY <1>2, OnlyParams DEF IndInv
<1>4. CallOf(t)'
  BY <1>2, <1>3 DEF CallOf, Doing, Busy, IndInv, CallInv
<1>5. ImageOf(t)'
  BY <1>2, <1>3 DEF ImageOf, Doing, Busy, ParamsImage, IndInv, ImageInv
<1>6. LinesOf(t)' /\ pc'[t] \in PC
  BY <1>2 DEF LinesOf, PC
<1>7. TypeInv' /\ lines' = asked'.lines
  BY <1>2 DEF TypeInv, IndInv, LinesInv
<1>8. FieldsInv'
  BY <1>1, <1>2, <1>3, FieldsStay DEF Doing, IndInv
<1> QED BY <1>1, <1>2, <1>3, <1>4, <1>5, <1>6, <1>7, <1>8, StepGoesOn

(* A return that leaves everything as it is, but for the divisor *)
LEMMA ReturnKeeps ==
  ASSUME IndInv, NEW t \in Thread, NoDivisor(t) \/ PutSerial(t)
  PROVE  IndInv'
<1>1. Others(t)
  BY ThreadStep DEF Steps, IndInv
<1>2. /\ pc[t] \in {"divisor", "setserial", "putserial"} /\ pc'[t] = "idle"
      /\ UNCHANGED <<fields, tty, lines, asked, monThreadisInterrupted>>
  BY DEF NoDivisor, PutSerial, Return, Goto, IndInv, CallInv, javaVars
<1>3. Busy(t) /\ ~Busy(t)' /\ ~Doing(t, {"limits"})
  BY <1>2 DEF IndInv, CallInv, CallOf, Doing, Busy
<1>4. CallOf(t)' /\ ImageOf(t)' /\ LinesOf(t)' /\ pc'[t] \in PC
  BY <1>2, <1>3 DEF CallOf, ImageOf, LinesOf, Doing, PC
<1>5. TypeInv' /\ lines' = asked'.lines
  BY <1>2 DEF TypeInv, IndInv, LinesInv
<1>6. FieldsInv'
  <2>1. ~Doing(t, {"limits"})'
    BY <1>3 DEF Doing
  <2>2. pc[t] # "assign"
    BY <1>2
  <2> QED BY <1>1, <1>2, <1>3, <2>1, <2>2, FieldsStay DEF IndInv
<1> QED BY <1>1, <1>2, <1>3, <1>4, <1>5, <1>6, StepGoesOn

(* setDTR, setRTS and setDSR write the lines and return. *)
LEMMA SetLinesKeeps ==
  ASSUME IndInv, NEW t \in Thread, SetLines(t)
  PROVE  IndInv'
<1>1. Others(t)
  BY ThreadStep DEF Steps, IndInv
<1>2. /\ pc[t] = "setlines" /\ pc'[t] = "idle" /\ lines' = word[t]
      /\ asked' = [asked EXCEPT !.lines = IF arg[t].on THEN @ \union {arg[t].line}
                                          ELSE @ \ {arg[t].line}]
      /\ UNCHANGED <<fields, tty, monThreadisInterrupted>>
  BY DEF SetLines, Return, Goto, IndInv, CallInv, javaVars
<1>3. /\ Busy(t) /\ ~Busy(t)' /\ Doing(t, {"line"}) /\ ~Doing(t, {"limits"}) /\ Doing(t, Lines)
  BY <1>2 DEF IndInv, CallInv, CallOf, Doing, Busy, Kind, Lines
<1>4. CallOf(t)' /\ ImageOf(t)' /\ LinesOf(t)' /\ pc'[t] \in PC
  BY <1>2, <1>3 DEF CallOf, ImageOf, LinesOf, Doing, PC
<1>5. /\ word[t] = IF arg[t].on THEN lines \union {arg[t].line} ELSE lines \ {arg[t].line}
      /\ lines = asked.lines
  BY <1>2 DEF IndInv, LinesInv, LinesOf
<1>6. arg[t].line \in {"DTR", "RTS", "DSR"} /\ (arg[t].line = "DSR" => ~arg[t].on)
  BY <1>3 DEF IndInv, CallInv, CallOf
<1>7. /\ asked' \in AskedType /\ asked'.veof = asked.veof
      /\ asked'.lines = IF arg[t].on THEN asked.lines \union {arg[t].line}
                        ELSE asked.lines \ {arg[t].line}
  BY <1>2, <1>6 DEF IndInv, TypeInv, AskedType
<1>8. TypeInv' /\ lines' = asked'.lines
  BY <1>2, <1>5, <1>7 DEF TypeInv, IndInv
<1>9. FieldsInv'
  <2>1. ~Doing(t, {"limits"})'
    BY <1>3 DEF Doing
  <2> QED BY <1>1, <1>2, <1>3, <1>7, <2>1, FieldsStay DEF IndInv
<1> QED BY <1>1, <1>2, <1>3, <1>4, <1>8, <1>9, StepGoesOn

(* Threshold and timeout are put into the settings that have been read. *)
LEMMA LimitsKeeps ==
  ASSUME IndInv, NEW t \in Thread, NativeEnableReceiveTimeoutThreshold(t)
  PROVE  IndInv'
<1> DEFINE vmin  == arg[t].threshold % 256
           vtime == Tenths(arg[t].time)
<1>1. Others(t)
  BY ThreadStep DEF Steps, IndInv
<1>2. /\ pc[t] = "limits" /\ pc'[t] = "setattr"
      /\ arg'[t] = arg[t] /\ image'[t] = WithLimits(tty, vmin, vtime)
      /\ UNCHANGED <<fields, tty, lines, asked, monThreadisInterrupted>>
  BY DEF NativeEnableReceiveTimeoutThreshold, Reads, Goto, IndInv, CallInv, javaVars, WithLimits, Tenths
<1>3. Busy(t) /\ arg[t].kind = "limits" /\ Doing(t, {"limits"})
  BY <1>2 DEF IndInv, CallInv, CallOf, Doing, Busy, Kind
<1>4. /\ arg[t].time = fields.timeout /\ arg[t].threshold = fields.threshold
      /\ arg[t].time \in Times \union {-1} /\ arg[t].threshold \in Thresholds \union {0}
  BY <1>3 DEF IndInv, ImageInv, ImageOf, LimitsImage, CallInv, CallOf
<1>5. vmin \in Byte /\ vmin = fields.threshold % 256
  BY <1>4, SettingsAssumption, InByte
<1>6. vtime \in Byte /\ vtime = Tenths(fields.timeout)
  BY <1>4, SettingsAssumption, TenthsInByte
<1> HIDE DEF vmin, vtime
<1>7. CallOf(t)'
  BY <1>2, <1>3 DEF CallOf, Doing, Busy, IndInv, CallInv
<1>8. ImageOf(t)'
  <2>1. LimitsImage(t)'
    BY <1>2, <1>4, <1>5, <1>6 DEF LimitsImage
  <2> QED BY <1>2, <1>3, <2>1 DEF ImageOf, Doing
<1>9. LinesOf(t)' /\ pc'[t] \in PC
  BY <1>2 DEF LinesOf, PC
<1>10. TypeInv' /\ lines' = asked'.lines
  BY <1>2 DEF TypeInv, IndInv, LinesInv
<1>11. FieldsInv'
  <2>1. Doing(t, {"limits"})' <=> Doing(t, {"limits"})
    BY <1>2, <1>3 DEF Doing, Busy
  <2> QED BY <1>1, <1>2, <2>1, FieldsStay DEF IndInv
<1> QED BY <1>1, <1>2, <1>3, <1>7, <1>8, <1>9, <1>10, <1>11, StepGoesOn

-----------------------------------------------------------------------------
(* The steps that write the termios structure, and those that follow *)

(* Nobody else is rewriting the termios structure. *)
LEMMA AloneWithTermios ==
  ASSUME IndInv, NEW t \in Thread, Doing(t, Termios), Others(t)
  PROVE  \A s \in Thread : s # t =>
           \A kinds : kinds \subseteq Termios => ~Doing(s, kinds) /\ ~Doing(s, kinds)'
<1> SUFFICES ASSUME NEW s \in Thread, s # t, NEW kinds, kinds \subseteq Termios
             PROVE  ~Doing(s, kinds) /\ ~Doing(s, kinds)'
  OBVIOUS
<1>1. ~Doing(s, Termios)
  BY DEF IndInv, TurnInv
<1> QED BY <1>1 DEF Doing, Busy, Others

(* set_port_params writes the settings. *)
LEMMA SetAttrParams ==
  ASSUME IndInv, NEW t \in Thread, SetAttr(t), arg[t].kind = "params"
  PROVE  IndInv'
<1>1. Others(t)
  BY ThreadStep DEF Steps, IndInv
<1>2. /\ pc[t] = "setattr" /\ pc'[t] = "assign" /\ tty' = image[t]
      /\ arg'[t] = arg[t] /\ asked' = asked
      /\ UNCHANGED <<fields, lines, monThreadisInterrupted>>
  BY DEF SetAttr, Goto, IndInv, CallInv, javaVars, callVars
<1>3. Busy(t) /\ Doing(t, {"params"}) /\ Doing(t, Termios) /\ Doing(t, {"params"})'
  BY <1>2 DEF Doing, Busy, Termios
<1> DEFINE p == arg[t].p
<1>4. image[t] = Parameterised(tty, p)
  BY <1>2, <1>3 DEF IndInv, ImageInv, ImageOf, ParamsImage
<1>5. p \in Params /\ Supported(p)
  BY <1>3 DEF IndInv, CallInv, CallOf
<1>6. tty \in TermiosType
  BY DEF IndInv, TypeInv
<1>7. /\ tty' \in TermiosType /\ SameElsewhere(tty', tty)
      /\ ParamsMatch(tty', p.speed, DataBitsOf(p), p.stopBits, p.parity)
  <2> HIDE DEF p
  <2> QED BY <1>2, <1>4, <1>5, <1>6, ParameterisedIs DEF Supported
<1>8. CallOf(t)'
  BY <1>2, <1>3, <1>5 DEF CallOf, Doing, Busy
<1>9. ImageOf(t)'
  BY <1>2, <1>3, <1>7 DEF ImageOf, ParamsImage, Doing
<1>10. LinesOf(t)' /\ pc'[t] \in PC
  BY <1>2 DEF LinesOf, PC
<1>11. TypeInv' /\ lines' = asked'.lines
  BY <1>2, <1>7 DEF TypeInv, IndInv, LinesInv
<1>12. FieldsInv'
  <2>1. \A s \in Thread : ~Doing(s, {"flow"}) /\ ~Doing(s, {"limits"})
    BY <1>1, <1>2, <1>3, AloneWithTermios DEF Doing, Termios
  <2>2. /\ FlowMatch(tty, fields.flowmode) /\ LimitsMatch(tty, fields.timeout, fields.threshold)
        /\ tty.veof = asked.veof
    BY <2>1 DEF IndInv, FieldsInv
  <2>3. /\ FlowMatch(tty', fields.flowmode) /\ LimitsMatch(tty', fields.timeout, fields.threshold)
        /\ tty'.veof = asked.veof
    BY <1>7, <2>2 DEF FlowMatch, LimitsMatch, SameElsewhere
  <2> QED BY <1>2, <1>3, <2>3 DEF FieldsInv
<1> QED BY <1>1, <1>2, <1>3, <1>8, <1>9, <1>10, <1>11, <1>12, StepGoesOn

(* setflowcontrol writes the settings. *)
LEMMA SetAttrFlow ==
  ASSUME IndInv, NEW t \in Thread, SetAttr(t), arg[t].kind = "flow"
  PROVE  IndInv'
<1>1. Others(t)
  BY ThreadStep DEF Steps, IndInv
<1>2. /\ pc[t] = "setattr" /\ pc'[t] = "assign" /\ tty' = image[t]
      /\ arg'[t] = arg[t] /\ asked' = asked
      /\ UNCHANGED <<fields, lines, monThreadisInterrupted>>
  BY DEF SetAttr, Goto, IndInv, CallInv, javaVars, callVars
<1>3. Busy(t) /\ Doing(t, {"flow"}) /\ Doing(t, Termios) /\ Doing(t, {"flow"})'
  BY <1>2 DEF Doing, Busy, Termios
<1> DEFINE mode == arg[t].mode
<1>4. image[t] = FlowBits(tty, mode) /\ mode \in FlowModes
  BY <1>2, <1>3 DEF IndInv, ImageInv, ImageOf, FlowImage, CallInv, CallOf
<1>5. tty \in TermiosType
  BY DEF IndInv, TypeInv
<1>6. /\ tty' \in TermiosType /\ FlowMatch(tty', mode)
      /\ tty'.csize = tty.csize /\ tty'.baud = tty.baud
      /\ tty'.vmin = tty.vmin /\ tty'.vtime = tty.vtime /\ tty'.veof = tty.veof
      /\ \A bit \in {"CSTOPB", "PARENB", "PARODD", "CMSPAR"} :
           bit \in tty'.cflag <=> bit \in tty.cflag
  <2> HIDE DEF mode
  <2> QED BY <1>2, <1>4, <1>5, FlowBitsAre
<1>7. CallOf(t)'
  BY <1>2, <1>3, <1>4 DEF CallOf, Doing, Busy
<1>8. ImageOf(t)'
  BY <1>2, <1>3, <1>6 DEF ImageOf, FlowImage, Doing
<1>9. LinesOf(t)' /\ pc'[t] \in PC
  BY <1>2 DEF LinesOf, PC
<1>10. TypeInv' /\ lines' = asked'.lines
  BY <1>2, <1>6 DEF TypeInv, IndInv, LinesInv
<1>11. FieldsInv'
  <2>1. \A s \in Thread : ~Doing(s, {"params"}) /\ ~Doing(s, {"limits"})
    BY <1>1, <1>2, <1>3, AloneWithTermios DEF Doing, Termios
  <2>2. /\ ParamsMatch(tty, fields.speed, fields.dataBits, fields.stopBits, fields.parity)
        /\ LimitsMatch(tty, fields.timeout, fields.threshold) /\ tty.veof = asked.veof
    BY <2>1 DEF IndInv, FieldsInv
  <2>3. /\ ParamsMatch(tty', fields.speed, fields.dataBits, fields.stopBits, fields.parity)
        /\ LimitsMatch(tty', fields.timeout, fields.threshold) /\ tty'.veof = asked.veof
    BY <1>6, <2>2 DEF ParamsMatch, LimitsMatch
  <2> QED BY <1>2, <1>3, <2>3 DEF FieldsInv
<1> QED BY <1>1, <1>2, <1>3, <1>7, <1>8, <1>9, <1>10, <1>11, StepGoesOn

(* Threshold and timeout, or the end-of-input character, are written; the call returns. *)
LEMMA SetAttrLimits ==
  ASSUME IndInv, NEW t \in Thread, SetAttr(t), arg[t].kind = "limits"
  PROVE  IndInv'
<1>1. Others(t)
  BY ThreadStep DEF Steps, IndInv
<1>2. /\ pc[t] = "setattr" /\ pc'[t] = "idle" /\ tty' = image[t] /\ asked' = asked
      /\ UNCHANGED <<fields, lines, monThreadisInterrupted>>
  BY DEF SetAttr, Return, Goto, IndInv, CallInv, javaVars
<1>3. Busy(t) /\ ~Busy(t)' /\ Doing(t, {"limits"}) /\ Doing(t, Termios)
  BY <1>2 DEF Doing, Busy, Termios
<1>4. PICK vmin \in Byte, vtime \in Byte :
        /\ image[t] = WithLimits(tty, vmin, vtime)
        /\ vmin = fields.threshold % 256 /\ vtime = Tenths(fields.timeout)
  BY <1>2, <1>3 DEF IndInv, ImageInv, ImageOf, LimitsImage
<1>5. tty \in TermiosType
  BY DEF IndInv, TypeInv
<1>6. /\ tty' \in TermiosType /\ tty'.csize = tty.csize /\ tty'.baud = tty.baud
      /\ tty'.cflag = tty.cflag /\ tty'.iflag = tty.iflag /\ tty'.veof = tty.veof
      /\ tty'.vmin = vmin /\ tty'.vtime = vtime
  <2>1. tty' = WithLimits(tty, vmin, vtime)
    BY <1>2, <1>4
  <2> QED BY <1>5, <2>1, WithLimitsIs
<1>7. CallOf(t)' /\ ImageOf(t)' /\ LinesOf(t)' /\ pc'[t] \in PC
  BY <1>2, <1>3 DEF CallOf, ImageOf, LinesOf, Doing, PC
<1>8. TypeInv' /\ lines' = asked'.lines
  BY <1>2, <1>6 DEF TypeInv, IndInv, LinesInv
<1>9. FieldsInv'
  <2>1. \A s \in Thread : ~Doing(s, {"params"}) /\ ~Doing(s, {"flow"})
    BY <1>1, <1>2, <1>3, AloneWithTermios DEF Doing, Termios
  <2>2. /\ ParamsMatch(tty, fields.speed, fields.dataBits, fields.stopBits, fields.parity)
        /\ FlowMatch(tty, fields.flowmode) /\ tty.veof = asked.veof
    BY <2>1 DEF IndInv, FieldsInv
  <2>3. /\ ParamsMatch(tty', fields.speed, fields.dataBits, fields.stopBits, fields.parity)
        /\ FlowMatch(tty', fields.flowmode) /\ tty'.veof = asked.veof
    BY <1>6, <2>2 DEF ParamsMatch, FlowMatch
  <2>4. LimitsMatch(tty', fields.timeout, fields.threshold)
    BY <1>4, <1>6 DEF LimitsMatch
  <2> QED BY <1>2, <2>3, <2>4 DEF FieldsInv
<1> QED BY <1>1, <1>2, <1>3, <1>7, <1>8, <1>9, StepGoesOn

(* setEndOfInputChar writes the copy it has changed to the device. *)
LEMMA SetAttrEnd ==
  ASSUME IndInv, NEW t \in Thread, SetAttr(t), arg[t].kind = "eof"
  PROVE  IndInv'
<1>1. Others(t)
  BY ThreadStep DEF Steps, IndInv
<1>2. /\ pc[t] = "setattr" /\ pc'[t] = "idle" /\ tty' = image[t]
      /\ asked' = [asked EXCEPT !.veof = arg[t].char]
      /\ UNCHANGED <<fields, lines, monThreadisInterrupted>>
  BY DEF SetAttr, Return, Goto, IndInv, CallInv, javaVars
<1>3. Busy(t) /\ ~Busy(t)' /\ Doing(t, {"eof"}) /\ Doing(t, Termios)
  BY <1>2 DEF Doing, Busy, Termios
<1>4. image[t] = WithEnd(tty, arg[t].char) /\ arg[t].char \in EndChars
  BY <1>3 DEF IndInv, ImageInv, ImageOf, EndImage, CallInv, CallOf
<1>5. tty \in TermiosType /\ asked \in AskedType /\ lines = asked.lines
  BY DEF IndInv, TypeInv, LinesInv
<1>6. /\ tty' \in TermiosType /\ tty'.csize = tty.csize /\ tty'.baud = tty.baud
      /\ tty'.cflag = tty.cflag /\ tty'.iflag = tty.iflag
      /\ tty'.vmin = tty.vmin /\ tty'.vtime = tty.vtime /\ tty'.veof = arg[t].char
  BY <1>2, <1>4, <1>5 DEF WithEnd, TermiosType
<1>7. asked' \in AskedType /\ asked'.veof = arg[t].char /\ asked'.lines = asked.lines
  BY <1>2, <1>4, <1>5 DEF AskedType
<1>8. CallOf(t)' /\ ImageOf(t)' /\ LinesOf(t)' /\ pc'[t] \in PC
  BY <1>2, <1>3 DEF CallOf, ImageOf, LinesOf, Doing, PC
<1>9. TypeInv' /\ lines' = asked'.lines
  BY <1>2, <1>5, <1>6, <1>7 DEF TypeInv, IndInv
<1>10. FieldsInv'
  <2>1. \A s \in Thread : ~Doing(s, {"params"}) /\ ~Doing(s, {"flow"}) /\ ~Doing(s, {"limits"})
    BY <1>1, <1>2, <1>3, AloneWithTermios DEF Doing, Termios
  <2>2. /\ ParamsMatch(tty, fields.speed, fields.dataBits, fields.stopBits, fields.parity)
        /\ FlowMatch(tty, fields.flowmode) /\ LimitsMatch(tty, fields.timeout, fields.threshold)
    BY <2>1 DEF IndInv, FieldsInv
  <2>3. /\ ParamsMatch(tty', fields.speed, fields.dataBits, fields.stopBits, fields.parity)
        /\ FlowMatch(tty', fields.flowmode) /\ LimitsMatch(tty', fields.timeout, fields.threshold)
    BY <1>6, <2>2 DEF ParamsMatch, FlowMatch, LimitsMatch
  <2> QED BY <1>2, <1>6, <1>7, <2>3 DEF FieldsInv
<1> QED BY <1>1, <1>2, <1>3, <1>8, <1>9, <1>10, StepGoesOn

(* The fields follow. *)
LEMMA AssignParamsKeeps ==
  ASSUME IndInv, NEW t \in Thread, AssignParams(t)
  PROVE  IndInv'
<1> DEFINE p == arg[t].p
<1>1. Others(t)
  BY ThreadStep DEF Steps, IndInv
<1>2. /\ pc[t] = "assign" /\ arg[t].kind = "params" /\ pc'[t] = "idle"
      /\ fields' = [fields EXCEPT !.speed = p.speed, !.stopBits = p.stopBits,
                      !.parity = p.parity, !.dataBits = DataBitsOf(p)]
      /\ UNCHANGED <<tty, lines, asked, monThreadisInterrupted>>
  BY DEF AssignParams, DataBitsOf, Return, Goto, IndInv, CallInv
<1>3. Busy(t) /\ ~Busy(t)' /\ Doing(t, {"params"}) /\ Doing(t, Termios)
  BY <1>2 DEF Doing, Busy, Termios
<1>4. /\ p \in Params /\ Supported(p)
      /\ ParamsMatch(tty, p.speed, DataBitsOf(p), p.stopBits, p.parity)
  BY <1>2, <1>3 DEF IndInv, CallInv, CallOf, ImageInv, ImageOf, ParamsImage
<1>5. /\ p.speed \in Int /\ DataBitsOf(p) \in DataBits /\ p.stopBits \in StopBits
      /\ p.parity \in Parity
  <2> HIDE DEF p
  <2> QED BY <1>4, SettingsAssumption DEF Supported, DataBitsOf, DataBits
<1> HIDE DEF p
<1>6. /\ fields' \in FieldsType
      /\ fields'.speed = p.speed /\ fields'.dataBits = DataBitsOf(p)
      /\ fields'.stopBits = p.stopBits /\ fields'.parity = p.parity
      /\ fields'.flowmode = fields.flowmode /\ fields'.timeout = fields.timeout
      /\ fields'.threshold = fields.threshold
  BY <1>2, <1>5 DEF IndInv, TypeInv, FieldsType
<1>7. CallOf(t)' /\ ImageOf(t)' /\ LinesOf(t)' /\ pc'[t] \in PC
  BY <1>2, <1>3 DEF CallOf, ImageOf, LinesOf, Doing, PC
<1>8. TypeInv' /\ lines' = asked'.lines
  BY <1>2, <1>6 DEF TypeInv, IndInv, LinesInv
<1>9. FieldsInv'
  <2>1. \A s \in Thread : ~Doing(s, {"flow"}) /\ ~Doing(s, {"limits"})
    BY <1>1, <1>2, <1>3, AloneWithTermios DEF Doing, Termios
  <2>2. /\ FlowMatch(tty, fields.flowmode) /\ LimitsMatch(tty, fields.timeout, fields.threshold)
        /\ tty.veof = asked.veof
    BY <2>1 DEF IndInv, FieldsInv
  <2> QED BY <1>2, <1>4, <1>6, <2>2 DEF FieldsInv
<1> QED BY <1>1, <1>2, <1>3, <1>7, <1>8, <1>9, StepGoesOn

(* setFlowControlMode stores what it has set. *)
LEMMA AssignFlowModeKeeps ==
  ASSUME IndInv, NEW t \in Thread, AssignFlowMode(t)
  PROVE  IndInv'
<1>1. Others(t)
  BY ThreadStep DEF Steps, IndInv
<1>2. /\ pc[t] = "assign" /\ arg[t].kind = "flow" /\ pc'[t] = "idle"
      /\ fields' = [fields EXCEPT !.flowmode = arg[t].mode]
      /\ UNCHANGED <<tty, lines, asked, monThreadisInterrupted>>
  BY DEF AssignFlowMode, Return, Goto, IndInv, CallInv
<1>3. Busy(t) /\ ~Busy(t)' /\ Doing(t, {"flow"}) /\ Doing(t, Termios)
  BY <1>2 DEF Doing, Busy, Termios
<1>4. arg[t].mode \in SUBSET UNION FlowModes /\ FlowMatch(tty, arg[t].mode)
  BY <1>2, <1>3 DEF IndInv, CallInv, CallOf, ImageInv, ImageOf, FlowImage
<1>5. /\ fields' \in FieldsType
      /\ fields'.speed = fields.speed /\ fields'.dataBits = fields.dataBits
      /\ fields'.stopBits = fields.stopBits /\ fields'.parity = fields.parity
      /\ fields'.flowmode = arg[t].mode /\ fields'.timeout = fields.timeout
      /\ fields'.threshold = fields.threshold
  BY <1>2, <1>4 DEF IndInv, TypeInv, FieldsType
<1>6. CallOf(t)' /\ ImageOf(t)' /\ LinesOf(t)' /\ pc'[t] \in PC
  BY <1>2, <1>3 DEF CallOf, ImageOf, LinesOf, Doing, PC
<1>7. TypeInv' /\ lines' = asked'.lines
  BY <1>2, <1>5 DEF TypeInv, IndInv, LinesInv
<1>8. FieldsInv'
  <2>1. \A s \in Thread : ~Doing(s, {"params"}) /\ ~Doing(s, {"limits"})
    BY <1>1, <1>2, <1>3, AloneWithTermios DEF Doing, Termios
  <2>2. /\ ParamsMatch(tty, fields.speed, fields.dataBits, fields.stopBits, fields.parity)
        /\ LimitsMatch(tty, fields.timeout, fields.threshold) /\ tty.veof = asked.veof
    BY <2>1 DEF IndInv, FieldsInv
  <2> QED BY <1>2, <1>4, <1>5, <2>2 DEF FieldsInv
<1> QED BY <1>1, <1>2, <1>3, <1>6, <1>7, <1>8, StepGoesOn

-----------------------------------------------------------------------------
(* The inductive invariant is kept by every step. *)
LEMMA IndNext ==
  ASSUME TakeTurns, IndInv, [Next]_vars
  PROVE  IndInv'
<1>1. CASE UNCHANGED vars
  <2>1. UNCHANGED <<fields, monThreadisInterrupted, tty, lines, pc, arg, image, word, asked>>
    BY <1>1 DEF vars, javaVars, callVars
  <2>2. TypeInv' /\ CallInv' /\ TurnInv'
    BY <2>1 DEF IndInv, TypeInv, CallInv, CallOf, TurnInv, Doing, Busy
  <2>3. ImageInv'
    BY <2>1 DEF IndInv, ImageInv, ImageOf, ParamsImage, FlowImage, LimitsImage, EndImage, Doing, Busy
  <2>4. FieldsInv' /\ LinesInv'
    BY <2>1 DEF IndInv, FieldsInv, LinesInv, LinesOf, Doing, Busy
  <2> QED BY <2>2, <2>3, <2>4 DEF IndInv
<1>2. CASE Listener
  <2>1. UNCHANGED <<fields, tty, lines, pc, arg, image, word, asked>>
    BY <1>2 DEF Listener, callVars
  <2>2. TypeInv'
    BY <1>2, <2>1 DEF IndInv, TypeInv, Listener
  <2>3. CallInv' /\ TurnInv'
    BY <2>1 DEF IndInv, CallInv, CallOf, TurnInv, Doing, Busy
  <2>4. ImageInv'
    BY <2>1 DEF IndInv, ImageInv, ImageOf, ParamsImage, FlowImage, LimitsImage, EndImage, Doing, Busy
  <2>5. FieldsInv' /\ LinesInv'
    BY <2>1 DEF IndInv, FieldsInv, LinesInv, LinesOf, Doing, Busy
  <2> QED BY <2>2, <2>3, <2>4, <2>5 DEF IndInv
<1>3. ASSUME NEW t \in Thread, Calls(t) PROVE IndInv'
  <2>1. ASSUME NEW l \in {"DTR", "RTS"}, NEW on \in BOOLEAN, GetLines(t, l, on) PROVE IndInv'
    <3>1. Others(t)
      BY <2>1, ThreadStep DEF Calls, IndInv
    <3> QED BY <2>1, <3>1, LineBegins
  <2>2. CASE GetLines(t, "DSR", FALSE)
    <3>1. Others(t)
      BY <2>2, ThreadStep DEF Calls, IndInv
    <3> QED BY <2>2, <3>1, LineBegins
  <2> QED BY <1>3, <2>1, <2>2, ParamsBegin, FlowBegins, TimeoutBegins, ThresholdBegins,
             EndCharBegins, SerialBegins DEF Calls
<1>4. ASSUME NEW t \in Thread, Steps(t) PROVE IndInv'
  <2>1. CASE SetAttr(t)
    <3>1. arg[t].kind \in {"params", "flow", "limits", "eof"}
      BY <2>1 DEF SetAttr, IndInv, CallInv, CallOf, Doing, Busy, Kind
    <3> QED BY <2>1, <3>1, SetAttrParams, SetAttrFlow, SetAttrLimits, SetAttrEnd
  <2> QED BY <1>4, <2>1, HangUpGetKeeps, HangUpSetKeeps, DivisorKeeps, ReturnKeeps,
             AssignParamsKeeps, AssignFlowModeKeeps, LimitsKeeps, SetLinesKeeps DEF Steps
<1> QED BY <1>1, <1>2, <1>3, <1>4 DEF Next

(* The inductive invariant holds in every reachable state. *)
LEMMA Inductive ==
  ASSUME TakeTurns
  PROVE  Spec => []IndInv
<1>1. IndInv /\ [Next]_vars => IndInv'
  BY IndNext
<1> QED BY <1>1, IndInit, PTL DEF Spec

(***************************************************************************)
(* Type correctness: the fields stay in the ranges that SerialPort.java    *)
(* allows, and every field of the termios structure in its width, whatever *)
(* the clients set (setSerialPortParams, setFlowControlMode,               *)
(* enableReceiveThreshold, enableReceiveTimeout).                          *)
(***************************************************************************)
THEOREM TypeCorrect ==
  ASSUME TakeTurns
  PROVE  Spec => []TypeOK
<1>1. IndInv => TypeOK
  BY DEF IndInv, TypeInv, CallInv, LinesInv, TypeOK, FieldsType, TermiosType, AskedType, Byte
<1> QED BY <1>1, Inductive, PTL

(* Between calls nobody is doing anything that the invariants except. *)
LEMMA BetweenCalls ==
  ASSUME NEW kinds, ~InCall(kinds)
  PROVE  \A t \in Thread : \A some : some \subseteq kinds => ~Doing(t, some)
BY DEF InCall, Doing

(* What the getters answer about settings that match the fields *)
LEMMA GettersAnswer ==
  ASSUME IndInv,
         ParamsMatch(tty, fields.speed, fields.dataBits, fields.stopBits, fields.parity)
  PROVE  LET j == set_java_vars(tty)
         IN /\ j.speed = BaudOf[tty.baud] /\ j.dataBits = tty.csize /\ j.parity = fields.parity
            /\ fields.stopBits \in StopBits /\ fields.parity \in Parity
            /\ j.stopBits = IF "CSTOPB" \notin tty.cflag THEN STOPBITS_1
                            ELSE IF tty.csize = 5 THEN STOPBITS_1_5 ELSE STOPBITS_2
            /\ nativeStaticGetBaudRate(tty) = j.speed
            /\ nativeStaticGetDataBits(tty) = j.dataBits
            /\ nativeStaticGetParity(tty) = j.parity
<1>1. tty.baud \in Code /\ fields.stopBits \in StopBits /\ fields.parity \in Parity
  BY DEF IndInv, TypeInv, TermiosType, FieldsType
<1>2. (CHOOSE q \in Parity :
         ParityBits[q] = tty.cflag \intersect {"PARENB", "PARODD", "CMSPAR"}) = fields.parity
  BY <1>1, ParityOfBits DEF ParamsMatch
<1>3. /\ set_java_vars(tty).parity = fields.parity /\ nativeStaticGetParity(tty) = fields.parity
  BY <1>2 DEF set_java_vars, nativeStaticGetParity
<1>4. /\ set_java_vars(tty).speed = BaudOf[tty.baud] /\ set_java_vars(tty).dataBits = tty.csize
      /\ set_java_vars(tty).stopBits = IF "CSTOPB" \notin tty.cflag THEN STOPBITS_1
                                       ELSE IF tty.csize = 5 THEN STOPBITS_1_5 ELSE STOPBITS_2
      /\ nativeStaticGetBaudRate(tty) = BaudOf[tty.baud]
      /\ nativeStaticGetDataBits(tty) = tty.csize
  BY <1>1 DEF set_java_vars, get_java_baudrate, nativeStaticGetBaudRate, nativeStaticGetDataBits
<1> QED BY <1>1, <1>3, <1>4

(* The library's own query knows all parities but space. *)
LEMMA ParityAnswer ==
  ASSUME NEW tio, NEW parity \in Parity, parity # "SPACE",
         \A bit \in {"PARENB", "PARODD", "CMSPAR"} : bit \in tio.cflag <=> bit \in ParityBits[parity]
  PROVE  nativeGetParity(tio) = parity
<1>1. CASE parity = "NONE"
  BY <1>1 DEF nativeGetParity, ParityBits
<1>2. CASE parity = "ODD"
  BY <1>2 DEF nativeGetParity, ParityBits
<1>3. CASE parity = "EVEN"
  BY <1>3 DEF nativeGetParity, ParityBits
<1>4. CASE parity = "MARK"
  BY <1>4 DEF nativeGetParity, ParityBits
<1> QED BY <1>1, <1>2, <1>3, <1>4 DEF Parity

(* Flow control by RTS and CTS answers for both directions. *)
LEMMA FlowAnswer ==
  ASSUME NEW tio, NEW mode \in SUBSET FlowControl, FlowMatch(tio, mode)
  PROVE  nativeGetFlowControlMode(tio) = mode
           \union (IF mode \intersect {"RTSCTS_IN", "RTSCTS_OUT"} = {} THEN {}
                   ELSE {"RTSCTS_IN", "RTSCTS_OUT"})
BY DEF nativeGetFlowControlMode, FlowMatch, FlowControl

(***************************************************************************)
(* Between calls what the getters answer is what the device has, although  *)
(* each setter rewrites the settings of the others (setSerialPortParams,   *)
(* setFlowControlMode, setEndOfInputChar, set_port_params).                *)
(***************************************************************************)
THEOREM GettersTellTheTruth ==
  ASSUME TakeTurns
  PROVE  Spec => []SettingsAgree
<1>1. IndInv => SettingsAgree
  <2> SUFFICES ASSUME IndInv, ~InCall({"params", "flow", "limits", "eof"})
               PROVE  SettingsAgree
    BY DEF SettingsAgree
  <2>1. \A t \in Thread : ~Doing(t, {"params"}) /\ ~Doing(t, {"flow"}) /\ ~Doing(t, {"limits"})
    BY BetweenCalls
  <2>2. /\ ParamsMatch(tty, fields.speed, fields.dataBits, fields.stopBits, fields.parity)
        /\ FlowMatch(tty, fields.flowmode) /\ tty.veof = asked.veof
    BY <2>1 DEF IndInv, FieldsInv
  <2> DEFINE j == set_java_vars(tty)
  <2>3. /\ j.speed = BaudOf[tty.baud] /\ j.dataBits = tty.csize /\ j.parity = fields.parity
        /\ fields.stopBits \in StopBits /\ fields.parity \in Parity
        /\ j.stopBits = IF "CSTOPB" \notin tty.cflag THEN STOPBITS_1
                        ELSE IF tty.csize = 5 THEN STOPBITS_1_5 ELSE STOPBITS_2
        /\ nativeStaticGetBaudRate(tty) = j.speed
        /\ nativeStaticGetDataBits(tty) = j.dataBits
        /\ nativeStaticGetParity(tty) = j.parity
    BY <2>2, GettersAnswer
  <2>4. /\ getBaudRate \in Predefined => j.speed = getBaudRate
        /\ j.dataBits = getDataBits /\ j.parity = getParity
    BY <2>2, <2>3 DEF ParamsMatch, getBaudRate, getDataBits, getParity
  <2>5. /\ j.stopBits = getStopBits \/ (getDataBits = 5 /\ {j.stopBits, getStopBits} = {2, 3})
        /\ j.stopBits # STOPBITS_1_5 => nativeStaticGetStopBits(tty) = j.stopBits
    <3> HIDE DEF j
    <3> QED BY <2>2, <2>3 DEF ParamsMatch, getStopBits, getDataBits, nativeStaticGetStopBits,
                              StopBits, STOPBITS_1, STOPBITS_2, STOPBITS_1_5
  <2>6. j.parity # "SPACE" => nativeGetParity(tty) = j.parity
    BY <2>2, <2>3, ParityAnswer DEF ParamsMatch
  <2>7. nativeGetFlowControlMode(tty) = getFlowControlMode
          \union (IF getFlowControlMode \intersect {"RTSCTS_IN", "RTSCTS_OUT"} = {} THEN {}
                  ELSE {"RTSCTS_IN", "RTSCTS_OUT"})
    <3>1. fields.flowmode \in SUBSET FlowControl
      BY SettingsAssumption DEF IndInv, TypeInv, FieldsType
    <3> QED BY <2>2, <3>1, FlowAnswer DEF getFlowControlMode
  <2>8. getEndOfInputChar = asked.veof
    BY <2>2 DEF getEndOfInputChar, nativeGetEndOfInputChar
  <2> QED BY <2>3, <2>4, <2>5, <2>6, <2>7, <2>8 DEF SettingsAgree
<1> QED BY <1>1, Inductive, PTL

(* A threshold that a client may ask for, or none *)
LEMMA ThresholdIsNatural ==
  ASSUME NEW n \in Thresholds \union {0}
  PROVE  n \in Nat
BY SettingsAssumption

(* A timeout that VTIME can hold *)
LEMMA FittingTime ==
  ASSUME NEW n \in Fitting
  PROVE  n \in Int /\ -1 <= n /\ n <= 25599 /\ n >= 100 /\ ~(n < 0)
BY DEF Fitting

(* The timeout that comes back is the one that went in, in whole tenths. *)
LEMMA TenthsAnswer ==
  ASSUME NEW time \in Int, -1 <= time, time <= 25599, NEW vtime,
         vtime = IF time < 0 THEN 0 ELSE time \div 100
  PROVE  /\ vtime > 0 <=> time >= 100
         /\ vtime * 100 = IF time < 0 THEN 0 ELSE time - (time % 100)
<1>1. CASE time < 0
  <2>1. vtime = 0 /\ ~(time >= 100)
    BY <1>1
  <2> QED BY <1>1, <2>1
<1>2. CASE ~(time < 0)
  <2>1. vtime = time \div 100
    BY <1>2
  <2>2. (time \div 100) * 100 = time - (time % 100)
    BY <1>2, Z3
  <2>3. time \div 100 > 0 <=> time >= 100
    BY <1>2
  <2> QED BY <1>2, <2>1, <2>2, <2>3
<1> QED BY <1>1, <1>2

(***************************************************************************)
(* Between calls the device waits for the bytes and the time that the      *)
(* client asked for last, and says so, whatever was set in between: for    *)
(* every threshold and timeout that VMIN and VTIME can keep, whichever     *)
(* others the clients use (NativeEnableReceiveTimeoutThreshold).           *)
(***************************************************************************)
THEOREM LimitsAreKept ==
  ASSUME TakeTurns
  PROVE  Spec => []LimitsAgree
<1>1. IndInv => LimitsAgree
  <2> SUFFICES ASSUME IndInv, ~InCall({"params", "flow", "limits", "eof"})
               PROVE  LimitsAgree
    BY DEF LimitsAgree
  <2>1. \A t \in Thread : ~Doing(t, {"limits"})
    BY BetweenCalls
  <2>2. tty.vmin = fields.threshold % 256 /\ tty.vtime = Tenths(fields.timeout)
    BY <2>1 DEF IndInv, FieldsInv, LimitsMatch
  <2>3. fields.threshold \in Nat
    <3>1. fields.threshold \in Thresholds \union {0}
      BY DEF IndInv, TypeInv, FieldsType
    <3> QED BY <3>1, ThresholdIsNatural
  <2>4. fields.threshold <= 255 => tty.vmin = fields.threshold
    <3> SUFFICES ASSUME fields.threshold <= 255 PROVE tty.vmin = fields.threshold
      OBVIOUS
    <3>1. fields.threshold \in 0 .. 255
      BY <2>3
    <3> QED BY <2>2, <3>1, ByteModulo
  <2>5. fields.timeout = NoTimeout => ~(tty.vtime > 0) /\ tty.vtime * 100 = 0
    <3> SUFFICES ASSUME fields.timeout = NoTimeout PROVE tty.vtime = 0
      OBVIOUS
    <3>1. fields.timeout \in Int /\ -1 <= fields.timeout /\ fields.timeout <= 25599
             /\ fields.timeout < 0
      BY DEF NoTimeout
    <3> QED BY <2>2, <3>1, TimeoutInTenths
  <2>6. fields.timeout \in Fitting =>
          tty.vtime > 0 /\ tty.vtime * 100 = fields.timeout - (fields.timeout % 100)
    <3> SUFFICES ASSUME fields.timeout \in Fitting
                 PROVE  tty.vtime > 0 /\ tty.vtime * 100 = fields.timeout - (fields.timeout % 100)
      OBVIOUS
    <3>1. fields.timeout \in Int /\ -1 <= fields.timeout /\ fields.timeout <= 25599
             /\ fields.timeout >= 100 /\ ~(fields.timeout < 0)
      BY FittingTime
    <3>2. tty.vtime = IF fields.timeout < 0 THEN 0 ELSE fields.timeout \div 100
      BY <2>2, <3>1, TimeoutInTenths
    <3> QED BY <3>1, <3>2, TenthsAnswer
  <2> QED BY <2>3, <2>4, <2>5, <2>6 DEF LimitsAgree, getReceiveThreshold, isReceiveThresholdEnabled,
             isReceiveTimeoutEnabled, getReceiveTimeout, NativegetReceiveTimeout,
             NativeisReceiveTimeoutEnabled
<1> QED BY <1>1, Inductive, PTL

(***************************************************************************)
(* Between calls DTR and RTS are what was last asked of them, a hang-up by *)
(* speed 0 included (setDTR, setRTS, set_port_params).                     *)
(***************************************************************************)
THEOREM LinesAreAsAsked ==
  ASSUME TakeTurns
  PROVE  Spec => []LinesAsAsked
<1>1. IndInv => LinesAsAsked
  BY DEF IndInv, LinesInv, LinesAsAsked, isDTR, isRTS
<1> QED BY <1>1, Inductive, PTL

=============================================================================
