--------------------------- MODULE MCLineSettings ---------------------------
EXTENDS LineSettings

P(b, d, s, p) == [speed |-> b, dataBits |-> d, stopBits |-> s, parity |-> p]

AllParams == {P(0, 8, 1, "NONE"), P(115200, 7, 2, "EVEN"), P(9600, 8, 3, "SPACE"),
              P(4800, 5, 2, "ODD"), P(28800, 6, 1, "MARK"),
              P(-1, 8, 1, "NONE"), P(9600, 4, 1, "NONE")}

CustomParams == {P(38400, 8, 1, "NONE"), P(28800, 8, 1, "NONE"), P(9600, 8, 1, "NONE")}

AllModes == {{}, {"RTSCTS_IN"}, {"RTSCTS_OUT", "XONXOFF_OUT"}, {"XONXOFF_IN"}}

SerialStruct(supported, base, cust) ==
  [supported |-> supported, baud_base |-> base, custom_divisor |-> 0, spd_cust |-> cust]

AnySerial == {SerialStruct(TRUE, 115200, FALSE), SerialStruct(TRUE, 0, FALSE),
              SerialStruct(FALSE, 0, FALSE)}

CustomSerial == {SerialStruct(TRUE, 115200, TRUE)}
=============================================================================
