SPECIFICATION Spec
CONSTANTS
  a = a
  b = b
  Thread = {a, b}
  Params <- AllParams
  FlowModes <- AllModes
  Times = {50, 25500}
  Thresholds = {0, 3}
  EndChars = {"eot"}
  BaudBases = {0, 460800}
  Together = {{"params"}, {"flow", "line"}, {"limits", "line"}, {"limits", "serial"}, {"flow", "serial"}}
  FirstSerial <- AnySerial
INVARIANTS
  SettingsAgree
  LimitsAgree
  LinesAsAsked
