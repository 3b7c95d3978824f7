SPECIFICATION Spec
CONSTANTS
  a = a
  Thread = {a}
  Params <- CustomParams
  FlowModes = {{}}
  Times = {1000}
  Thresholds = {0}
  EndChars = {"eot"}
  BaudBases = {}
  Together = {}
  FirstSerial <- CustomSerial
INVARIANTS
  SpeedAsAsked
