SPECIFICATION Spec
CONSTANTS
  a = a
  b = b
  Rec <- Two
  Contents <- Sets
  Modulus = 8
  FirstSerial = 6
  FileSteps = {1}
  Depths = {2}
  MaxDelta = 3
  ProvideIxfr = {TRUE}
  RequestIxfr = {TRUE}
  MaxPub = 1
  MaxFaults = 0
  MaxCommands = 1
INVARIANTS RetransferKept
