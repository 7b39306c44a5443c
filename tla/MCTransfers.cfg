SPECIFICATION FairSpec
CONSTANTS
  a = a
  b = b
  Rec <- Two
  Contents <- Sets
  Modulus = 8
  FirstSerial = 6
  FileSteps = {1}
  Depths = {0, 2}
  MaxDelta = 3
  ProvideIxfr = {TRUE, FALSE}
  RequestIxfr = {TRUE, FALSE}
  MaxPub = 3
  MaxFaults = 1
  MaxCommands = 1
INVARIANTS SecondaryExact TxnRefsExact
PROPERTIES OnlyForward CatchesUp
