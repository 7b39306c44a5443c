SPECIFICATION MCFair
CONSTANTS
  z1 = z1
  Zones = {z1}
  KeepSerial = {FALSE}
  Limits = {TRUE, FALSE}
  Qualities = {"ok", "reject", "unread"}
  FevMax = 1
  MaxInputs = 3
INVARIANT SettledExact
PROPERTIES FetchNeverGoesBack Settles
CHECK_DEADLOCK FALSE
