SPECIFICATION MCSpec
CONSTANTS
  z1 = z1
  Zones = {z1}
  KeepSerial = {FALSE}
  Limits = {TRUE}
  Qualities = {"ok"}
  FevMax = 1
  MaxInputs = 3
INVARIANT ChangesBecomeVisible
CHECK_DEADLOCK FALSE
