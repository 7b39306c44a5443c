SPECIFICATION MCSpec
CONSTANTS
  z1 = z1
  Zones = {z1}
  KeepSerial = {FALSE}
  Limits = {FALSE}
  Qualities = {"ok", "reject", "unread"}
  FevMax = 1
  MaxInputs = 3
INVARIANT GoneZonesLeave
CHECK_DEADLOCK FALSE
