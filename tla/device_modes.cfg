SPECIFICATION Spec
CONSTANTS
  d1 = d1  d2 = d2
  w1 = w1  w2 = w2
  NoDevice = NoDevice
  NoWindow = NoWindow
  NoSize = NoSize
  Sizes = {"small", "large"}
  Desktop <- DesktopMode
  Devices = {d1}
  Windows = {w1, w2}
  Rates = {60, 75}
  Kinds = {TRUE, FALSE}
  Focuses = {w1, w2}
  Requests <- Resets
  Outcomes = {"ok", "norate"}
  Failures = {}
  Environment = {"destroy", "refresh"}
  Dispatch = {"idle", "cmode", "cset", "rmode", "rset"}
CHECK_DEADLOCK FALSE
INVARIANTS
  TypeOK
  HearsMessages
  ModeHeld
  WindowedIsClean
  DesktopRestored
PROPERTIES
  ResetRestores
