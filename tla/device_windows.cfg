SPECIFICATION Spec
CONSTANTS
  d1 = d1  d2 = d2
  w1 = w1  w2 = w2
  NoDevice = NoDevice
  NoWindow = NoWindow
  NoSize = NoSize
  Desktop <- DesktopMode
  Devices = {d1, d2}
  Windows = {w1}
  Rates = {60}
  Kinds = {FALSE}
  Sizes = {"large"}
  Focuses = {w1}
  Requests <- Tries
  Outcomes = {"ok", "fail"}
  Failures = {"memory", "present", "client"}
  Environment = {"destroy", "subclass"}
  Dispatch = {"idle", "cmode", "rmode"}
CHECK_DEADLOCK FALSE
SYMMETRY Symmetry
INVARIANTS
  EntriesLive
  OriginalReached
PROPERTIES
  FailedKeepsSize
