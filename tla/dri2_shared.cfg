SPECIFICATION Spec
CONSTANTS
  Devices = {d1, d2}
  Presents = {p1, p2}
  Buffers = {p1, p2}
  Windows = {w1}
  NoWindow = NoWindow
  Usable = {"dri2"}
  Backends = {1}
  Monitors <- MonitorsOfDisplays
  Overlap = TRUE
  Failures = {}
  MaxDisplayRef = 4
CHECK_DEADLOCK FALSE
PROPERTIES
  DeinitHypothesis
