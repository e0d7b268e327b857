SPECIFICATION Spec
CONSTANTS
  Devices = {d1, d2}
  Presents = {p1, p2}
  Buffers = {p1, p2}
  Windows = {w1, w2}
  NoWindow = NoWindow
  Usable = {"dri3", "dri2"}
  Backends = {1, 2}
  Monitors <- MonitorsOfDisplays
  Overlap = FALSE
  Failures <- AllFailures
  MaxDisplayRef = 2
SYMMETRY Symmetry
\* nothing happens without a driver, nor after destroy_pixmap off the list
CHECK_DEADLOCK FALSE
INVARIANTS
  TypeOK
  MapRight
  PresentsOutlive
  BuffersUsable
  DrawablesAccounted
  NoFreedDrawable
