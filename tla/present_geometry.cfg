SPECIFICATION Spec
CONSTANTS
  t1 = t1  t2 = t2  t3 = t3
  p1 = p1  p2 = p2
  w1 = w1  w2 = w2
  Threads = {t1}
  Pixmaps = {p1}
  Windows = {w1}
  Geoms = {1, 2}
  NoThread = NoThread
  NoPixmap = NoPixmap
  NoWindow = NoWindow
  Modes = {"copy"}
  Mortal = {}
  CanDisconnect = FALSE
  MaxQueue = 1
  ParallelWaits = FALSE
  Calls <- AllCalls
CHECK_DEADLOCK FALSE
INVARIANTS
  GeometryTracked
