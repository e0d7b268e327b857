SPECIFICATION Spec
CONSTANTS
  t1 = t1  t2 = t2  t3 = t3
  p1 = p1  p2 = p2
  w1 = w1  w2 = w2
  Threads = {t1, t2}
  Pixmaps = {p1}
  Windows = {w1, w2}
  Geoms = {1}
  NoThread = NoThread
  NoPixmap = NoPixmap
  NoWindow = NoWindow
  Modes = {"copy", "flip"}
  Mortal = {w1, w2}
  CanDisconnect = TRUE
  MaxQueue = 1
  ParallelWaits = TRUE
  Calls <- AllCalls
CHECK_DEADLOCK FALSE
SYMMETRY Symmetry
INVARIANTS
  OneReader
  CompletesAccounted
  ReleasedIsReleased
  PreparedStays
PROPERTIES
  ReleaseProtocol
