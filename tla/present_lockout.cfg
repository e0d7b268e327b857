SPECIFICATION FairSpec
CONSTANTS
  t1 = t1  t2 = t2  t3 = t3
  p1 = p1  p2 = p2
  w1 = w1  w2 = w2
  Threads = {t1, t2, t3}
  Pixmaps = {p1, p2}
  Windows = {w1}
  Geoms = {1}
  NoThread = NoThread
  NoPixmap = NoPixmap
  NoWindow = NoWindow
  Modes = {"flip"}
  Mortal = {}
  CanDisconnect = FALSE
  MaxQueue = 0
  ParallelWaits = TRUE
  Calls <- OnePresenter
CHECK_DEADLOCK FALSE
PROPERTIES
  PresentReturns
