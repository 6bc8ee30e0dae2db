SPECIFICATION MCSpec
CONSTANTS
  Sizes = {1, 2, 3}
  MaxQueue = 2
  MaxBytes = 3
  MaxMessage = 2
  MaxMessages = 4
  MaxPongs = 1
  Ids = {x, y, z}
  MaxPublished = 2
  Goroutines = {g, h}
  Sessions = {s, t}
  Browsers = {b}
  Runtimes = {r1, r2}
  Conns = {c1, c2, c3}
  LiveIds = {"own"}
  Rooms = {m1, m2, m3}
  Savers = {p, q}
  MaxCookie = 2
  MaxFiles = 4
  None = None
CHECK_DEADLOCK FALSE
INVARIANTS BytesAccounted InterruptHolds FramesInOrder HandlersInOrder CloseLosesNothing RoomsByKey FileIsWhole
PROPERTIES CloseFinishes
