SPECIFICATION FairSpec
CONSTANTS
  Starter = {s}
  Closer = {c}
  Disposer = {}
  Preparer = {}
  Checker = {}
  Conn = {k1, k2}
  Loop = {h1}
  None = None
  Attempts = 1
  BeatTimeout = FALSE
CHECK_DEADLOCK FALSE
PROPERTIES CloseEndsStart
