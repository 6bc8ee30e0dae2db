SPECIFICATION MCSpec
CONSTANTS
  Starter = {s, t}
  Closer = {}
  Disposer = {d}
  Preparer = {p}
  Checker = {p}
  Extra = {t, p}
  Conn = {k1, k2}
  Loop = {h1, h2}
  None = None
  Attempts = 2
  BeatTimeout = TRUE
CHECK_DEADLOCK FALSE
SYMMETRY Perms
INVARIANTS TypeOK NothingForgotten StreamHasHeartbeat
PROPERTIES HeartbeatHarmless
