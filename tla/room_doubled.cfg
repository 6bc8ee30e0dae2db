SPECIFICATION Spec
CONSTANTS
  Client = {a, b, c}
  Flaky = {}
  Slow = {}
  InitTask = {"i1"}
  MonitorTask = {}
  RunTask = {"r1"}
  StartTask = {"s1"}
  CleanupTask = {}
  SlowTask = {}
  Inst = {1, 2}
  None = None
  Anonymous = TRUE
  RotateAfter = 1
  Shutdown = FALSE
  CloseTimeout = FALSE
CHECK_DEADLOCK FALSE
SYMMETRY Perms
INVARIANTS StreamHasStopper
