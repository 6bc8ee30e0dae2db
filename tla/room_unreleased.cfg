SPECIFICATION Spec
CONSTANTS
  Client = {a}
  Flaky = {}
  Slow = {}
  InitTask = {"i1"}
  MonitorTask = {"m1"}
  RunTask = {"r1"}
  StartTask = {"s1"}
  CleanupTask = {"c1"}
  SlowTask = {"w1"}
  Inst = {1, 2}
  None = None
  Anonymous = FALSE
  RotateAfter = 1
  Shutdown = TRUE
  CloseTimeout = FALSE
CHECK_DEADLOCK FALSE
SYMMETRY Perms
INVARIANTS CloseReleasesAll
