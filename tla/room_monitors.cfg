SPECIFICATION Spec
CONSTANTS
  Client = {a, b}
  Flaky = {}
  Slow = {}
  InitTask = {"i1"}
  MonitorTask = {"m1", "m2"}
  RunTask = {"r1"}
  StartTask = {"s1"}
  CleanupTask = {"c1"}
  SlowTask = {"w1"}
  Inst = {1}
  None = None
  Anonymous = TRUE
  RotateAfter = 1
  Shutdown = FALSE
  CloseTimeout = FALSE
CHECK_DEADLOCK FALSE
SYMMETRY Perms
INVARIANTS TypeOK OneUpstreamOwner MonitorHasLoop
PROPERTIES StaleTaskHarmless
