SPECIFICATION FairSpec
CONSTANTS
  Client = {a}
  Flaky = {a}
  Slow = {a}
  InitTask = {"i1"}
  MonitorTask = {"m1"}
  RunTask = {"r1"}
  StartTask = {"s1"}
  CleanupTask = {"c1"}
  SlowTask = {"w1"}
  Inst = {1, 2}
  None = None
  Anonymous = TRUE
  RotateAfter = 1
  Shutdown = TRUE
  CloseTimeout = TRUE
CHECK_DEADLOCK FALSE
PROPERTIES StartResolves CloseEnds
