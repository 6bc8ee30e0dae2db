SPECIFICATION Spec
CONSTANTS
  Client = {a, b}
  Flaky = {a, b}
  Slow = {}
  InitTask = {"i1"}
  MonitorTask = {"m1"}
  RunTask = {"r1"}
  StartTask = {"s1"}
  CleanupTask = {"c1"}
  SlowTask = {"w1"}
  Inst = {1, 2}
  None = None
  Anonymous = TRUE
  RotateAfter = 1
  Shutdown = TRUE
  CloseTimeout = FALSE
CHECK_DEADLOCK FALSE
PROPERTIES GenerationRetiresNobody RoomEndsOnce
INVARIANTS SessionConsistent NoListenerLost CloseStopsAll
SYMMETRY Perms
