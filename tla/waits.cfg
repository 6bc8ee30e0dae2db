SPECIFICATION MCSpec
CONSTANTS
  Caller = {a, b}
  Id = {x, y}
  Permits = 1
  WaitTimeout = FALSE
  Starter = {s}
  Closer = {}
  Disposer = {d}
  Preparer = {}
  Checker = {}
  Conn = {k1, k2}
  Loop = {h1, h2}
  None = None
  Attempts = 1
  BeatTimeout = FALSE
CHECK_DEADLOCK FALSE
INVARIANTS SingleFlight WaitersCounted NoOneElsesCancellation CloseAwaitsProbes
PROPERTIES LookupReturns CancellationEnds LiveEndEndsStart CloseCompletes
