\* A local endpoint, a remote one behind two transports with a worker each.
SPECIFICATION Spec
CONSTANTS
  t1 = t1
  t2 = t2
  w = w
  a1 = a1
  a2 = a2
  b = b
  here = here
  there = there
  x1 = x1
  x2 = x2
  r1 = r1
  r2 = r2
  r3 = r3
  Null = Null
  Threads = {t1, t2, w}
  Addrs = {a1, b}
  Procs = {here, there}
  LocalProc = here
  Xports = {x1, x2}
  Records = {r1, r2}
  ProcOf <- MCProcOf
  Owner <- MCOwner
  Worker <- MCWorker
  Reach <- MCReach
  Priority <- MCPriority
  RxQuota = 1
SYMMETRY RecordSymmetry
CHECK_DEADLOCK FALSE
INVARIANTS
  TypeOK
  RefCountExact
  NoUseAfterFree
  CleanedUpOnce
  NoWaiterStranded
PROPERTIES
  ImplementsCountedRecords
