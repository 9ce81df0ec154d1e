\* Two transactions: a call with a time-out, and an asynchronous one; every fault.
SPECIFICATION Spec
CONSTANTS
  u1 = u1
  u2 = u2
  t1 = t1
  t2 = t2
  Users = {u1, u2}
  Loss = Loss
  Resumer = Resumer
  Rx = Rx
  Txns = {t1, t2}
  Null = Null
  MaxId = 2
  Sig = 4
  TimerSig = 3
  Ops <- Sending
  Faults = {"alloc", "encode", "send", "match"}
SYMMETRY SymTxns
CHECK_DEADLOCK FALSE
INVARIANTS
  TypeOK
  ClientRefsExact
  NoLateWrite
  ReportedOnce
  WaiterHasWaker
  LossIsNoticed
