\* One transaction, with liveness: every call but the timed one, deletion and release.
SPECIFICATION FairSpec
CONSTANTS
  u1 = u1
  u2 = u2
  t1 = t1
  t2 = t2
  Users = {u1, u2}
  Loss = Loss
  Resumer = Resumer
  Rx = Rx
  Txns = {t1}
  Null = Null
  MaxId = 1
  Sig = 4
  TimerSig = 3
  Ops <- Managing
  Faults = {"encode", "match"}
CHECK_DEADLOCK FALSE
INVARIANTS
  RefsExact
  ClientRefsExact
  NoLateWrite
  ReportedOnce
  LossIsReported
PROPERTIES
  SyncCallsEnd
  ReleaseCompletes
