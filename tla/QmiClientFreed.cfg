\* A transaction is freed under the call that sends it.
SPECIFICATION Spec
CONSTANTS
  u1 = u1
  u2 = u2
  t1 = t1
  t2 = t2
  Users = {u1, u2}
  Loss = Loss
  Resumer = Resumer
  Rx = Rx
  Txns = {t1, t2}
  Null = Null
  MaxId = 2
  Sig = 4
  TimerSig = 3
  Ops <- Waiting
  Faults = {"send"}
SYMMETRY SymTxns
CHECK_DEADLOCK FALSE
INVARIANTS
  NoUseAfterFree
