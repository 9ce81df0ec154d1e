\* Five applications of two threads; two peers.
SPECIFICATION Spec
CONSTANTS
  u1 = u1
  u2 = u2
  s1 = s1
  s2 = s2
  p1 = p1
  p2 = p2
  Users = {u1, u2}
  Net = Net
  Socks = {s1, s2}
  Peers = {p1, p2}
  Null = Null
  Reset = Reset
  Quota = 2
  Apps <- Passing
  MaxEmpty = 1
  Polite = TRUE
CHECK_DEADLOCK FALSE
INVARIANTS
  TypeOK
  SockRefsExact
  ReaderHasWaker
  WriterHasWaker
  ConfirmKept
  EagainIsReported
  NoLockCycle
