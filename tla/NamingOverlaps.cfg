\* A server on each of two routers, everything overlaps
SPECIFICATION FairSpec
CONSTANTS
  a = a
  b = b
  c = c
  v1 = v1
  v2 = v2
  left = left
  right = right
  Local = Local
  None = None
  Routers = {a, b}
  Xports <- MCXports
  NetOf <- MCNetOf
  Servers = {v1, v2}
  HomeOf <- MCHomeOf
  MaxOps = 2
  MaxStops = 1
  Overlaps = {"snapshot", "write", "stop"}
CHECK_DEADLOCK FALSE
INVARIANT NoServerMissed
PROPERTY Settles
