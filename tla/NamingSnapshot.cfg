\* A removal overtaken by a list of servers
SPECIFICATION Spec
CONSTANTS
  a = a
  b = b
  c = c
  v1 = v1
  v2 = v2
  left = left
  right = right
  Local = Local
  None = None
  Routers = {a, b}
  Xports <- MCXports
  NetOf <- MCNetOf
  Servers = {v1}
  HomeOf <- MCHomeOf
  MaxOps = 2
  MaxStops = 0
  Overlaps = {"snapshot"}
CHECK_DEADLOCK FALSE
INVARIANT NoGhost
