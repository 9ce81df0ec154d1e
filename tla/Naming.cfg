\* Three routers in a row
SPECIFICATION Spec
CONSTANTS
  a = a
  b = b
  c = c
  v1 = v1
  v2 = v2
  left = left
  right = right
  Local = Local
  None = None
  Routers = {a, b, c}
  Xports <- MCXports
  NetOf <- MCNetOf
  Servers = {v1}
  HomeOf <- MCHomeOf
  MaxOps = 3
  MaxStops = 1
  Overlaps = {}
CHECK_DEADLOCK FALSE
INVARIANTS
  TypeOK
  NoGhost
  OwnServersAreLocal
