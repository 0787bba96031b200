SPECIFICATION Spec
CONSTANTS
  a = a
  b = b
  c = c
  d = d
  Listener = {a, b, c, d}
  End = End
  Type <- MCType
  Card <- MCCard
  Prio <- MCPrio
  MaxStamp = 4
  MaxLock = 3
INVARIANTS
  TypeOK
  NoDanglingIterator
  DueAhead
CHECK_DEADLOCK FALSE
