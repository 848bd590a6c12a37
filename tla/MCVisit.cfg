CONSTANTS
  r = r
  a = a
  b = b
  d = d
  Group = {r, a, b}
  Leaf = {d}
  Nil = Nil
  Outermost = Outermost
  Graphs <- MCGraphs
  CrtTime <- MCCrtTime
  MaxCalls = 1
  MaxChanges = 1
SPECIFICATION LiveSpec
INVARIANTS
  RecursionSound
  ReportsExact
PROPERTY CallReturns
CHECK_DEADLOCK FALSE
