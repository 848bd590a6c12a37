CONSTANTS
  main = main
  other = other
  r = r
  g = g
  d = d
  x = x
  y = y
  a = a
  b = b
  File = {main, other}
  Group = {r, g, x}
  Dataset = {d, y}
  Name = {a, b}
  Root <- MCRoot
  FileOf <- MCFileOf
  NoLink = NoLink
  Nothing = Nothing
  MaxFollow = 4
  Graphs <- MCGraphs
  Paths <- MCPaths
  MaxDepth = 8
  MaxFaults = 1
  MaxChanges = 1
SPECIFICATION LiveSpec
INVARIANTS
  FindsExactly
  OwnAnswers
  StackUnwinds
PROPERTY LookupEnds
CHECK_DEADLOCK FALSE
