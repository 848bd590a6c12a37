CONSTANTS
  main = main
  other = other
  r = r
  g = g
  d = d
  x = x
  a = a
  b = b
  File = {main, other}
  Group = {r, g, x}
  Dataset = {d}
  Name = {a, b}
  Root <- MCRoot
  FileOf <- MCFileOf
  NoLink = NoLink
  Nothing = Nothing
  MaxFollow = 3
  Graphs <- MCGraphs
  Paths <- MCPaths
  Targets <- MCTargets
  NameOrder <- MCNameOrder
  MaxChanges = 1
SPECIFICATION Spec
INVARIANT AnswersTrue
PROPERTY ChangesAsAsked
CHECK_DEADLOCK FALSE
