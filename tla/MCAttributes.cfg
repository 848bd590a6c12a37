CONSTANTS
  r = r
  d = d
  t = t
  a = a
  b = b
  v = v
  w = w
  Object = {r, d, t}
  Root = r
  TypeOf <- MCTypeOf
  NameOrder <- MCNameOrder
  Value = {v, w}
  Empty = Empty
  ErrorPage = ErrorPage
  Nothing = Nothing
  AttrStates <- MCAttrStates
  MaxChanges = 1
SPECIFICATION LiveSpec
INVARIANTS
  RenameSafe
  AnswersTrue
  FileKept
PROPERTIES
  ChangesAsAsked
  AttrCallEnds
CHECK_DEADLOCK FALSE
