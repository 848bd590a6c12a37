CONSTANTS
  Handle = {h1, h2, h3}
  Slot = {s1, s2}
  Space = {p1, p2}
  f1 = f1
  f2 = f2
  g1 = g1
  d1 = d1
  d2 = d2
  t1 = t1
  File = {f1, f2}
  Uri <- MCUri
  Kind <- MCKind
  Home <- MCHome
  MaxExtent = 0
  AttrKey = AttrKey
  AppFile = AppFile
  None = None
SYMMETRY Symmetry
SPECIFICATION Spec
INVARIANTS
  TypeOK
  DomainCounts
  SpaceCounts
  RegistryLive
  RightDomain
PROPERTY LifetimeSpec
