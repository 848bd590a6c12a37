CONSTANTS
  d1 = d1
  d2 = d2
  d3 = d3
  Dset = {d1, d2, d3}
  ReadOnly = {d3}
  Dims <- MCDims
  Transfers <- MCTransfers
  H5S_ALL = H5S_ALL
  Junk = Junk
SPECIFICATION Spec
INVARIANTS
  ReadExact
  ContiguousSound
  SetUpSound
PROPERTY WriteExact
CHECK_DEADLOCK FALSE
