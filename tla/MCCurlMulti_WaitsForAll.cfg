CONSTANTS
  Transfer = {t1, t2}
  Chunks = 1
  MinFails = 2
  MaxFails = 2
SPECIFICATION Spec
INVARIANT WaitsForAll
