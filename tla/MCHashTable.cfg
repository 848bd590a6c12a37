CONSTANTS
  k1 = k1
  k2 = k2
  k3 = k3
  k4 = k4
  Key = {k1, k2, k3, k4}
  Value = {v1, v2}
  NoValue = NoValue
  NoEntry = NoEntry
  HashOf <- MCHashOf
  Primes <- MCPrimes
  MaxIndex = 3
SPECIFICATION TableSpec
INVARIANTS
  WellFormed
  IterationExact
PROPERTY MapSpec
