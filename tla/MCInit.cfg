CONSTANTS
  MaxFails = 2
  MaxUnloads = 2
  MaxObjects = 2
  Width = 16
SPECIFICATION ConnectorSpec
INVARIANTS
  Consistent
  Accounted
