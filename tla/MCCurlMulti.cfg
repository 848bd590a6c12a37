CONSTANTS
  Transfer = {t1, t2, t3}
  Chunks = 1
  MinFails = 1
  MaxFails = 2
SPECIFICATION FairSpec
INVARIANTS
  TypeOK
  HandlePlacement
  RetriesAfresh
  SuccessIsEarned
PROPERTIES
  AcceptedIsFinal
  CallReturns
