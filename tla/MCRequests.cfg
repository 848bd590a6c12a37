CONSTANTS
  u1 = u1
  Files = {f1, f2}
  Users = {u1}
  Token = Token
  None = None
  Environments <- MCEnvironments
SPECIFICATION LiveSpec
INVARIANTS
  RequestsOwn
  SuccessEarned
PROPERTIES
  DomainsExact
  HandlerReturns
