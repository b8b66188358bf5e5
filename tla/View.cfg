SPECIFICATION LiveLagSpec
CONSTANTS
  Places <- OneStep
  Ceiling = 2
  Asked <- Requests
  First = 9
  Batch = 17
  CutAfter <- Prefixes
  None = None
INVARIANTS
  CreditedWasSent
  CompleteUnlessNarrowed
PROPERTIES
  LagIsRepaired
