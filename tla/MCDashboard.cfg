SPECIFICATION Spec

CONSTANTS
  Webhooks = {1, 2}
  Endpoints = {1, 2}
  EndpointOf <- MCEndpointOf
  Created = 2
  All = All
  Nothing = Nothing
  Update = Update
  Limit = 2
  MaxLimit = 2
  DefaultLimit = 1
  MaxLoads = 2
  Budget <- MCBudget
  Breaks <- MCBreaks

INVARIANTS
  TypeOK
  NoDuplicateRows
  QuietListComplete
  SomethingSelected
  
  NeverSilent
