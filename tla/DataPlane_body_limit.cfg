CONSTANTS
  a = a
  b = b
  q1 = q1
  q2 = q2
  e1 = e1
  e2 = e2
  Roster <- PairOfRelays
  ProviderOf <- TwoPlatforms
  MaxBody <- Limit
  Endpoints = {e1}
  NoEndpoint = NoEndpoint
  EndpointsOf <- NoneMoves
  Requests = {q1}
  Sizes = {1, 2}
  Pins = {"all", "vercel", "deno"}
  SettingsChoices <- OnceOrTwice
  MaxObjects <- OneObject
SPECIFICATION Spec
SYMMETRY Symmetry
PROPERTIES
  RefusedOnlyWhenNoneAccepts
