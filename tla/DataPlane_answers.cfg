CONSTANTS
  a = a
  b = b
  q1 = q1
  q2 = q2
  e1 = e1
  e2 = e2
  Roster <- PairOfRelays
  ProviderOf <- TwoPlatforms
  MaxBody <- Limit
  Endpoints = {e1, e2}
  NoEndpoint = NoEndpoint
  EndpointsOf <- OnlyAMoves
  Requests = {q1}
  Sizes = {1, 2}
  Pins = {"all"}
  SettingsChoices <- OnceOrStream
  MaxObjects <- OneEach
SPECIFICATION Spec
INVARIANTS
  AttemptsBounded
  OneLiveObject
  HealthIsItsOwn
PROPERTIES
  EveryRequestAnswered
  HealthFollowsEndpoint
