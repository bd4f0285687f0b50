CONSTANTS
  k1 = k1
  Keys = {k1, k2}
  Scopes = {s1}
  Unknown = Unknown
  Gone = Gone
  Endpoints <- AllEndpoints
  Hosts = {"a"}
  NoEndpoint = NoEndpoint
  AgeCap = 1
  StreakCap = 1
  Doubling <- Powers
  DurationMod = 16
  SeqMod = 1000
  Provider <- OnePlatform
  Project <- FirstProject
  Cfg <- Quick
  AtBoot = {"current"}
  Budgets <- Renamed
SPECIFICATION Spec
INVARIANTS
  PurgesCutNobody
