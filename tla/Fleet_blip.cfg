CONSTANTS
  k1 = k1
  Keys = {k1}
  Scopes = {s1}
  Unknown = Unknown
  Gone = Gone
  Endpoints <- AllEndpoints
  Hosts = {"host"}
  NoEndpoint = NoEndpoint
  AgeCap = 1
  StreakCap = 1
  Doubling <- Powers
  DurationMod = 16
  SeqMod = 1000
  Provider <- OnePlatform
  Project <- OwnProject
  Cfg <- Quick
  AtBoot = {"none"}
  Budgets <- OneBlip
SPECIFICATION Spec
INVARIANTS
  BlippedDeploysOnQuiet
