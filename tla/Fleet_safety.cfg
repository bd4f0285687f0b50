CONSTANTS
  k1 = k1
  Keys = {k1, k2}
  Scopes = {s1, s2}
  Unknown = Unknown
  Gone = Gone
  Endpoints <- AllEndpoints
  Hosts = {"host"}
  NoEndpoint = NoEndpoint
  AgeCap = 1
  StreakCap = 1
  Doubling <- Powers
  DurationMod = 16
  SeqMod = 1000
  Provider <- OnePlatform
  Project <- OwnProject
  Cfg <- Quick
  AtBoot = {"none"}
  Budgets <- Mixed
SPECIFICATION Spec
SYMMETRY ScopeSymmetry
INVARIANTS
  TypeOK
  RolloutDeploysOnQuiet
  DeletesOnQuiet
  AppliedIsShown
  WakeupNotLost
  HoldsAreReturned
  DeploysTheIncarnation
