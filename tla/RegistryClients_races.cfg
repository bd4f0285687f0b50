CONSTANTS
  Keys = {k1}
  s1 = s1
  s2 = s2
  Scopes = {s1, s2}
  Unknown = Unknown
  Gone = Gone
  Endpoints <- OneHost
  NoEndpoint = NoEndpoint
  AgeCap = 3
  StreakCap = 3
  Doubling <- Powers
  DurationMod = 16
  SeqMod = 3
  Clients = {c1, c2}
  Addresses <- InScope
  SettingsChoices <- SlowOrBrisk
  FailReasons = {"unreachable"}
  Hiccups = FALSE
  MaxGen = 3
  MaxObjects = 2
SPECIFICATION Spec
SYMMETRY Symmetry
INVARIANTS
  TypeOK
  ReadyCountExact
  SingleFlight
  NoStaleCompletion
  HoldHasOwner
  OutMeansOut
  ServesOwnScope
  GateFollowsSettings
PROPERTIES
  OutageHealsQuickly
  PauseKeepsCadence
  AdmissionEndsWithIncarnation
  NoResurrection
  MembershipNotified
