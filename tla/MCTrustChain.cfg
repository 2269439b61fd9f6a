SPECIFICATION TrustSpec
CONSTANTS
  c1 = c1
  c2 = c2
  None = None
  Clients = {c1, c2}
  Unit = 100
  EventLimit = 4096
  LevelNames = {"budget_lvl"}
  TuningFields = {"aero", "slider"}
  LapLimit = 100
  SafeInteger = 100
  MicrosPerSecond = 6
  MillisPerSecond = 1
  TimeMax = 200
  Worlds <- MCWorlds
  EmbeddedPolicy <- MCEmbeddedPolicy
  RuleHolds <- MCRuleHolds
INVARIANTS
  RacedWithinPolicy
  VerifiedWasAuthorized
  HonestRunVerifies
CHECK_DEADLOCK FALSE
