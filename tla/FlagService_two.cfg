SPECIFICATION FairSpec
CONSTANTS
  NULL = NULL
  Blank = Blank
  Nobody = Nobody
  Plan = Plan
  Pro = Pro
  Free = Free
  Strings <- RuleStrings
  Percentages <- SomePercentages
  Payloads <- EveryPayload
  Requests = {r1, r2}
  Users = {alice, mallory}
  Members = {alice}
INVARIANTS
  LogExplainsRow
  AuditTruthfulUnlessOverlapped
  LastWriterWins
  NoPhantomEvent
PROPERTIES
  ImplementsRegister
  RequestAnswered
