SPECIFICATION Spec
CONSTANTS
  NULL = NULL
  Blank = Blank
  Nobody = Nobody
  Plan = Plan
  Pro = Pro
  Free = Free
  Strings <- RuleStrings
  Percentages <- SomePercentages
  Payloads <- RulePayloads
  Requests = {r1, r2, r3}
  Users = {alice}
  Members = {alice}
INVARIANT RuleSetOrClear
