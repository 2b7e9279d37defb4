SPECIFICATION Spec
CONSTANTS
  NULL = NULL
  Blank = Blank
  Nobody = Nobody
  Plan = Plan
  Pro = Pro
  Free = Free
  Strings <- RuleStrings
  Percentages <- SomePercentages
  Payloads <- TogglePayloads
  Requests = {r1, r2}
  Users = {alice}
  Members = {alice}
INVARIANT ListingExplainsRow
