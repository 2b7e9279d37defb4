SPECIFICATION Spec
CONSTANTS
  NULL = NULL
  Blank = Blank
  Plan = Plan
  Pro = Pro
  Free = Free
  Strings <- RuleStrings
  Percentages <- SomePercentages
  Payloads <- SomePayloads
  Customers <- SomeCustomers
  Attributes <- CustomerAttributes
  Bucket <- CustomerBucket
INVARIANT ReachesAudience
PROPERTY StickyRollout
