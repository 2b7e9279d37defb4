SPECIFICATION Spec
CONSTANTS
  acme = acme
  globex = globex
  p1 = p1
  p2 = p2
  p3 = p3
  NONE = NONE
  Orgs = {acme, globex}
  Projects = {p1, p2, p3}
  Keys = {k1, k2}
  OrgOf <- SomeOrgs
  MaxFlags = 4
INVARIANTS
  SchemaIsTheModels
  FlagsOfTheirOrganization
  RefusedOnlyWhenBlocked
PROPERTIES
  BlockedBelowHead
  ImplementsDatabase
