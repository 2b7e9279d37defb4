SPECIFICATION Spec
CONSTANTS
  NONE = NONE
  acme = acme
  globex = globex
  production = production
  staging = staging
  k1 = k1
  k2 = k2
  k3 = k3
  Threads = {t1, t2}
  Writers = {w1}
  ApiKeys = {k1}
  Orgs = {acme}
  FlagKeys = {checkout}
  Environments = {production}
  KeyOrg <- OneOrg
  KeyEnv <- OneEnv
  TTL = 1
  MaxLoad = 1
  MaxVersion = 1
INVARIANT ExpiryIsAMiss
