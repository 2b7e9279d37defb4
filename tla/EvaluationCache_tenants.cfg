SPECIFICATION Spec
CONSTANTS
  NONE = NONE
  acme = acme
  globex = globex
  production = production
  staging = staging
  k1 = k1
  k2 = k2
  k3 = k3
  Threads = {t1, t2}
  Writers = {}
  ApiKeys = {k1, k2, k3}
  Orgs = {acme, globex}
  FlagKeys = {checkout}
  Environments = {production, staging}
  KeyOrg <- TwoOrgs
  KeyEnv <- TwoEnvs
  TTL = 1
  MaxLoad = 0
  MaxVersion = 0
INVARIANT AnswerScoped
