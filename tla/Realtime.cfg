SPECIFICATION FairSpec
CONSTANTS
  acme = acme
  globex = globex
  r1 = r1
  r2 = r2
  s1 = s1
  s2 = s2
  s3 = s3
  Idle = Idle
  Orgs = {acme, globex}
  Requests = {r1, r2}
  Sockets = {s1, s2, s3}
  OrgOf <- SomeOrgs
  CallersOf <- SomeCallers
  PoolSize = 3
  Threads = 1
INVARIANTS
  NoDeafSocket
  NoGhostSocket
  EveryoneIsTold
  ConnectionsReturned
PROPERTIES
  RequestAnswered
  SocketReleased
