SPECIFICATION FairSpec
CONSTANTS
  NONE = NONE
  Orgs = {acme, globex}
  WithProject = {acme}
  First = acme
  MaxCalls = 2
  MaxSockets = 3
  MaxSelections = 2
  MaxChanges = 1
  MaxFaults = 2
INVARIANTS
  TypeOK
  OneLiveSocket
  SilentAfterLogout
  RetryOnlyWhenDown
  SocketFollowsSelection
  FlagsAreCurrent
PROPERTIES
  ConnectionReturns
