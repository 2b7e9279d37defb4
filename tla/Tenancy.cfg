SPECIFICATION FairSpec
CONSTANTS
  NONE = NONE
  Blank = Blank
  Generated = Generated
  alice = alice
  bob = bob
  carol = carol
  acme = acme
  web = web
  bobs = bobs
  old = old
  New = New
  Alike = Alike
  Taken = Taken
  Carol = Carol
  Odd = Odd
  Empty = Empty
  new = new
  taken = taken
  alices = alices
  carols = carols
  odd = odd
  Requests = {r1, r2}
  Ids <- SomeIds
  Texts <- SomeTexts
  Keys <- SomeKeys
  Normal <- NormalForms
  Slugs <- SomeSlugs
  Seed <- SomeRows
  Bodies <- EveryBody
INVARIANTS
  UniqueKeys
  WholeOrNothing
  OwnersOnly
  AnswersTrue
PROPERTIES
  ImplementsRegistry
  RequestAnswered
