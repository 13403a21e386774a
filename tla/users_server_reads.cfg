\* The server reads while a command line writes; power may be lost.
SPECIFICATION FairSpec
CONSTANTS
  r1 = r1
  r2 = r2
  w1 = w1
  w2 = w2
  server = server
  cli = cli
  cli2 = cli2
  EmptySubject = nobody
  Grant = {g}
  Subject = {alice}
  TokenId = {k1}
  Thread <- ServedThread
  Store = {server, cli}
  StoreOf <- ServedStoreOf
  Writer = {w1}
  EditAnytime = FALSE
  MaxCrash = 0
  MaxEdit = 0
  MaxLoss = 1
INVARIANTS
  NeverTorn
PROPERTIES
  EveryCallReturns
  ImplementsCredentialStore
