\* Two threads of one process change the file.
SPECIFICATION Spec
SYMMETRY Interchangeable
CONSTANTS
  r1 = r1
  r2 = r2
  w1 = w1
  w2 = w2
  server = server
  cli = cli
  cli2 = cli2
  EmptySubject = nobody
  Grant = {g}
  Subject = {alice}
  TokenId = {k1, k2}
  Thread <- SharedThread
  Store = {cli}
  StoreOf <- SharedStoreOf
  Writer <- SharedThread
  EditAnytime = FALSE
  MaxCrash = 1
  MaxEdit = 2
  MaxLoss = 0
INVARIANTS
  TypeOK
  RevokedStaysRevoked
  NoLostIssue
PROPERTIES
  DisabledStaysDisabled
  ImplementsCredentialStore
