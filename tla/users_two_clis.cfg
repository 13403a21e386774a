\* Two command lines change the file at once.
SPECIFICATION Spec
CONSTANTS
  r1 = r1
  r2 = r2
  w1 = w1
  w2 = w2
  server = server
  cli = cli
  cli2 = cli2
  EmptySubject = nobody
  Grant = {g}
  Subject = {alice}
  TokenId = {k1, k2}
  Thread <- SharedThread
  Store = {cli, cli2}
  StoreOf <- ApartStoreOf
  Writer <- SharedThread
  EditAnytime = FALSE
  MaxCrash = 0
  MaxEdit = 0
  MaxLoss = 0
INVARIANTS
  RevokedStaysRevoked
