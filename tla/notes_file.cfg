SPECIFICATION Spec
SYMMETRY Interchangeable
CONSTANTS
  Owner = {alice, bob}
  EmptyOwner = nobody
  Thread = {t1, t2}
  MaxAdds = 3
  MaxTime = 1
  MaxCrash = 1
  MaxSlip = 1
  MaxLoss = 1
INVARIANTS
  TypeOK
  NoNoteLost
  NeverTorn
  OldestFirst
PROPERTIES
  ImplementsNoteStore
