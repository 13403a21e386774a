SPECIFICATION FairSpec
CONSTANTS
  Owner = {alice, bob}
  EmptyOwner = nobody
  Thread = {t1, t2}
  MaxAdds = 3
  MaxTime = 1
  MaxCrash = 1
INVARIANTS
  TypeOK
PROPERTIES
  ImplementsNoteStore
  EveryCallReturns
