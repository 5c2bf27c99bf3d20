CONSTANTS
  Procs = {w, r}
  Writers = {w}
  EventReaders = {w}
  MaxEvent = 3
  Patience = 2
  CleanSetup = FALSE
  OpenRace = FALSE
  LateSignals = FALSE
  MaxAdded = 4
SPECIFICATION FairSpec
INVARIANTS
  TypeOK
  LockExclusive
  NoEventSkipped
  LockIsFresh
  
PROPERTY
  EndsSuspended
