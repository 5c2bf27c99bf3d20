CONSTANTS
  Procs = {w, r}
  Writers = {w}
  EventReaders = {w}
  MaxEvent = 3
  Patience = 2
  CleanSetup = FALSE
  OpenRace = FALSE
  LateSignals = FALSE
  MaxAdded = 4
SPECIFICATION Spec
INVARIANT
  SuspendedWhenClosed
