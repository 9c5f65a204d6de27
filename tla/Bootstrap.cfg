SPECIFICATION Spec
CONSTANTS
  i1 = i1
  i2 = i2
  c1 = c1
  c2 = c2
  Importers = {i1, i2}
  Callers = {c1, c2}
  Finders = {f1, f2}
  Unrelated = unrelated
  NoOne = noone
  NoModule = nomodule
  NoFinder = nofinder
  MaxUnloads = 1
  MaxForks = 1
INVARIANT TypeOK
INVARIANT MountsFinishedModule
INVARIANT WaitingIsArmed
INVARIANT WorkerIsClean
INVARIANT DeliveryIsWanted
PROPERTY RegisterReturns
PROPERTY DeliveredOnceReady
\* calls and imports are bounded
CHECK_DEADLOCK FALSE
