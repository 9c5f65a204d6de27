SPECIFICATION DeferredSpec
CONSTANTS
  i1 = i1
  i2 = i2
  c1 = c1
  c2 = c2
  Importers = {i1, i2}
  Callers = {c1, c2}
  Finders = {f1, f2}
  Unrelated = unrelated
  NoOne = noone
  NoModule = nomodule
  NoFinder = nofinder
  MaxUnloads = 0
  MaxForks = 0
INVARIANT NeverStranded
\* calls and imports are bounded
CHECK_DEADLOCK FALSE
