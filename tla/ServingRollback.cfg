SPECIFICATION LayoutSpec
CONSTANTS
  k1 = k1
  k2 = k2
  Prepares = {p1, p2}
  Clears = {}
  Packages = {k1}
  Names = {"model_index.json", "transformer"}
  NoOne = noone
  NoPackage = nopackage
  Overlapping = TRUE
  MaxFaults = 0
PROPERTY RollbackOnlyOwn
\* calls are bounded
CHECK_DEADLOCK FALSE
